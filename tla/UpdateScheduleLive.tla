------------------------- MODULE UpdateScheduleLive -------------------------
(***************************************************************************)
(* What UpdateSchedule does in the end, in the behaviours in which the     *)
(* unsettling actions stop at some point.  Each of them refills a socket    *)
(* with something other than pixels, and can do so for ever just when the   *)
(* pixels could have gone: a viewer that reads slowly and is sent cursor     *)
(* positions without end may never see a change.  Which step is which is    *)
(* not a matter of the two states alone, for a socket that is drained and   *)
(* a cursor that is queued may lead from the same state to the same state;  *)
(* so the variable "settled" keeps the book.                                *)
(***************************************************************************)
EXTENDS UpdateSchedule

VARIABLE settled   \* history: no unsettling action will be taken any more

liveVars == <<vars, settled>>

Settle ==
  /\ ~settled
  /\ settled' = TRUE
  /\ UNCHANGED vars

LiveNext ==
  \/ Unsettling /\ ~settled /\ UNCHANGED settled
  \/ Routine /\ UNCHANGED settled
  \/ Settle

(* What the main loop guarantees.  A resize ends, a handler returns and a  *)
(* loop over a client's messages runs out of input; every pass of the main *)
(* loop removes the sockets that were shut down and runs the timers that   *)
(* are due, between any two batches of socket events, which is strong      *)
(* fairness; and a viewer keeps reading, so that a socket that is waited   *)
(* for becomes writable.                                                   *)
Fairness ==
  /\ WF_vars(PostScreenResize)
  /\ SF_vars(FrameTimeout)
  /\ \A c \in Clients :
       /\ SF_vars(DesktopSizeSet(c))
       /\ SF_vars(EndMessages(c))
       /\ SF_vars(RemoveSocket(c))
       /\ SF_vars(FlushSocket(c))
       /\ SF_vars(LosslessTimeout(c))
       /\ SF_vars(VideoTimeout(c))

LiveSpec ==
  /\ Init /\ settled = FALSE
  /\ [][LiveNext]_liveVars
  /\ Fairness
  /\ WF_liveVars(Settle)

-----------------------------------------------------------------------------
(* The client can be sent an update as far as the protocol goes.           *)
Waiting(c) ==
  LET k == conn[c]
  IN k.state = "normal" /\ k.view /\ (k.requested \/ k.continuous)

(* While the desktop runs, what is drawn leaves the comparer, and a change *)
(* a waiting client has not seen is sent to it, or it stops waiting: none  *)
(* of the returns of writeFramebufferUpdate() is the last word, because    *)
(* whoever caused it tries again.  The screen may be drawn on and the      *)
(* client's socket filled and drained for ever.                            *)
UpdatesSent ==
  /\ comparer /\ desktopStarted ~> ~(comparer /\ desktopStarted)
  /\ \A c \in Clients :
       Waiting(c) /\ conn[c].updates ~> ~(Waiting(c) /\ conn[c].updates)

(* Once the screen is quiet, a client that waits for good ends up with no  *)
(* area left that was encoded with loss.                                   *)
LossRepaired ==
  \A c \in Clients :
    <>[](Waiting(c) /\ ~conn[c].updates /\ ~comparer /\ conn[c].continuous)
      => []<>~conn[c].lossy
=============================================================================
