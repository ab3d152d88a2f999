--------------------------- MODULE UpdateSchedule ---------------------------
(***************************************************************************)
(* When an update is sent.  VNCServerST runs a frame clock while there are  *)
(* changes its comparer has not handed out; every VNCSConnectionST decides  *)
(* in writeFramebufferUpdate() whether the moment is right, and returns     *)
(* without a word when it is not.  Whoever made the moment wrong must call  *)
(* it again later: the end of processMessages(), the write event of a       *)
(* congested socket, the next tick of the frame clock, the lossless timer.  *)
(*                                                                         *)
(* Everything runs on the X server's thread.  "active" is the client whose  *)
(* processMessages() loop is running, "blockCounter" counts the screen      *)
(* resizes under way; events and timers wait for both.  What an update      *)
(* holds is the business of UpdateFlow: here a tracker is empty or not, and *)
(* a client's request covers what the tracker holds.  The round-trip        *)
(* estimate of Congestion has no pings to work on (both calls of            *)
(* writeRTTPing() are commented out), never reports congestion and never    *)
(* starts the congestion timer, so a client is congested when its send      *)
(* buffer is not empty.  syncFence is only ever set while                   *)
(* inProcessMessages is, so the one guard stands for both.                  *)
(***************************************************************************)
EXTENDS Naturals, FiniteSets

CONSTANTS
  Clients,      \* the connections the server may hold at one time
  NoClient,     \* no processMessages() is running
  CanResize,    \* the clients that understand a change of the desktop size
  FullFrames,   \* whether the periodic full frame of UDP mode may be due
  Encodings,    \* what encoding the changed area may do to the areas encoded
                \* with loss: "exact", "beside", "lossy", "video"
  Refreshes,    \* what a lossless refresh may do: "none", "part", "full"
  Networks,     \* how much of a write the kernel may take
  Rights,       \* what the password file may say of a user
  Successes,    \* whether a screen resize may succeed, may fail
  MaxBlock      \* bound on nested screen resizes

ASSUME ConstantsOK ==
  /\ NoClient \notin Clients
  /\ CanResize \subseteq Clients
  /\ FullFrames \subseteq BOOLEAN
  /\ Encodings \subseteq {"exact", "beside", "lossy", "video"}
  /\ Refreshes \subseteq {"none", "part", "full"}
  /\ Networks \subseteq {"stuck", "some", "all", "broken"}
  /\ Rights \subseteq {"view", "none", "gone"}
  /\ Successes \subseteq BOOLEAN
  /\ MaxBlock \in Nat

VARIABLES
  comparer,        \* the server's tracker holds changes no client knows of
  frameTimer,      \* "off", or the length of the interval it is counting
  blockCounter,
  desktopStarted,
  active,
  sizing,          \* the active client's setDesktopSize() is in the desktop
  conn,            \* the connections
  perms,           \* what the password file says of each connection's user
  permEvent,       \* an inotify event about the password file is queued
  asserted         \* ghost: an assert() of the server has failed

vars == <<comparer, frameTimer, blockCounter, desktopStarted, active, sizing,
          conn, perms, permEvent, asserted>>

files == <<perms, permEvent>>

Perms == {"view", "none", "gone"}

(* The fields of a connection:                                             *)
(*   state       "none" when there is no connection, "hand" during the     *)
(*               handshake, then the RFBSTATE of the same name;            *)
(*   requested, continuous   what the client has asked for;                *)
(*   updates     its tracker holds changes;                                *)
(*   noData      the writer owes it a change of the desktop size;          *)
(*   fake        the writer owes it a cursor, name or LED pseudo-rectangle; *)
(*   buffered    data waits in the socket's send buffer;                   *)
(*   view, permCheck   AccessView and needsPermCheck;                      *)
(*   lossy       part of its screen was encoded with loss;                 *)
(*   lossless    losslessTimer is pending;                                 *)
(*   video       videoDetected, which has videoTimer pending;              *)
(*   owed        ghost: a request of the client has had no answer;         *)
(*   known       ghost: the user's rights when the server last had word of *)
(*               them, at the connection, in an event or from the file;    *)
(*   leaks       ghost: pixels were read from the framebuffer a resize is  *)
(*               replacing, "blocked", or for a user whose rights were     *)
(*               known to be "revoked".                                    *)
Connection ==
  [ state : {"none", "hand", "init", "normal", "closing"},
    requested : BOOLEAN, continuous : BOOLEAN, updates : BOOLEAN,
    noData : BOOLEAN, fake : BOOLEAN, buffered : BOOLEAN,
    view : BOOLEAN, permCheck : BOOLEAN,
    lossy : BOOLEAN, lossless : BOOLEAN, video : BOOLEAN,
    owed : BOOLEAN, known : Perms, leaks : SUBSET {"blocked", "revoked"} ]

NoConnection ==
  [ state |-> "none", requested |-> FALSE, continuous |-> FALSE,
    updates |-> FALSE, noData |-> FALSE, fake |-> FALSE, buffered |-> FALSE,
    view |-> FALSE, permCheck |-> FALSE, lossy |-> FALSE, lossless |-> FALSE,
    video |-> FALSE, owed |-> FALSE, known |-> "none", leaks |-> {} ]

(* What a write may meet: how much of its data the kernel takes (nothing,  *)
(* what was buffered, everything, or the peer is gone), what the encoders  *)
(* make of a changed area (it is exact and so is the rest, exact beside    *)
(* areas that are not, lossy, or lossy and taken for video), how far a     *)
(* lossless refresh gets, and whether the full frame of UDP mode is due.   *)
IO == [ net : Networks,
        enc : Encodings, refresh : Refreshes, full : FullFrames ]

authenticated(k) == k.state \in {"init", "normal"}

close(k) == [k EXCEPT !.state = "closing"]

-----------------------------------------------------------------------------
(* VNCSConnectionST: writing an update                                     *)

(* getPendingRegion(): nothing, some region, or everything while updates   *)
(* are blocked.  "stale" is everything at a time when the framebuffer may  *)
(* already be gone, "all" is everything once the new one is in place.      *)
getPendingRegion(blocks, changes) ==
  IF blocks > 0 THEN "stale" ELSE IF changes THEN "some" ELSE "none"

(* Seeded fault: rights are only ever added.                               *)
CheckPermsGranting(c, k) ==
  IF ~k.permCheck THEN k
  ELSE [k EXCEPT !.permCheck = FALSE, !.view = @ \/ perms[c] = "view",
                 !.known = perms[c]]

(* The re-read of the password file: a deleted user is disconnected.       *)
CheckPerms(c, k) ==
  IF ~k.permCheck THEN k
  ELSE IF perms[c] = "gone" THEN close([k EXCEPT !.permCheck = FALSE])
  ELSE [k EXCEPT !.permCheck = FALSE, !.view = perms[c] = "view",
                 !.known = perms[c]]

(* An update has been handed to the socket.                                *)
Answered(k, io) ==
  [k EXCEPT !.requested = FALSE, !.owed = FALSE, !.buffered = io.net # "all"]

(* Seeded fault: the request is forgotten whether or not anything is sent. *)
writeNoDataUpdateAlways(k, io) ==
  IF k.noData THEN [Answered(k, io) EXCEPT !.noData = FALSE]
  ELSE [k EXCEPT !.requested = FALSE]

writeNoDataUpdate(k, io) ==
  IF k.noData THEN [Answered(k, io) EXCEPT !.noData = FALSE] ELSE k

(* Seeded fault: the pending region is not consulted.                      *)
HasDataRegardless(k, pending, io) == k.updates \/ io.full

(* There is data to send: the client's changes, unless the server has      *)
(* others pending, or the full frame of UDP mode, whatever is pending.     *)
HasData(k, pending, io) == (k.updates /\ pending = "none") \/ io.full

(* The area outside the pending region was encoded with loss, and the last *)
(* real update is long enough ago; both are sure once the timer has fired  *)
(* and nothing is pending.                                                 *)
RefreshDue(k, pending, io) ==
  /\ k.lossy
  /\ pending \notin {"stale", "all"}
  /\ io.refresh # "none" \/ (~k.lossless /\ pending = "none")

(* The framebuffer is read for the client.                                 *)
Leaks(k, pending) ==
  k.leaks \cup (IF pending = "stale" THEN {"blocked"} ELSE {})
          \cup (IF k.known # "view" THEN {"revoked"} ELSE {})

(* Seeded fault: the lossless timer is not started.                        *)
writeUpdateRectsUntimed(k, pending, io) ==
  [Answered(k, io) EXCEPT
     !.updates = @ /\ pending # "none",
     !.fake = FALSE,
     !.lossy = io.enc # "exact" /\ (@ \/ io.enc # "beside"),
     !.leaks = Leaks(k, pending)]

(* EncodeManager::writeUpdate() with the accounting of writeDataUpdate().  *)
writeUpdateRects(k, pending, io) ==
  [Answered(k, io) EXCEPT
     !.updates = @ /\ pending # "none",
     !.fake = FALSE,
     !.lossy = io.enc # "exact" /\ (@ \/ io.enc # "beside"),
     !.lossless = TRUE,
     !.video = @ \/ io.enc = "video",
     !.leaks = Leaks(k, pending)]

(* EncodeManager::writeLosslessRefresh() returns at once in video mode, and *)
(* writeDataUpdate() forgets the request all the same.                     *)
writeLosslessRefresh(k, pending, io) ==
  IF k.video
  THEN [k EXCEPT !.requested = FALSE]
  ELSE [Answered(k, io) EXCEPT
          !.fake = FALSE,
          !.lossy = @ /\ ~(RefreshDue(k, pending, io) /\ io.refresh # "part"),
          !.leaks = IF RefreshDue(k, pending, io) THEN Leaks(k, pending) ELSE @]

writeDataUpdate(k, pending, io) ==
  IF ~(k.requested \/ k.continuous) THEN k
  ELSE IF HasData(k, pending, io) THEN writeUpdateRects(k, pending, io)
  ELSE IF k.fake \/ RefreshDue(k, pending, io)
       THEN writeLosslessRefresh(k, pending, io)
  ELSE k

(* The conditions for trying at all; act is the client whose messages are  *)
(* being processed.                                                        *)
MayWrite(c, k, act) ==
  /\ act # c
  /\ k.state = "normal"
  /\ k.requested \/ k.continuous

(* The state a client is in once the socket has been flushed and the       *)
(* permissions re-read; congested: stop here.                              *)
isCongested(k, io) == k.buffered /\ io.net = "stuck"

Checked(c, k) == CheckPerms(c, [k EXCEPT !.buffered = FALSE])

writeFramebufferUpdate(c, k, act, pending, io) ==
  IF ~MayWrite(c, k, act) THEN k
  ELSE IF io.net = "broken" THEN close(k)
  ELSE IF isCongested(k, io) THEN k
  ELSE LET ck == Checked(c, k)
       IN IF ck.state # "normal" \/ ~ck.view THEN ck
          ELSE writeDataUpdate(writeNoDataUpdate(ck, io), pending, io)

(* Every client is given a chance to write, from the connections ks.       *)
EveryoneWrites(ks, act, pending) ==
  \E io \in [Clients -> IO] :
    conn' = [c \in Clients |->
               writeFramebufferUpdate(c, ks[c], act, pending, io[c])]

(* Client c alone writes, from k.                                          *)
OneWrites(c, k, act, pending, io) ==
  conn' = [conn EXCEPT ![c] = writeFramebufferUpdate(c, k, act, pending, io)]

Pending == getPendingRegion(blockCounter, comparer)

-----------------------------------------------------------------------------
(* VNCServerST: the frame clock                                            *)

(* Seeded fault: a resize under way does not keep the clock from starting. *)
startFrameClockBlocked(timer, blocks, started) ==
  IF timer = "off" /\ started THEN "half" ELSE timer

(* startFrameClock(): what the timer becomes, given the block counter and  *)
(* whether the desktop runs.  The first interval is half a frame.          *)
startFrameClock(timer, blocks, started) ==
  IF timer = "off" /\ blocks = 0 /\ started THEN "half" ELSE timer

(* writeUpdate() on the connections ks: the comparer's changes go to every *)
(* client, unless a comparison with the old framebuffer shows that nothing *)
(* differs; the queued inotify events are read first.                      *)
writeUpdate(ks, started, act) ==
  /\ asserted' = (asserted \/ blockCounter # 0 \/ ~started)
  /\ comparer' = FALSE
  /\ permEvent' = FALSE
  /\ \E changed \in BOOLEAN :
       EveryoneWrites(
         [c \in Clients |->
            IF ks[c].state = "none" THEN ks[c]
            ELSE [ks[c] EXCEPT !.updates = @ \/ changed,
                               !.permCheck = @ \/ permEvent,
                               !.known = IF permEvent THEN perms[c] ELSE @]],
         act, "none")

(* The thread is in the main loop: no client is being served and no resize *)
(* is under way.                                                           *)
Idle == active = NoClient /\ blockCounter = 0

(* The frame timer has expired.  It keeps running, from now on with the    *)
(* full interval, until an interval has brought no change.                 *)
FrameTimeout ==
  /\ Idle
  /\ frameTimer # "off"
  /\ UNCHANGED <<blockCounter, desktopStarted, active, sizing, perms>>
  /\ IF comparer
     THEN writeUpdate(conn, desktopStarted, NoClient) /\ frameTimer' = "full"
     ELSE /\ frameTimer' = "off"
          /\ UNCHANGED <<comparer, conn, permEvent, asserted>>

(* The X server draws: at top level, or inside a resize.                   *)
InDesktop == active = NoClient \/ sizing

add_changed ==
  /\ comparer' = TRUE
  /\ frameTimer' = startFrameClock(frameTimer, blockCounter, desktopStarted)

Draw ==
  /\ InDesktop
  /\ add_changed
  /\ UNCHANGED <<blockCounter, desktopStarted, active, sizing, conn, files,
                 asserted>>

(* The wakeup pipe asks for a refresh of every client.                     *)
RefreshClients ==
  /\ Idle
  /\ add_changed
  /\ conn' = [c \in Clients |-> IF conn[c].state = "none" THEN conn[c]
                                ELSE [conn[c] EXCEPT !.updates = TRUE]]
  /\ UNCHANGED <<blockCounter, desktopStarted, active, sizing, files,
                 asserted>>

(* A resize of the screen begins: blockUpdates().                          *)
PreScreenResize ==
  /\ InDesktop
  /\ blockCounter < MaxBlock
  /\ blockCounter' = blockCounter + 1
  /\ frameTimer' = "off"
  /\ UNCHANGED <<comparer, desktopStarted, active, sizing, conn, files,
                 asserted>>

(* pixelBufferChange() before its attempt to write.                        *)
PixelBufferChanged(c, resized) ==
  LET k == conn[c]
  IN IF ~authenticated(k) THEN k
     ELSE IF resized /\ k.state = "normal" /\ c \notin CanResize THEN close(k)
     ELSE [k EXCEPT !.updates = TRUE, !.noData = @ \/ (resized /\ k.state = "normal")]

unblockUpdates(blocks, changes) ==
  /\ blockCounter' = blocks
  /\ frameTimer' = IF blocks = 0 /\ changes
                   THEN startFrameClock(frameTimer, blocks, desktopStarted)
                   ELSE frameTimer

(* The resize ends.  On success the new framebuffer replaces the comparer  *)
(* and every client is told, then updates are unblocked and the screen is  *)
(* marked as changed.                                                      *)
PostScreenResize ==
  /\ blockCounter > 0
  /\ UNCHANGED <<desktopStarted, active, sizing, files, asserted>>
  /\ \/ /\ TRUE \in Successes
        /\ comparer' = TRUE
        /\ \E resized \in BOOLEAN :
             EveryoneWrites([c \in Clients |-> PixelBufferChanged(c, resized)],
                            active, "all")
        /\ unblockUpdates(blockCounter - 1, TRUE)
     \/ /\ FALSE \in Successes
        /\ unblockUpdates(blockCounter - 1, comparer)
        /\ UNCHANGED <<comparer, conn>>

(* A change of the screen layout is told to every client but one:          *)
(* setScreenLayout() and notifyScreenLayoutChange().                       *)
LayoutChanged(ks, except) ==
  EveryoneWrites([c \in Clients |->
                    IF ks[c].state = "normal" /\ c \in CanResize \ {except}
                    THEN [ks[c] EXCEPT !.noData = TRUE] ELSE ks[c]],
                 active, Pending)

RefreshScreenLayout ==
  /\ InDesktop
  /\ LayoutChanged(conn, NoClient)
  /\ UNCHANGED <<comparer, frameTimer, blockCounter, desktopStarted, active,
                 sizing, files, asserted>>

(* A new cursor, desktop name or LED state is queued and the client given  *)
(* a chance to write; while setDesktopSize() is in the desktop a cursor is *)
(* only remembered.                                                        *)
SetCursor ==
  /\ active = NoClient
  /\ EveryoneWrites([c \in Clients |->
                       IF conn[c].state = "normal"
                       THEN [conn[c] EXCEPT !.fake = TRUE] ELSE conn[c]],
                    active, Pending)
  /\ UNCHANGED <<comparer, frameTimer, blockCounter, desktopStarted, active,
                 sizing, files, asserted>>

(* The X server has warped the cursor: the position is queued, and nothing *)
(* is written.                                                             *)
SetCursorPos ==
  /\ active = NoClient
  /\ conn' = [c \in Clients |-> IF conn[c].state = "normal"
                                THEN [conn[c] EXCEPT !.fake = TRUE] ELSE conn[c]]
  /\ UNCHANGED <<comparer, frameTimer, blockCounter, desktopStarted, active,
                 sizing, files, asserted>>

-----------------------------------------------------------------------------
(* The life of a connection                                                *)

(* addSocket(): the user's rights are read once.                           *)
AddSocket(c) ==
  /\ Idle
  /\ conn[c].state = "none"
  /\ conn' = [conn EXCEPT ![c] = [NoConnection EXCEPT
                !.state = "hand", !.view = perms[c] = "view",
                !.known = perms[c]]]
  /\ UNCHANGED <<comparer, frameTimer, blockCounter, desktopStarted, active,
                 sizing, files, asserted>>

(* processMessages() starts: its loop runs until there is nothing to read. *)
ProcessMessages(c) ==
  /\ Idle
  /\ conn[c].state \in {"hand", "init", "normal"}
  /\ active' = c
  /\ UNCHANGED <<comparer, frameTimer, blockCounter, desktopStarted, sizing,
                 conn, files, asserted>>

Reading(c, s) ==
  /\ active = c
  /\ ~sizing
  /\ conn[c].state = s

(* The handshake is done: authSuccess() starts the desktop, which flushes  *)
(* what has been drawn while nobody was watching.                          *)
AuthSuccess(c) ==
  LET ks == [conn EXCEPT ![c].state = "init", ![c].updates = TRUE]
  IN /\ Reading(c, "hand")
     /\ desktopStarted' = TRUE
     /\ UNCHANGED <<frameTimer, blockCounter, active, sizing, perms>>
     /\ IF ~desktopStarted /\ comparer
        THEN writeUpdate(ks, TRUE, c)
        ELSE /\ conn' = ks
             /\ UNCHANGED <<comparer, permEvent, asserted>>

(* A message that changes nothing but the connection itself.               *)
Received(c, k) ==
  /\ conn' = [conn EXCEPT ![c] = k]
  /\ UNCHANGED <<comparer, frameTimer, blockCounter, desktopStarted, active,
                 sizing, files, asserted>>

ClientInit(c) ==
  /\ Reading(c, "init")
  /\ Received(c, [conn[c] EXCEPT !.state = "normal"])

(* A request without view rights is dropped; an incremental one is ignored *)
(* while continuous updates are on; one that is not incremental marks its  *)
(* area as changed and asks for the screen layout.                         *)
FramebufferUpdateRequest(c, incremental) ==
  /\ Reading(c, "normal")
  /\ conn[c].view
  /\ Received(c, [conn[c] EXCEPT
       !.requested = @ \/ ~incremental \/ ~conn[c].continuous,
       !.owed = @ \/ ~incremental \/ ~conn[c].continuous,
       !.updates = @ \/ ~incremental,
       !.noData = @ \/ (~incremental /\ c \in CanResize)])

(* Turning continuous updates on replaces the outstanding request.         *)
EnableContinuousUpdates(c, enable) ==
  /\ Reading(c, "normal")
  /\ Received(c, [conn[c] EXCEPT
       !.continuous = enable,
       !.requested = @ /\ ~enable,
       !.owed = @ /\ ~enable])

(* A pointer event without the right to send one: recheckPerms().          *)
PointerEvent(c) ==
  /\ Reading(c, "normal")
  /\ Received(c, [conn[c] EXCEPT !.permCheck = TRUE])

(* setDesktopSize() goes into the desktop, where the screen may be resized, *)
(* and comes back to tell this client the result and the others, on        *)
(* success, the layout.                                                    *)
SetDesktopSize(c) ==
  /\ Reading(c, "normal")
  /\ sizing' = TRUE
  /\ UNCHANGED <<comparer, frameTimer, blockCounter, desktopStarted, active,
                 conn, files, asserted>>

DesktopSizeSet(c) ==
  /\ sizing
  /\ active = c
  /\ blockCounter = 0
  /\ sizing' = FALSE
  /\ UNCHANGED <<comparer, frameTimer, blockCounter, desktopStarted, active,
                 files, asserted>>
  /\ LET ks == [conn EXCEPT ![c].noData =
                  @ \/ (conn[c].state = "normal" /\ c \in CanResize)]
     IN conn' = ks \/ LayoutChanged(ks, c)

(* The loop has read everything there was: the update that was held back   *)
(* meanwhile is tried now.                                                 *)
EndMessages(c) ==
  /\ active = c
  /\ ~sizing
  /\ active' = NoClient
  /\ \E io \in IO : OneWrites(c, conn[c], NoClient, Pending, io)
  /\ UNCHANGED <<comparer, frameTimer, blockCounter, desktopStarted, sizing,
                 files, asserted>>

(* The connection is closed: by an exception while its messages are        *)
(* processed, or from outside (a timeout, the API, another client).        *)
Close(c) ==
  /\ blockCounter = 0
  /\ ~sizing
  /\ conn[c].state \in {"hand", "init", "normal"}
  /\ conn' = [conn EXCEPT ![c] = close(@)]
  /\ active' = IF active = c THEN NoClient ELSE active
  /\ UNCHANGED <<comparer, frameTimer, blockCounter, desktopStarted, sizing,
                 files, asserted>>

(* Seeded fault: the desktop is left running when the last client leaves.  *)
RemoveSocketKeeping(c) ==
  /\ Idle
  /\ conn[c].state = "closing"
  /\ conn' = [conn EXCEPT ![c] = NoConnection]
  /\ UNCHANGED <<comparer, frameTimer, blockCounter, desktopStarted, active,
                 sizing, files, asserted>>

(* removeSocket() deletes a connection that was shut down, and stops the   *)
(* desktop when no authenticated client is left.                           *)
RemoveSocket(c) ==
  /\ Idle
  /\ conn[c].state = "closing"
  /\ conn' = [conn EXCEPT ![c] = NoConnection]
  /\ LET stop == \A d \in Clients \ {c} : ~authenticated(conn[d])
     IN /\ desktopStarted' = (desktopStarted /\ ~stop)
        /\ frameTimer' = IF desktopStarted /\ stop THEN "off" ELSE frameTimer
  /\ UNCHANGED <<comparer, blockCounter, active, sizing, files, asserted>>

-----------------------------------------------------------------------------
(* What wakes a connection up                                              *)

(* Seeded fault: the socket is flushed, and no update tried.               *)
FlushSocketOnly(c) ==
  /\ Idle
  /\ conn[c].buffered
  /\ conn[c].state \in {"hand", "init", "normal"}
  /\ conn' = [conn EXCEPT ![c].buffered = FALSE]
  /\ UNCHANGED <<comparer, frameTimer, blockCounter, desktopStarted, active,
                 sizing, files, asserted>>

(* The kernel has room again: flushSocket().                               *)
FlushSocket(c) ==
  /\ Idle
  /\ conn[c].buffered
  /\ conn[c].state \in {"hand", "init", "normal"}
  /\ \E io \in IO :
       /\ io.net # "stuck"
       /\ IF io.net = "broken"
          THEN conn' = [conn EXCEPT ![c] = close(@)]
          ELSE OneWrites(c, [conn[c] EXCEPT !.buffered = FALSE], NoClient,
                         Pending, io)
  /\ UNCHANGED <<comparer, frameTimer, blockCounter, desktopStarted, active,
                 sizing, files, asserted>>

LosslessTimeout(c) ==
  /\ Idle
  /\ conn[c].lossless
  /\ \E io \in IO :
       OneWrites(c, [conn[c] EXCEPT !.lossless = FALSE], NoClient, Pending, io)
  /\ UNCHANGED <<comparer, frameTimer, blockCounter, desktopStarted, active,
                 sizing, files, asserted>>

(* EncodeManager's videoTimer: video mode is over, and the client's whole  *)
(* screen is marked as changed.                                            *)
VideoTimeout(c) ==
  /\ Idle
  /\ conn[c].video
  /\ Received(c, [conn[c] EXCEPT !.video = FALSE, !.updates = TRUE])

(* The password file is rewritten.                                         *)
ChangePerms(c) ==
  /\ \E p \in Rights \ {perms[c]} : perms' = [perms EXCEPT ![c] = p]
  /\ permEvent' = TRUE
  /\ UNCHANGED <<comparer, frameTimer, blockCounter, desktopStarted, active,
                 sizing, conn, asserted>>

-----------------------------------------------------------------------------
(* The server has a framebuffer, marked as changed, and no client.         *)
Init ==
  /\ comparer = TRUE
  /\ frameTimer = "off"
  /\ blockCounter = 0
  /\ desktopStarted = FALSE
  /\ active = NoClient
  /\ sizing = FALSE
  /\ conn = [c \in Clients |-> NoConnection]
  /\ perms \in [Clients -> Rights]
  /\ permEvent = FALSE
  /\ asserted = FALSE

(* What queues something other than pixels for a client: a change of the   *)
(* size or layout, a pseudo-rectangle, or both the screen and its layout   *)
(* at a viewer's request.                                                  *)
Unsettling ==
  \/ PreScreenResize
  \/ RefreshScreenLayout
  \/ SetCursor
  \/ SetCursorPos
  \/ \E c \in Clients :
       \/ FramebufferUpdateRequest(c, FALSE)
       \/ SetDesktopSize(c)

Message(c) ==
  \/ AuthSuccess(c)
  \/ ClientInit(c)
  \/ FramebufferUpdateRequest(c, TRUE)
  \/ \E enable \in BOOLEAN : EnableContinuousUpdates(c, enable)
  \/ PointerEvent(c)

(* Everything else.                                                        *)
Routine ==
  \/ Draw
  \/ RefreshClients
  \/ PostScreenResize
  \/ FrameTimeout
  \/ \E c \in Clients :
       \/ AddSocket(c)
       \/ ProcessMessages(c)
       \/ Message(c)
       \/ DesktopSizeSet(c)
       \/ EndMessages(c)
       \/ Close(c)
       \/ RemoveSocket(c)
       \/ FlushSocket(c)
       \/ LosslessTimeout(c)
       \/ VideoTimeout(c)
       \/ ChangePerms(c)

Next == Unsettling \/ Routine

Spec == Init /\ [][Next]_vars

-----------------------------------------------------------------------------
(* Every variable of the scheduler and of the connections has its type.    *)
TypeOK ==
  /\ comparer \in BOOLEAN
  /\ frameTimer \in {"off", "half", "full"}
  /\ blockCounter \in 0..MaxBlock
  /\ desktopStarted \in BOOLEAN
  /\ active \in Clients \cup {NoClient}
  /\ sizing \in BOOLEAN
  /\ conn \in [Clients -> Connection]
  /\ perms \in [Clients -> Perms]
  /\ permEvent \in BOOLEAN
  /\ asserted \in BOOLEAN

(* The frame clock runs exactly when it must: whenever the comparer holds  *)
(* changes, the desktop runs and no resize is under way, a tick is coming; *)
(* and no tick is coming while a resize is under way or the desktop is     *)
(* stopped, so that the assertions of writeUpdate() hold.  Drawing, a      *)
(* resize, the first client's login and the last one's departure start and *)
(* stop the clock in any order.                                            *)
ClockRunning ==
  /\ comparer /\ desktopStarted /\ blockCounter = 0 => frameTimer # "off"
  /\ frameTimer # "off" => desktopStarted /\ blockCounter = 0
  /\ ~asserted

(* The desktop runs while some client is past authentication, and not once *)
(* every connection has been removed.                                      *)
DesktopNeeded ==
  /\ (\E c \in Clients : authenticated(conn[c])) => desktopStarted
  /\ (\A c \in Clients : conn[c].state = "none") => ~desktopStarted

(* A request the client has had no answer to is still on the server's      *)
(* books.  Video mode is the exception: writeLosslessRefresh() sends        *)
(* nothing then and writeDataUpdate() forgets the request all the same.     *)
(* When the mode ends the whole screen is marked, so a forgotten request is *)
(* always made up for by changes that wait, for the next request to find.   *)
RequestsKept ==
  \A c \in Clients :
    conn[c].state = "normal" /\ conn[c].owed /\ ~conn[c].requested
      => conn[c].video \/ conn[c].updates

(* getPendingRegion() keeps every client from the old framebuffer while a  *)
(* resize is replacing it, whatever makes the client try to write.         *)
BlockedUntouched == \A c \in Clients : "blocked" \notin conn[c].leaks

(* Once the server has had word that a user may not look at the screen, no *)
(* frame is encoded for that user, however long the check is put off by a  *)
(* congested socket or by messages being processed.                        *)
RevocationHolds == \A c \in Clients : "revoked" \notin conn[c].leaks
=============================================================================
