----------------------------- MODULE UpdateFlow -----------------------------
(***************************************************************************)
(* How a pixel that an X client draws reaches a viewer: the framebuffer,   *)
(* the server's ComparingUpdateTracker (VNCServerST, ComparingUpdate-      *)
(* Tracker), each connection's tracker and its writeDataUpdate             *)
(* (VNCSConnectionST), and the order in which an update's rectangles are   *)
(* applied (EncodeManager::doUpdate).                                      *)
(*                                                                         *)
(* The server runs in one thread, so every handler is one atomic action;   *)
(* what interleaves is the X clients' drawing, the frame timer, and the    *)
(* viewers' requests and their congestion.  A connection is a record       *)
(*   updates      its SimpleUpdateTracker                                  *)
(*   copypassed   scroll copies found by the comparer, not yet sent        *)
(*   requested    the region the viewer has asked for                      *)
(*   cuRegion     the region under continuous updates ({} when off)        *)
(*   useCopyRect  whether the viewer's encodings include CopyRect          *)
(*   screen       the viewer's copy of the framebuffer                     *)
(* Pixel contents are compared and moved, never computed with, so Pixel    *)
(* is any set.  Lossy encodings, the server-side cursor and DLP blackouts  *)
(* are outside this module.                                                *)
(***************************************************************************)
EXTENDS UpdateTracker, Sequences

CONSTANTS
  Clients,          \* connections
  Width, Height,    \* framebuffer size
  Pixel,            \* pixel contents
  Deltas,           \* displacements of the copies X clients perform
  Requests,         \* regions a viewer may ask for
  CopyRectClients,  \* connections whose viewer understands CopyRect
  ScrollDetection,  \* Server::detectScrolling
  MaxScrolls        \* bound: scroll copies found in one frame

ASSUME SizeAssumption == Width \in Nat \ {0} /\ Height \in Nat \ {0}

Screen == (0 .. Width - 1) \X (0 .. Height - 1)

ASSUME ConfigAssumption ==
  /\ Pixel # {}
  /\ Deltas \subseteq Point
  /\ Requests \subseteq SUBSET Screen
  /\ CopyRectClients \subseteq Clients
  /\ ScrollDetection \in BOOLEAN
  /\ MaxScrolls \in Nat

VARIABLES
  fb,           \* the framebuffer, as the X server last drew it
  comparer,     \* the server's tracker: drawn since the last frame
  oldFb,        \* the comparer's copy of the framebuffer
  firstCompare, \* oldFb is to be filled before it is compared with
  conn,         \* the connections
  frame         \* history: the framebuffer at the last writeUpdate

vars == <<fb, comparer, oldFb, firstCompare, conn, frame>>

Image == [Screen -> Pixel]
CopyPass == [rect : SUBSET Screen, delta : Point]
Connection ==
  [updates : Tracker, copypassed : Seq(CopyPass), requested : SUBSET Screen,
   cuRegion : SUBSET Screen, useCopyRect : BOOLEAN, screen : Image]

-----------------------------------------------------------------------------
(* Copies move all pixels at once: writeCopyRects orders the rectangles of *)
(* a region by the sign of the displacement, so that no rectangle          *)
(* overwrites the source of a later one.                                   *)
CopyPixels(img, dest, delta) ==
  [p \in Screen |-> IF p \in dest THEN img[Shift(p, Negate(delta))] ELSE img[p]]

PaintFrom(img, region, source) ==
  [p \in Screen |-> IF p \in region THEN source[p] ELSE img[p]]

\* writeCopyPassRects: the scroll copies in the order they were found
CopyPasses(img, passes) ==
  LET after[i \in 0 .. Len(passes)] ==
        IF i = 0 THEN img
        ELSE CopyPixels(after[i - 1], passes[i].rect, passes[i].delta)
  IN  IF passes = <<>> THEN img ELSE after[Len(passes)]

PassedRegion(passes) == UNION {passes[i].rect : i \in DOMAIN passes}

\* doUpdate: copies, then scroll copies, then the changed pixels
ApplyUpdate(img, ui, passes) ==
  PaintFrom(CopyPasses(CopyPixels(img, ui.copied, ui.copy_delta), passes),
            ui.changed, fb)

-----------------------------------------------------------------------------
(* VNCServerST::getPendingRegion: drawn but not yet passed on by a frame.  *)
PendingRegion == comparer.changed \cup comparer.copied

Asked(k) == k.requested \cup k.cuRegion

(* The changes are withheld while the framebuffer is ahead of the trackers.*)
(* A refresh (lossless refresh or a cursor update) may still go out for    *)
(* the rest of the request, and answers it.                                *)
Withhold(k, pending, refresh) ==
  LET ui == UpdateInfo(k.updates, Asked(k))
      rest == Asked(k) \ (pending \cup ui.changed \cup ui.copied
                            \cup PassedRegion(k.copypassed))
  IN  IF refresh
      THEN [k EXCEPT !.updates = Subtract(Normalise(@), rest), !.requested = {}]
      ELSE [k EXCEPT !.updates = Normalise(@)]

Send(k, refresh) ==
  LET ui == UpdateInfo(k.updates, Asked(k))
      empty == ui.changed = {} /\ ui.copied = {} /\ k.copypassed = <<>>
  IN  IF empty /\ ~refresh
      THEN [k EXCEPT !.updates = Normalise(@)]
      ELSE [k EXCEPT !.screen = IF empty THEN @
                                ELSE ApplyUpdate(@, ui, k.copypassed),
                     !.copypassed = <<>>,
                     !.updates = Subtract(Normalise(@), Asked(k)),
                     !.requested = {}]

\* seeded fault: pending changes do not hold the update back
WriteDataUpdateAlways(k, pending, refresh) ==
  LET e == [k EXCEPT !.updates = EnableCopyrect(@, k.useCopyRect)]
  IN  IF Asked(e) = {} THEN e ELSE Send(e, refresh)

WriteDataUpdate(k, pending, refresh) ==
  LET e == [k EXCEPT !.updates = EnableCopyrect(@, k.useCopyRect)]
  IN  IF Asked(e) = {} THEN e
      ELSE IF pending # {} THEN Withhold(e, pending, refresh)
      ELSE Send(e, refresh)

(* writeFramebufferUpdate of a connection that is ready: requests pending, *)
(* no fence being answered, not congested.  A queued pseudo-rectangle      *)
(* (noData) goes out first and answers the request.                        *)
WriteFramebufferUpdate(k, pending, noData, refresh) ==
  WriteDataUpdate(IF noData THEN [k EXCEPT !.requested = {}] ELSE k,
                  pending, refresh)

-----------------------------------------------------------------------------
(* ComparingUpdateTracker::compare.  The copies are replayed on oldFb,     *)
(* then the changed region is narrowed to the blocks that really differ.   *)
(* Which pixels share a block with a difference depends on the rectangles  *)
(* of the region: any region between the differences and the old changed   *)
(* region may result.  With scroll detection the rectangles are first      *)
(* extended to the left, to a block boundary.                              *)
Moved(t) == CopyPixels(oldFb, t.copied, t.copy_delta)

Different(t) == {p \in t.changed : Moved(t)[p] # fb[p]}

Compared(t) ==
  IF ScrollDetection
  THEN {p \in Screen : \E q \in t.changed : q[2] = p[2] /\ q[1] >= p[1]}
  ELSE t.changed

(* Scroll detection explains a part of the differences as copies within    *)
(* oldFb; the lines a copy has overwritten are no longer sources.          *)
SourceOf(pass) == Translate(pass.rect, Negate(pass.delta))

IsScroll(t, passes) ==
  \A i \in DOMAIN passes :
    /\ SourceOf(passes[i]) \subseteq Screen
    /\ \A p \in passes[i].rect :
         Moved(t)[Shift(p, Negate(passes[i].delta))] = fb[p]
    /\ \A j \in 1 .. i - 1 : (SourceOf(passes[i]) \cup passes[i].rect)
                               \cap passes[j].rect = {}

(* Skipped when the only client still holds the copies of an earlier frame.*)
ScrollCopies(t) ==
  LET skip == \E c \in Clients : Clients = {c} /\ conn[c].copypassed # <<>>
      pass == [rect : (SUBSET Compared(t)) \ {{}}, delta : Deltas]
  IN  IF ~ScrollDetection \/ skip THEN {<<>>}
      ELSE {s \in UNION {[1 .. n -> pass] : n \in 0 .. MaxScrolls} : IsScroll(t, s)}

Narrowed(t, passes) ==
  {region \in SUBSET Compared(t) : Different(t) \subseteq region \cup PassedRegion(passes)}

-----------------------------------------------------------------------------
(* VNCSConnectionST::add_copypassed: copies found while older ones are     *)
(* unsent become changes, since all copies are sent before all changes.    *)
AddCopypassed(k, passes) ==
  IF k.copypassed # <<>>
  THEN [k EXCEPT !.updates = AddChanged(@, PassedRegion(passes))]
  ELSE [k EXCEPT !.copypassed = passes]

Receive(k, ui, passes) ==
  LET copy == [k EXCEPT !.updates = AddCopied(@, ui.copied, ui.copy_delta)]
      pass == AddCopypassed(copy, passes)
  IN  [pass EXCEPT !.updates = AddChanged(@, ui.changed)]

(* VNCServerST::writeUpdate passes the frame's changes to every connection *)
(* and lets it write.                                                      *)
Deliver(ui, passes, ready, noData, refresh) ==
  /\ conn' = [c \in Clients |->
       LET k == Receive(conn[c], ui, passes)
       IN  IF c \in ready
           THEN WriteFramebufferUpdate(k, {}, c \in noData, c \in refresh)
           ELSE k]
  /\ comparer' = Clear(comparer)
  /\ frame' = fb
  /\ UNCHANGED fb

\* seeded fault: disabling the comparer does not invalidate oldFb
FrameUncomparedKeepingOldFb(ready, noData, refresh) ==
  /\ UNCHANGED <<oldFb, firstCompare>>
  /\ Deliver(UpdateInfo(comparer, Screen), <<>>, ready, noData, refresh)

\* the comparer is disabled: everything reported is passed on
FrameUncompared(ready, noData, refresh) ==
  /\ firstCompare' = TRUE
  /\ UNCHANGED oldFb
  /\ Deliver(UpdateInfo(comparer, Screen), <<>>, ready, noData, refresh)

\* the comparer was just created or enabled: it only fills oldFb
FrameFirstCompare(ready, noData, refresh) ==
  /\ firstCompare
  /\ firstCompare' = FALSE
  /\ oldFb' = fb
  /\ Deliver(UpdateInfo(comparer, Screen), <<>>, ready, noData, refresh)

FrameCompared(passes, newChanged, ready, noData, refresh) ==
  LET t == Normalise(comparer)
  IN  /\ ~firstCompare
      /\ passes \in ScrollCopies(t)
      /\ newChanged \in Narrowed(t, passes)
      /\ oldFb' = PaintFrom(Moved(t), t.changed, fb)
      /\ Deliver(UpdateInfo([t EXCEPT !.changed = newChanged], Screen),
                 IF newChanged = t.changed THEN <<>> ELSE passes,
                 ready, noData, refresh)
      /\ UNCHANGED firstCompare

WriteUpdate ==
  \E ready \in SUBSET Clients : \E noData, refresh \in SUBSET ready :
    \/ FrameUncompared(ready, noData, refresh)
    \/ FrameFirstCompare(ready, noData, refresh)
    \/ \E passes \in ScrollCopies(Normalise(comparer)) :
         \E newChanged \in Narrowed(Normalise(comparer), passes) :
           FrameCompared(passes, newChanged, ready, noData, refresh)

-----------------------------------------------------------------------------
(* The X server: drawing operations report their region (vncHooks) ...     *)
Paint(region, source) ==
  /\ fb' = PaintFrom(fb, region, source)
  /\ comparer' = AddChanged(comparer, region)
  /\ UNCHANGED <<oldFb, firstCompare, conn, frame>>

\* ... and copies within the screen their destination and displacement
CopyArea(dest, delta) ==
  /\ Translate(dest, Negate(delta)) \subseteq Screen
  /\ fb' = CopyPixels(fb, dest, delta)
  /\ comparer' = AddCopied(comparer, dest, delta)
  /\ UNCHANGED <<oldFb, firstCompare, conn, frame>>

(* setPixelBuffer: a new framebuffer of the same size.  Every connection   *)
(* starts over with the whole screen changed and tries to write, but the   *)
(* new comparer has everything pending.                                    *)
SetPixelBuffer(img, ready, noData, refresh) ==
  /\ fb' = img
  /\ comparer' = AddChanged(NewTracker(TRUE), Screen)
  /\ firstCompare' = TRUE
  /\ conn' = [c \in Clients |->
       LET k == [conn[c] EXCEPT !.updates = AddChanged(Clear(@), Screen)]
       IN  IF c \in ready
           THEN WriteFramebufferUpdate(k, Screen, c \in noData, c \in refresh)
           ELSE k]
  /\ UNCHANGED <<oldFb, frame>>

-----------------------------------------------------------------------------
(* The connections.                                                        *)
NewConnection(img) ==
  [updates |-> AddChanged(NewTracker(FALSE), Screen), copypassed |-> <<>>,
   requested |-> {}, cuRegion |-> {}, useCopyRect |-> FALSE, screen |-> img]

Connect(c, img) ==
  /\ conn' = [conn EXCEPT ![c] = NewConnection(img)]
  /\ UNCHANGED <<fb, comparer, oldFb, firstCompare, frame>>

SetEncodings(c, useCopyRect) ==
  /\ useCopyRect => c \in CopyRectClients
  /\ conn' = [conn EXCEPT ![c].useCopyRect = useCopyRect]
  /\ UNCHANGED <<fb, comparer, oldFb, firstCompare, frame>>

\* seeded fault: a tracker cleared by a non-incremental request
FramebufferUpdateRequestClearing(c, region, incremental) ==
  /\ conn' = [conn EXCEPT ![c].requested = @ \cup region,
                          ![c].updates = IF incremental THEN @ ELSE Clear(@)]
  /\ UNCHANGED <<fb, comparer, oldFb, firstCompare, frame>>

FramebufferUpdateRequest(c, region, incremental) ==
  LET k == conn[c]
      asked == IF incremental /\ k.cuRegion # {} THEN {} ELSE region
      lost == IF incremental THEN {} ELSE region
  IN  /\ conn' = [conn EXCEPT
                    ![c].requested = @ \cup asked,
                    ![c].updates = AddChanged(@, lost)]
      /\ UNCHANGED <<fb, comparer, oldFb, firstCompare, frame>>

EnableContinuousUpdates(c, region) ==
  /\ conn' = [conn EXCEPT ![c].cuRegion = region,
                          ![c].requested = IF region = {} THEN @ ELSE {}]
  /\ UNCHANGED <<fb, comparer, oldFb, firstCompare, frame>>

(* writeFramebufferUpdate outside a frame: at the end of processMessages,  *)
(* when the socket drains, and from the congestion and lossless timers.    *)
(* While updates are blocked the whole screen counts as pending.           *)
Write(c, blocked, noData, refresh) ==
  /\ conn' = [conn EXCEPT ![c] =
       WriteFramebufferUpdate(@, IF blocked THEN Screen ELSE PendingRegion,
                              noData, refresh)]
  /\ comparer' = IF blocked THEN comparer ELSE Normalise(comparer)
  /\ UNCHANGED <<fb, oldFb, firstCompare, frame>>

-----------------------------------------------------------------------------
Init ==
  /\ fb \in Image
  /\ comparer = AddChanged(NewTracker(TRUE), Screen)
  /\ oldFb = fb
  /\ firstCompare = TRUE
  /\ \E img \in Image : conn = [c \in Clients |-> NewConnection(img)]
  /\ frame = fb

Desktop ==
  \/ \E region \in (SUBSET Screen) \ {{}} : \E source \in [region -> Pixel] :
       Paint(region, source)
  \/ \E dest \in (SUBSET Screen) \ {{}}, delta \in Deltas : CopyArea(dest, delta)
  \/ \E img \in Image, ready \in SUBSET Clients : \E noData, refresh \in SUBSET ready :
       SetPixelBuffer(img, ready, noData, refresh)

Viewer(c) ==
  \/ \E img \in Image : Connect(c, img)
  \/ \E use \in BOOLEAN : SetEncodings(c, use)
  \/ \E region \in Requests, incremental \in BOOLEAN :
       FramebufferUpdateRequest(c, region, incremental)
  \/ \E region \in Requests \cup {{}} : EnableContinuousUpdates(c, region)
  \/ \E blocked, noData, refresh \in BOOLEAN : Write(c, blocked, noData, refresh)

Next == Desktop \/ WriteUpdate \/ \E c \in Clients : Viewer(c)

Spec == Init /\ [][Next]_vars

-----------------------------------------------------------------------------
(* Type correctness: trackers, requests and screens stay within the        *)
(* framebuffer.                                                            *)
TypeOK ==
  /\ fb \in Image /\ oldFb \in Image /\ frame \in Image
  /\ firstCompare \in BOOLEAN
  /\ comparer \in Tracker
  /\ conn \in [Clients -> Connection]
  /\ comparer.changed \subseteq Screen /\ comparer.copied \subseteq Screen
  /\ \A c \in Clients : conn[c].updates.changed \subseteq Screen
                        /\ conn[c].updates.copied \subseteq Screen

(* A tracker describes how `new' differs from `old': outside its regions   *)
(* they agree, and a copied pixel that is not changed has its new contents *)
(* in `old' at the copy's source.                                          *)
Tracks(t, old, new) ==
  \A p \in Screen \ t.changed :
    IF p \in t.copied
    THEN Shift(p, Negate(t.copy_delta)) \in Screen
         /\ new[p] = old[Shift(p, Negate(t.copy_delta))]
    ELSE new[p] = old[p]

(* The server's tracker relates the last frame to the framebuffer, and a   *)
(* connection's tracker relates the viewer's screen to the last frame.     *)
(* This is what makes it safe to send nothing but the trackers' regions.   *)
ComparerTracks == Tracks(comparer, frame, fb)
ConnectionsTrack ==
  \A c \in Clients :
    conn[c].copypassed = <<>> => Tracks(conn[c].updates, conn[c].screen, frame)

(* oldFb, which writeUpdate compares with to drop unchanged blocks, is the *)
(* framebuffer as of the last frame, however frames, copies and switching  *)
(* the comparer off and on interleave.                                     *)
OldFbAccurate == ~firstCompare => oldFb = frame

(* All of this together: each stage of the pipeline knows exactly how far  *)
(* the next one is behind.                                                 *)
TrackersExact == TypeOK /\ ComparerTracks /\ ConnectionsTrack /\ OldFbAccurate

(* A viewer with nothing left to be sent shows the framebuffer, pixel for  *)
(* pixel: no change reported by the X server is ever lost on the way.      *)
NothingPending(c) ==
  IsEmpty(comparer) /\ IsEmpty(conn[c].updates) /\ conn[c].copypassed = <<>>
InSync == \A c \in Clients : NothingPending(c) => conn[c].screen = fb

(* Every copy still to be sent gives the viewer the pixels of the last     *)
(* frame: CopyRect is used when "the client already has the same pixel     *)
(* data elsewhere in its framebuffer" (doc/rfbproto.rst).  Changed pixels  *)
(* are sent after the copies and need no such source.                      *)
CopyRectsAccurate ==
  \A c \in Clients :
    LET ui == UpdateInfo(conn[c].updates, Screen)
        passes == conn[c].copypassed
        img == CopyPasses(CopyPixels(conn[c].screen, ui.copied, ui.copy_delta), passes)
    IN  \A p \in (ui.copied \cup PassedRegion(passes)) \ ui.changed :
          img[p] = frame[p]

(* A step that changes a viewer's screen leaves it showing the framebuffer *)
(* as a whole, never a mixture of an old and a new frame (writeDataUpdate: *)
(* "we cannot safely send an update without risking a partially updated    *)
(* screen").  Only for viewers that ask for the whole screen; a new        *)
(* connection starts with an arbitrary screen.                             *)
WholeFrames ==
  [][\A c \in Clients :
       conn'[c].screen # conn[c].screen =>
         conn'[c].screen = fb' \/ conn'[c] = NewConnection(conn'[c].screen)]_vars

-----------------------------------------------------------------------------
(* The inductive invariant behind InSync (UpdateFlowProofs), for servers   *)
(* without scroll detection whose CopyRect viewers ask for whole screens.  *)
WholeRequests == CopyRectClients = {} \/ Requests = {Screen}

ConnOK(c, k, img) ==
  /\ k \in Connection
  /\ k.updates.changed \subseteq Screen /\ k.updates.copied \subseteq Screen
  /\ k.copypassed = <<>>
  /\ k.useCopyRect \/ k.updates.copy_enabled => c \in CopyRectClients
  /\ k.updates.copied # {} => k.updates.copy_enabled
  /\ Requests = {Screen} => k.requested \in {{}, Screen} /\ k.cuRegion \in {{}, Screen}
  /\ Tracks(k.updates, k.screen, img)

ComparerOK ==
  /\ comparer \in Tracker
  /\ comparer.changed \subseteq Screen /\ comparer.copied \subseteq Screen
  /\ ComparerTracks

IInv ==
  /\ fb \in Image /\ oldFb \in Image /\ frame \in Image
  /\ firstCompare \in BOOLEAN
  /\ ComparerOK
  /\ OldFbAccurate
  /\ conn \in [Clients -> Connection]
  /\ \A c \in Clients : ConnOK(c, conn[c], frame)
=============================================================================
