------------------------ MODULE UpdateScheduleProofs ------------------------
(***************************************************************************)
(* Proofs about UpdateSchedule, for any number of clients and any depth of *)
(* nested screen resizes.                                                  *)
(***************************************************************************)
EXTENDS UpdateSchedule, TLAPS

-----------------------------------------------------------------------------
(* What holds of a connection at every moment, whatever the others do.     *)

(* The rights a connection uses are the ones the server has had word of,   *)
(* unless a check is due; only a connection that is being closed may be    *)
(* behind.                                                                 *)
RightsKnown(k) ==
  /\ k.state # "closing" /\ k.view /\ ~k.permCheck => k.known = "view"
  /\ "revoked" \notin k.leaks

(* An unanswered request is on the books, or was forgotten in video mode,  *)
(* and there will be changes when that ends.                               *)
RequestOnBooks(k) ==
  k.owed /\ ~k.requested => k.video \/ k.updates

(* Without the full frames of UDP mode, the old framebuffer is left alone. *)
BufferLeftAlone(k) ==
  TRUE \notin FullFrames => "blocked" \notin k.leaks

ConnOK(k) ==
  /\ k \in Connection
  /\ RightsKnown(k)
  /\ RequestOnBooks(k)
  /\ BufferLeftAlone(k)

(* A connection stays what it was or is closed.                            *)
SameOrClosing(k, n) == n.state = k.state \/ (n.state = "closing" /\ k.state # "none")

Pendings == {"stale", "all", "some", "none"}

(* A connection that is not there is consistent.                           *)
LEMMA NewConnection == ConnOK(NoConnection)
  BY DEF ConnOK, Connection, NoConnection, Perms, RightsKnown, RequestOnBooks,
         BufferLeftAlone

(* Closing a connection keeps it consistent.                               *)
LEMMA CloseOK ==
  ASSUME NEW k, ConnOK(k)
  PROVE  ConnOK(close(k)) /\ close(k).state = "closing"
  BY DEF ConnOK, Connection, Perms, RightsKnown, RequestOnBooks,
         BufferLeftAlone, close

(* The check of the permissions leaves the rights known.                   *)
LEMMA CheckedOK ==
  ASSUME NEW c \in Clients, NEW k, ConnOK(k), k.state = "normal",
         perms \in [Clients -> Perms]
  PROVE  LET ck == Checked(c, k)
         IN /\ ConnOK(ck)
            /\ ck.state \in {"normal", "closing"}
            /\ ck.state = "normal" /\ ck.view => ck.known = "view"
  <1> DEFINE b == [k EXCEPT !.buffered = FALSE]
  <1>1. /\ ConnOK(b) /\ b.state = "normal" /\ b.view = k.view
        /\ b.permCheck = k.permCheck /\ b.known = k.known
    BY DEF ConnOK, Connection, RightsKnown, RequestOnBooks, BufferLeftAlone
  <1> HIDE DEF b
  <1>2. CASE ~b.permCheck
    BY <1>1, <1>2 DEF Checked, CheckPerms, ConnOK, RightsKnown, b
  <1>3. CASE b.permCheck /\ perms[c] = "gone"
    <2>1. ConnOK(close([b EXCEPT !.permCheck = FALSE]))
          /\ close([b EXCEPT !.permCheck = FALSE]).state = "closing"
      BY <1>1 DEF ConnOK, Connection, RightsKnown, RequestOnBooks,
                  BufferLeftAlone, close
    <2>2. QED
      BY <2>1, <1>3 DEF Checked, CheckPerms, b
  <1>4. CASE b.permCheck /\ perms[c] # "gone"
    <2> DEFINE n == [b EXCEPT !.permCheck = FALSE, !.view = perms[c] = "view",
                              !.known = perms[c]]
    <2>1. /\ n \in Connection /\ n.state = "normal"
          /\ n.view = (perms[c] = "view") /\ n.known = perms[c]
          /\ n.leaks = b.leaks /\ n.video = b.video /\ n.owed = b.owed
          /\ n.requested = b.requested /\ n.updates = b.updates
      BY <1>1 DEF ConnOK, Connection
    <2>2. ConnOK(n) /\ (n.view => n.known = "view")
      BY <1>1, <2>1 DEF ConnOK, RightsKnown, RequestOnBooks, BufferLeftAlone
    <2>3. Checked(c, k) = n
      BY <1>4 DEF Checked, CheckPerms, b
    <2>4. QED
      BY <2>1, <2>2, <2>3
  <1>5. QED
    BY <1>2, <1>3, <1>4

(* A connection that may be shown the screen.                              *)
MayLook(k) == ConnOK(k) /\ k.state = "normal" /\ k.known = "view"

(* An update without framebuffer data reads no pixels.                     *)
LEMMA NoDataOK ==
  ASSUME NEW k, MayLook(k), NEW io \in IO
  PROVE  MayLook(writeNoDataUpdate(k, io))
  <1> DEFINE b == io.net # "all"
             n == [k EXCEPT !.requested = FALSE, !.owed = FALSE,
                            !.buffered = b, !.noData = FALSE]
  <1>1. k \in Connection /\ b \in BOOLEAN
    BY DEF MayLook, ConnOK
  <1>2. writeNoDataUpdate(k, io) \in {k, n}
    BY <1>1 DEF writeNoDataUpdate, Answered, Connection
  <1> HIDE DEF b
  <1>3. /\ n \in Connection
        /\ n.state = k.state /\ n.known = k.known /\ n.leaks = k.leaks
        /\ n.owed = FALSE /\ n.video = k.video
    BY <1>1 DEF Connection
  <1>4. MayLook(n)
    BY <1>3 DEF MayLook, ConnOK, RightsKnown, RequestOnBooks, BufferLeftAlone
  <1>5. QED
    BY <1>2, <1>4

(* Encoding an area reads the framebuffer only when it is not being        *)
(* replaced, or for a full frame of UDP mode.                              *)
LEMMA RectsOK ==
  ASSUME NEW k, MayLook(k), NEW io \in IO, NEW pending \in Pendings,
         HasData(k, pending, io)
  PROVE  MayLook(writeUpdateRects(k, pending, io))
  <1>1. TRUE \notin FullFrames => pending = "none"
    BY DEF HasData, IO
  <1>2. Leaks(k, pending) \subseteq k.leaks \cup {"blocked"}
    BY DEF Leaks, MayLook
  <1>3. pending = "none" => Leaks(k, pending) = k.leaks
    BY DEF Leaks, MayLook
  <1> DEFINE l == Leaks(k, pending)
             u == k.updates /\ pending # "none"
             y == io.enc # "exact" /\ (k.lossy \/ io.enc # "beside")
             v == k.video \/ io.enc = "video"
             b == io.net # "all"
             n == [k EXCEPT !.requested = FALSE, !.owed = FALSE, !.buffered = b,
                            !.updates = u, !.fake = FALSE,
                            !.lossy = y, !.lossless = TRUE,
                            !.video = v, !.leaks = l]
  <1>5. writeUpdateRects(k, pending, io) = n
    BY DEF writeUpdateRects, Answered, MayLook, ConnOK, Connection
  <1>6. l \in SUBSET {"blocked", "revoked"} /\ "revoked" \notin l
        /\ (TRUE \notin FullFrames => "blocked" \notin l)
    BY <1>1, <1>2, <1>3 DEF MayLook, ConnOK, Connection, RightsKnown,
                             BufferLeftAlone
  <1>8. u \in BOOLEAN /\ y \in BOOLEAN /\ v \in BOOLEAN /\ b \in BOOLEAN
    BY DEF MayLook, ConnOK, Connection
  <1> HIDE DEF l, u, y, v, b
  <1>9. /\ n \in Connection
        /\ n.state = k.state /\ n.known = k.known /\ n.leaks = l
        /\ n.owed = FALSE /\ n.video = v
    <2>1. k \in Connection /\ l \in SUBSET {"blocked", "revoked"}
      BY <1>6 DEF MayLook, ConnOK
    <2>2. n \in Connection
      BY <2>1, <1>8 DEF Connection
    <2>3. /\ n.state = k.state /\ n.known = k.known /\ n.leaks = l
          /\ n.owed = FALSE /\ n.video = v
      BY <2>1 DEF Connection
    <2>4. QED
      BY <2>2, <2>3
  <1>10. QED
    BY <1>5, <1>6, <1>9
       DEF MayLook, ConnOK, RightsKnown, RequestOnBooks, BufferLeftAlone

(* A lossless refresh never touches what is pending.                       *)
LEMMA RefreshOK ==
  ASSUME NEW k, MayLook(k), NEW io \in IO, NEW pending \in Pendings
  PROVE  MayLook(writeLosslessRefresh(k, pending, io))
  <1>1. CASE k.video
    BY <1>1 DEF MayLook, ConnOK, Connection, RightsKnown, RequestOnBooks,
                BufferLeftAlone, writeLosslessRefresh
  <1>2. CASE ~k.video
    <2> DEFINE d == RefreshDue(k, pending, io)
               l == IF d THEN Leaks(k, pending) ELSE k.leaks
               y == k.lossy /\ ~(d /\ io.refresh # "part")
               b == io.net # "all"
               n == [k EXCEPT !.requested = FALSE, !.owed = FALSE,
                              !.buffered = b, !.fake = FALSE, !.lossy = y,
                              !.leaks = l]
    <2>1. l = k.leaks
      BY DEF RefreshDue, Leaks, MayLook
    <2>2. writeLosslessRefresh(k, pending, io) = n
      BY <1>2 DEF writeLosslessRefresh, Answered, MayLook, ConnOK, Connection
    <2>3. y \in BOOLEAN /\ b \in BOOLEAN
      BY DEF MayLook, ConnOK, Connection
    <2> HIDE DEF d, l, y, b
    <2>4. /\ n \in Connection
          /\ n.state = k.state /\ n.known = k.known /\ n.leaks = k.leaks
          /\ n.owed = FALSE /\ n.video = k.video
      <3>1. k \in Connection
        BY DEF MayLook, ConnOK
      <3>2. l \in SUBSET {"blocked", "revoked"}
        BY <2>1, <3>1 DEF Connection
      <3>3. n \in Connection
        BY <2>3, <3>1, <3>2 DEF Connection
      <3>4. /\ n.state = k.state /\ n.known = k.known /\ n.leaks = k.leaks
            /\ n.owed = FALSE /\ n.video = k.video
        BY <2>1, <3>1 DEF Connection
      <3>5. QED
        BY <3>3, <3>4
    <2>5. QED
      BY <2>2, <2>4
         DEF MayLook, ConnOK, RightsKnown, RequestOnBooks, BufferLeftAlone
  <1>3. QED
    BY <1>1, <1>2

(* Whatever writeDataUpdate() decides.                                     *)
LEMMA DataOK ==
  ASSUME NEW k, MayLook(k), NEW io \in IO, NEW pending \in Pendings
  PROVE  MayLook(writeDataUpdate(k, pending, io))
  BY RectsOK, RefreshOK DEF writeDataUpdate

(* Whatever makes a client try to write, its connection stays consistent.  *)
LEMMA WriteOK ==
  ASSUME NEW c \in Clients, NEW k, ConnOK(k), NEW act, NEW io \in IO,
         NEW pending \in Pendings, perms \in [Clients -> Perms]
  PROVE  LET n == writeFramebufferUpdate(c, k, act, pending, io)
         IN ConnOK(n) /\ SameOrClosing(k, n)
  <1>1. CASE ~MayWrite(c, k, act) \/ isCongested(k, io)
    BY <1>1, CloseOK DEF writeFramebufferUpdate, SameOrClosing, MayWrite
  <1>2. CASE MayWrite(c, k, act) /\ io.net = "broken"
    BY <1>2, CloseOK DEF writeFramebufferUpdate, SameOrClosing, MayWrite
  <1>3. CASE MayWrite(c, k, act) /\ io.net # "broken" /\ ~isCongested(k, io)
    <2> DEFINE ck == Checked(c, k)
    <2>1. k.state = "normal"
      BY <1>3 DEF MayWrite
    <2>2. /\ ConnOK(ck) /\ ck.state \in {"normal", "closing"}
          /\ ck.state = "normal" /\ ck.view => ck.known = "view"
      BY <2>1, CheckedOK
    <2> HIDE DEF ck
    <2>3. CASE ck.state # "normal" \/ ~ck.view
      <3>1. writeFramebufferUpdate(c, k, act, pending, io) = ck
        BY <1>3, <2>3 DEF writeFramebufferUpdate, ck
      <3>2. QED
        BY <3>1, <2>1, <2>2 DEF SameOrClosing
    <2>4. CASE ck.state = "normal" /\ ck.view
      <3>1. writeFramebufferUpdate(c, k, act, pending, io)
              = writeDataUpdate(writeNoDataUpdate(ck, io), pending, io)
        BY <1>3, <2>4 DEF writeFramebufferUpdate, ck
      <3>2. MayLook(ck)
        BY <2>2, <2>4 DEF MayLook
      <3>3. MayLook(writeDataUpdate(writeNoDataUpdate(ck, io), pending, io))
        BY <3>2, NoDataOK, DataOK
      <3>4. QED
        BY <3>1, <3>3, <2>1 DEF MayLook, SameOrClosing
    <2>5. QED
      BY <2>2, <2>3, <2>4 DEF ConnOK, Connection
  <1>4. QED
    BY <1>1, <1>2, <1>3

-----------------------------------------------------------------------------
(* All the connections.                                                    *)

ConnsOK(f) == f \in [Clients -> Connection] /\ \A c \in Clients : ConnOK(f[c])

Keeps(f, g) == \A c \in Clients : SameOrClosing(f[c], g[c])

(* A chance to write for everyone.                                         *)
LEMMA EveryoneOK ==
  ASSUME NEW ks, ConnsOK(ks), NEW act, NEW pending \in Pendings,
         perms \in [Clients -> Perms], EveryoneWrites(ks, act, pending)
  PROVE  ConnsOK(conn') /\ Keeps(ks, conn')
  <1>1. PICK io \in [Clients -> IO] :
          conn' = [c \in Clients |->
                     writeFramebufferUpdate(c, ks[c], act, pending, io[c])]
    BY DEF EveryoneWrites
  <1>2. ASSUME NEW c \in Clients
        PROVE  ConnOK(conn'[c]) /\ SameOrClosing(ks[c], conn'[c])
    <2>1. ConnOK(ks[c]) /\ io[c] \in IO
      BY DEF ConnsOK
    <2>2. conn'[c] = writeFramebufferUpdate(c, ks[c], act, pending, io[c])
      BY <1>1
    <2>3. QED
      BY <2>1, <2>2, WriteOK
  <1>3. conn' \in [Clients -> Connection]
    BY <1>1, <1>2 DEF ConnOK
  <1>4. QED
    BY <1>2, <1>3 DEF ConnsOK, Keeps

(* The change of one connection.                                           *)
LEMMA OneOK ==
  ASSUME ConnsOK(conn), NEW c \in Clients, NEW k, ConnOK(k),
         conn' = [conn EXCEPT ![c] = k]
  PROVE  /\ ConnsOK(conn')
         /\ conn'[c] = k
         /\ \A d \in Clients \ {c} : conn'[d] = conn[d]
         /\ SameOrClosing(conn[c], k) => Keeps(conn, conn')
  <1>1. /\ conn \in [Clients -> Connection] /\ k \in Connection
        /\ \A d \in Clients : ConnOK(conn[d])
    BY DEF ConnsOK, ConnOK
  <1>2. /\ conn' \in [Clients -> Connection] /\ conn'[c] = k
        /\ \A d \in Clients \ {c} : conn'[d] = conn[d]
    BY <1>1
  <1>3. QED
    BY <1>1, <1>2 DEF ConnsOK, Keeps, SameOrClosing

(* A chance to write for one client.                                       *)
LEMMA OneWritesOK ==
  ASSUME ConnsOK(conn), NEW c \in Clients, NEW k, ConnOK(k), NEW act,
         NEW pending \in Pendings, NEW io \in IO, perms \in [Clients -> Perms],
         OneWrites(c, k, act, pending, io), k.state = conn[c].state
  PROVE  ConnsOK(conn') /\ Keeps(conn, conn')
  <1> DEFINE n == writeFramebufferUpdate(c, k, act, pending, io)
  <1>1. ConnOK(n) /\ SameOrClosing(k, n)
    BY WriteOK
  <1>2. conn' = [conn EXCEPT ![c] = n]
    BY DEF OneWrites
  <1> HIDE DEF n
  <1>3. SameOrClosing(conn[c], n)
    BY <1>1 DEF SameOrClosing
  <1>4. QED
    BY <1>1, <1>2, <1>3, OneOK

(* Changes of a tracker, of what the writer owes and of the buffer touch   *)
(* nothing the invariant is about.                                         *)
LEMMA MarksOK ==
  ASSUME NEW k, ConnOK(k), NEW v \in BOOLEAN
  PROVE  /\ ConnOK([k EXCEPT !.updates = TRUE])
         /\ ConnOK([k EXCEPT !.noData = v])
         /\ ConnOK([k EXCEPT !.fake = v])
         /\ ConnOK([k EXCEPT !.buffered = FALSE])
         /\ ConnOK([k EXCEPT !.lossless = FALSE])
         /\ ConnOK([k EXCEPT !.permCheck = TRUE])
         /\ ConnOK([k EXCEPT !.video = FALSE, !.updates = TRUE])
         /\ ConnOK([k EXCEPT !.updates = TRUE, !.noData = v])
  <1>1. k \in Connection
    BY DEF ConnOK
  <1>2. ASSUME NEW n \in Connection, n.state = k.state, n.view = k.view,
               n.permCheck = k.permCheck \/ n.permCheck, n.known = k.known,
               n.leaks = k.leaks, n.video = k.video \/ n.updates,
               n.updates = k.updates \/ n.updates, n.owed = k.owed,
               n.requested = k.requested
        PROVE  ConnOK(n)
    BY <1>2 DEF ConnOK, RightsKnown, RequestOnBooks, BufferLeftAlone
  <1>3. ConnOK([k EXCEPT !.updates = TRUE])
    BY <1>1, <1>2 DEF Connection
  <1>4. ConnOK([k EXCEPT !.noData = v])
    BY <1>1, <1>2 DEF Connection
  <1>5. ConnOK([k EXCEPT !.fake = v])
    BY <1>1, <1>2 DEF Connection
  <1>6. ConnOK([k EXCEPT !.buffered = FALSE])
    BY <1>1, <1>2 DEF Connection
  <1>7. ConnOK([k EXCEPT !.lossless = FALSE])
    BY <1>1, <1>2 DEF Connection
  <1>8. ConnOK([k EXCEPT !.permCheck = TRUE])
    BY <1>1, <1>2 DEF Connection
  <1>9. ConnOK([k EXCEPT !.video = FALSE, !.updates = TRUE])
    BY <1>1, <1>2 DEF Connection
  <1>10. ConnOK([k EXCEPT !.updates = TRUE, !.noData = v])
    BY <1>1, <1>2 DEF Connection
  <1>11. QED
    BY <1>3, <1>4, <1>5, <1>6, <1>7, <1>8, <1>9, <1>10

-----------------------------------------------------------------------------
(* The clock.                                                              *)

(* The steps of the X server, and what a client asks for besides pixels.   *)
Desktop ==
  \/ Draw \/ RefreshClients \/ PreScreenResize \/ PostScreenResize
  \/ RefreshScreenLayout \/ SetCursor \/ SetCursorPos

Request(c) == FramebufferUpdateRequest(c, FALSE) \/ SetDesktopSize(c)

(* A resize begins at top level or inside setDesktopSize(), never while    *)
(* other messages are processed: this is why authSuccess() may flush the   *)
(* comparer without asking whether updates are blocked.                    *)
ResizeInDesktop == blockCounter > 0 => active = NoClient \/ sizing

ClockInv ==
  /\ comparer \in BOOLEAN
  /\ frameTimer \in {"off", "half", "full"}
  /\ blockCounter \in 0..MaxBlock
  /\ desktopStarted \in BOOLEAN
  /\ active \in Clients \cup {NoClient}
  /\ sizing \in BOOLEAN
  /\ perms \in [Clients -> Perms]
  /\ permEvent \in BOOLEAN
  /\ asserted \in BOOLEAN
  /\ ResizeInDesktop
  /\ ClockRunning

(* Every step keeps the clock right.                                       *)
LEMMA ClockStep ==
  ASSUME ClockInv, [Next]_vars
  PROVE  ClockInv'
  <1> USE ConstantsOK DEF ClockInv, ClockRunning, ResizeInDesktop
  <1>1. CASE Draw \/ RefreshClients
    <2>1. add_changed /\ UNCHANGED <<blockCounter, desktopStarted, active,
                                    sizing, perms, permEvent, asserted>>
      BY <1>1 DEF Draw, RefreshClients, files
    <2>2. QED
      BY <2>1 DEF add_changed, startFrameClock
  <1>2. CASE PreScreenResize
    BY <1>2 DEF PreScreenResize, InDesktop, files
  <1>3. CASE PostScreenResize
    <2>1. /\ blockCounter > 0
          /\ UNCHANGED <<desktopStarted, active, sizing, perms, permEvent, asserted>>
          /\ \/ comparer' = TRUE /\ unblockUpdates(blockCounter - 1, TRUE)
             \/ comparer' = comparer /\ unblockUpdates(blockCounter - 1, comparer)
      BY <1>3 DEF PostScreenResize, files
    <2>2. blockCounter' = blockCounter - 1 /\ blockCounter' \in 0..MaxBlock
      BY <2>1 DEF unblockUpdates
    <2>3. frameTimer = "off"
      BY <2>1
    <2>4. /\ frameTimer' \in {"off", "half"}
          /\ frameTimer' = "half" => blockCounter' = 0 /\ desktopStarted
          /\ comparer' /\ blockCounter' = 0 /\ desktopStarted => frameTimer' = "half"
      BY <2>1, <2>2, <2>3 DEF unblockUpdates, startFrameClock
    <2>5. comparer' \in BOOLEAN
      BY <2>1
    <2>6. QED
      BY <2>1, <2>2, <2>4, <2>5
  <1>4. CASE RefreshScreenLayout \/ SetCursor \/ SetCursorPos
    BY <1>4 DEF RefreshScreenLayout, SetCursor, SetCursorPos, files
  <1>5. CASE FrameTimeout
    BY <1>5 DEF FrameTimeout, Idle, writeUpdate
  <1>6. ASSUME NEW c \in Clients, AddSocket(c) \/ ProcessMessages(c)
        PROVE  ClockInv'
    BY <1>6 DEF AddSocket, ProcessMessages, Idle, files
  <1>7. ASSUME NEW c \in Clients, AuthSuccess(c)
        PROVE  ClockInv'
    <2>1. /\ active = c /\ ~sizing
          /\ desktopStarted' = TRUE
          /\ UNCHANGED <<frameTimer, blockCounter, active, sizing, perms>>
          /\ permEvent' \in BOOLEAN
          /\ \/ /\ ~desktopStarted /\ comparer /\ comparer' = FALSE
                /\ asserted' = (asserted \/ blockCounter # 0 \/ ~TRUE)
             \/ ~(~desktopStarted /\ comparer) /\ UNCHANGED <<comparer, asserted>>
      BY <1>7 DEF AuthSuccess, Reading, writeUpdate
    <2>2. blockCounter = 0
      BY <2>1
    <2>3. ~asserted'
      BY <2>1, <2>2
    <2>4. comparer' \in BOOLEAN /\ asserted' \in BOOLEAN
      BY <2>1
    <2>5. comparer' => frameTimer' # "off"
      BY <2>1, <2>2
    <2>6. QED
      BY <2>1, <2>2, <2>3, <2>4, <2>5
  <1>8. ASSUME NEW c \in Clients,
               Request(c) \/ (Message(c) /\ ~AuthSuccess(c))
        PROVE  ClockInv'
    <2>1. UNCHANGED <<comparer, frameTimer, blockCounter, desktopStarted,
                      active, perms, permEvent, asserted>>
      BY <1>8 DEF Request, Message, ClientInit, FramebufferUpdateRequest,
           EnableContinuousUpdates, PointerEvent, SetDesktopSize, Received,
           files
    <2>2. sizing' \in {sizing, TRUE}
      BY <1>8 DEF Request, Message, ClientInit, FramebufferUpdateRequest,
           EnableContinuousUpdates, PointerEvent, SetDesktopSize, Received
    <2>3. QED
      BY <2>1, <2>2
  <1>9. ASSUME NEW c \in Clients,
               DesktopSizeSet(c) \/ EndMessages(c) \/ Close(c)
        PROVE  ClockInv'
    <2>1. /\ UNCHANGED <<comparer, frameTimer, blockCounter, desktopStarted,
                         perms, permEvent, asserted>>
          /\ \/ active' = active /\ sizing' = FALSE /\ blockCounter = 0
             \/ active' \in {active, NoClient} /\ sizing' = sizing /\ ~sizing
      BY <1>9 DEF DesktopSizeSet, EndMessages, Close, files
    <2>2. sizing' \in BOOLEAN /\ active' \in Clients \cup {NoClient}
      BY <2>1
    <2>3. ResizeInDesktop'
      BY <2>1
    <2>4. QED
      BY <2>1, <2>2, <2>3
  <1>10. ASSUME NEW c \in Clients, RemoveSocket(c)
         PROVE  ClockInv'
    BY <1>10 DEF RemoveSocket, Idle, files
  <1>11. ASSUME NEW c \in Clients,
                FlushSocket(c) \/ LosslessTimeout(c) \/ VideoTimeout(c)
         PROVE  ClockInv'
    BY <1>11 DEF FlushSocket, LosslessTimeout, VideoTimeout, Received, files
  <1>12. ASSUME NEW c \in Clients, ChangePerms(c)
         PROVE  ClockInv'
    BY <1>12 DEF ChangePerms, Perms
  <1>13. CASE UNCHANGED vars
    BY <1>13 DEF vars
  <1>14. QED
    BY <1>1, <1>2, <1>3, <1>4, <1>5, <1>6, <1>7, <1>8, <1>9, <1>10, <1>11,
       <1>12, <1>13 DEF Next, Unsettling, Routine, Request

-----------------------------------------------------------------------------
(* The steps of the connections.                                           *)

(* The pending region is one of the four kinds.                            *)
LEMMA PendingType == Pending \in Pendings
  BY DEF Pending, getPendingRegion, Pendings

(* What writeUpdate() gives every connection before it writes.             *)
LEMMA WriteUpdateOK ==
  ASSUME NEW ks, ConnsOK(ks), ClockInv, NEW started, NEW act,
         writeUpdate(ks, started, act)
  PROVE  ConnsOK(conn') /\ Keeps(ks, conn')
  <1> DEFINE Given(changed, c) ==
               IF ks[c].state = "none" THEN ks[c]
               ELSE [ks[c] EXCEPT !.updates = @ \/ changed,
                                  !.permCheck = @ \/ permEvent,
                                  !.known = IF permEvent THEN perms[c] ELSE @]
  <1>1. PICK changed \in BOOLEAN :
          EveryoneWrites([c \in Clients |-> Given(changed, c)], act, "none")
    BY DEF writeUpdate
  <1>2. ASSUME NEW c \in Clients
        PROVE  ConnOK(Given(changed, c)) /\ Given(changed, c).state = ks[c].state
    <2>1. ConnOK(ks[c]) /\ ks[c] \in Connection /\ perms[c] \in Perms
          /\ permEvent \in BOOLEAN
      BY DEF ConnsOK, ConnOK, ClockInv
    <2>2. CASE ks[c].state = "none"
      BY <2>1, <2>2
    <2>3. CASE ks[c].state # "none"
      <3> DEFINE k == ks[c]
                 u == k.updates \/ changed
                 p == k.permCheck \/ permEvent
                 w == IF permEvent THEN perms[c] ELSE k.known
                 n == [k EXCEPT !.updates = u, !.permCheck = p, !.known = w]
      <3>1. Given(changed, c) = n
        BY <2>1, <2>3 DEF Connection
      <3>2. /\ u \in BOOLEAN /\ p \in BOOLEAN /\ w \in Perms
            /\ ~p => ~k.permCheck /\ w = k.known
            /\ k.updates => u
        BY <2>1 DEF Connection
      <3>3. ConnOK(k) /\ k \in Connection
        BY <2>1
      <3> HIDE DEF u, p, w, k, Given
      <3>4. n \in Connection
        BY <3>2, <3>3 DEF Connection
      <3>5. /\ n.state = k.state /\ n.view = k.view /\ n.permCheck = p
            /\ n.known = w /\ n.leaks = k.leaks /\ n.video = k.video
            /\ n.owed = k.owed /\ n.requested = k.requested /\ n.updates = u
        BY <3>3 DEF Connection
      <3>6. ConnOK(n)
        BY <3>2, <3>3, <3>4, <3>5
           DEF ConnOK, RightsKnown, RequestOnBooks, BufferLeftAlone
      <3>7. QED
        BY <3>1, <3>5, <3>6 DEF k
    <2>4. QED
      BY <2>2, <2>3
  <1> HIDE DEF Given
  <1> DEFINE f == [c \in Clients |-> Given(changed, c)]
  <1>3. ConnsOK(f) /\ \A c \in Clients : f[c].state = ks[c].state
    BY <1>2 DEF ConnsOK, ConnOK
  <1>4. EveryoneWrites(f, act, "none")
    BY <1>1
  <1> HIDE DEF f
  <1>5. ConnsOK(conn') /\ Keeps(f, conn')
    BY <1>3, <1>4, EveryoneOK DEF ClockInv, Pendings
  <1>6. QED
    BY <1>3, <1>5 DEF Keeps, SameOrClosing

(* Connections of which each one was given something to send and then a    *)
(* chance to send it.                                                      *)
LEMMA EveryoneGivenOK ==
  ASSUME ClockInv, NEW f, NEW act, NEW pending \in Pendings,
         DOMAIN f = Clients, f = [c \in Clients |-> f[c]],
         \A c \in Clients : ConnOK(f[c]) /\ SameOrClosing(conn[c], f[c]),
         EveryoneWrites(f, act, pending)
  PROVE  ConnsOK(conn') /\ Keeps(conn, conn')
  <1>1. ConnsOK(f)
    BY DEF ConnsOK, ConnOK
  <1>2. ConnsOK(conn') /\ Keeps(f, conn')
    BY <1>1, EveryoneOK DEF ClockInv
  <1>3. QED
    BY <1>2 DEF Keeps, SameOrClosing

(* The steps that add no connection and authenticate none.                 *)
Ordinary(c) ==
  \/ Desktop \/ FrameTimeout
  \/ ProcessMessages(c) \/ DesktopSizeSet(c) \/ EndMessages(c) \/ Close(c)
  \/ (\E incremental \in BOOLEAN : FramebufferUpdateRequest(c, incremental))
  \/ (\E enable \in BOOLEAN : EnableContinuousUpdates(c, enable))
  \/ PointerEvent(c) \/ SetDesktopSize(c)
  \/ FlushSocket(c) \/ LosslessTimeout(c) \/ VideoTimeout(c) \/ ChangePerms(c)

(* A step that leaves the connections alone.                               *)
LEMMA SameOK ==
  ASSUME ConnsOK(conn), conn' = conn
  PROVE  ConnsOK(conn') /\ Keeps(conn, conn')
  BY DEF Keeps, SameOrClosing

(* A change of the layout, told to all but one.                            *)
LEMMA LayoutOK ==
  ASSUME ClockInv, ConnsOK(conn), NEW ks, ConnsOK(ks),
         \A c \in Clients : ks[c].state = conn[c].state,
         NEW except, LayoutChanged(ks, except)
  PROVE  ConnsOK(conn') /\ Keeps(conn, conn')
  <1> DEFINE f == [c \in Clients |->
                     IF ks[c].state = "normal" /\ c \in CanResize \ {except}
                     THEN [ks[c] EXCEPT !.noData = TRUE] ELSE ks[c]]
  <1>1. \A c \in Clients : ConnOK(ks[c])
    BY DEF ConnsOK
  <1>2. EveryoneWrites(f, active, Pending)
    BY DEF LayoutChanged
  <1>3. \A c \in Clients : ConnOK(f[c])
    BY <1>1, MarksOK
  <1>4. \A c \in Clients : f[c].state = ks[c].state
    BY <1>1 DEF ConnOK, Connection
  <1>5. f = [c \in Clients |-> f[c]] /\ DOMAIN f = Clients
    OBVIOUS
  <1> HIDE DEF f
  <1>6. \A c \in Clients : ConnOK(f[c]) /\ SameOrClosing(conn[c], f[c])
    BY <1>3, <1>4 DEF SameOrClosing
  <1>7. QED
    BY <1>2, <1>5, <1>6, EveryoneGivenOK, PendingType

(* The steps of the X server.                                              *)
LEMMA DesktopOK ==
  ASSUME ClockInv, ConnsOK(conn), Desktop
  PROVE  ConnsOK(conn') /\ Keeps(conn, conn')
  <1>1. \A c \in Clients : ConnOK(conn[c])
    BY DEF ConnsOK
  <1>2. CASE Draw \/ PreScreenResize
    BY <1>2, SameOK DEF Draw, PreScreenResize
  <1>3. CASE RefreshClients
    <2> DEFINE f == [c \in Clients |->
                       IF conn[c].state = "none" THEN conn[c]
                       ELSE [conn[c] EXCEPT !.updates = TRUE]]
    <2>1. conn' = f
      BY <1>3 DEF RefreshClients
    <2>2. \A c \in Clients : ConnOK(f[c])
      BY <1>1, MarksOK
    <2>3. \A c \in Clients : f[c].state = conn[c].state
      BY <1>1 DEF ConnOK, Connection
    <2>4. QED
      BY <2>1, <2>2, <2>3 DEF ConnsOK, ConnOK, Keeps, SameOrClosing
  <1>4. CASE PostScreenResize
    <2>1. CASE UNCHANGED conn
      BY <2>1, SameOK
    <2>2. ASSUME NEW resized \in BOOLEAN,
                 EveryoneWrites([c \in Clients |-> PixelBufferChanged(c, resized)],
                                active, "all")
          PROVE  ConnsOK(conn') /\ Keeps(conn, conn')
      <3> DEFINE f == [c \in Clients |-> PixelBufferChanged(c, resized)]
      <3>1. ASSUME NEW c \in Clients
            PROVE  ConnOK(f[c]) /\ SameOrClosing(conn[c], f[c])
        <4> DEFINE k == conn[c]
                   v == k.noData \/ (resized /\ k.state = "normal")
                   n == [k EXCEPT !.updates = TRUE, !.noData = v]
        <4>1. ConnOK(k) /\ k \in Connection /\ v \in BOOLEAN
          BY <1>1 DEF ConnOK, Connection
        <4>2. f[c] \in {k, close(k), n}
              /\ (f[c] = close(k) => k.state # "none" \/ f[c] \in {k, n})
          BY <4>1 DEF PixelBufferChanged, Connection
        <4> HIDE DEF f, k, v
        <4>3. ConnOK(n) /\ n.state = k.state
          BY <4>1, MarksOK DEF Connection
        <4>4. ConnOK(close(k)) /\ close(k).state = "closing"
          BY <4>1, CloseOK
        <4>5. QED
          BY <4>1, <4>2, <4>3, <4>4 DEF SameOrClosing, k
      <3>2. EveryoneWrites(f, active, "all")
        BY <2>2
      <3>3. f = [c \in Clients |-> f[c]] /\ DOMAIN f = Clients
        OBVIOUS
      <3> HIDE DEF f
      <3>4. QED
        BY <3>1, <3>2, <3>3, EveryoneGivenOK DEF Pendings
    <2>3. QED
      BY <1>4, <2>1, <2>2 DEF PostScreenResize
  <1>5. CASE RefreshScreenLayout
    BY <1>5, LayoutOK DEF RefreshScreenLayout
  <1>6. CASE SetCursor \/ SetCursorPos
    <2> DEFINE f == [c \in Clients |->
                       IF conn[c].state = "normal"
                       THEN [conn[c] EXCEPT !.fake = TRUE] ELSE conn[c]]
    <2>1. conn' = f \/ EveryoneWrites(f, active, Pending)
      BY <1>6 DEF SetCursor, SetCursorPos
    <2>2. \A c \in Clients : ConnOK(f[c])
      BY <1>1, MarksOK
    <2>3. \A c \in Clients : f[c].state = conn[c].state
      BY <1>1 DEF ConnOK, Connection
    <2>4. f = [c \in Clients |-> f[c]] /\ DOMAIN f = Clients
      OBVIOUS
    <2> HIDE DEF f
    <2>5. \A c \in Clients : ConnOK(f[c]) /\ SameOrClosing(conn[c], f[c])
      BY <2>2, <2>3 DEF SameOrClosing
    <2>6. CASE conn' = f
      BY <2>4, <2>5, <2>6 DEF ConnsOK, ConnOK, Keeps
    <2>7. CASE EveryoneWrites(f, active, Pending)
      BY <2>4, <2>5, <2>7, EveryoneGivenOK, PendingType
    <2>8. QED
      BY <2>1, <2>6, <2>7
  <1>7. QED
    BY <1>2, <1>3, <1>4, <1>5, <1>6 DEF Desktop

(* An ordinary step keeps connections consistent, or closes them.          *)
LEMMA OrdinaryOK ==
  ASSUME ClockInv, ConnsOK(conn), NEW c \in Clients, Ordinary(c)
  PROVE  ConnsOK(conn') /\ Keeps(conn, conn')
  <1> DEFINE k == conn[c]
  <1>1. ConnOK(k) /\ k \in Connection
    BY DEF ConnsOK, ConnOK
  <1>2. CASE Desktop
    BY <1>2, DesktopOK
  <1>3. CASE FrameTimeout
    <2>1. CASE UNCHANGED conn
      BY <2>1, SameOK
    <2>2. CASE writeUpdate(conn, desktopStarted, NoClient)
      BY <2>2, WriteUpdateOK
    <2>3. QED
      BY <1>3, <2>1, <2>2 DEF FrameTimeout
  <1>4. CASE ProcessMessages(c) \/ SetDesktopSize(c) \/ ChangePerms(c)
    BY <1>4, SameOK DEF ProcessMessages, SetDesktopSize, ChangePerms
  <1>5. CASE DesktopSizeSet(c)
    <2> DEFINE v == k.noData \/ (k.state = "normal" /\ c \in CanResize)
               n == [k EXCEPT !.noData = v]
               ks == [conn EXCEPT ![c] = n]
    <2>1. conn' = ks \/ LayoutChanged(ks, c)
      BY <1>1, <1>5 DEF DesktopSizeSet, ConnsOK, Connection
    <2>2. v \in BOOLEAN
      BY <1>1 DEF Connection
    <2> HIDE DEF v, k
    <2>3. ConnOK(n) /\ n.state = k.state /\ n \in Connection
      BY <1>1, <2>2, MarksOK DEF Connection
    <2> HIDE DEF n
    <2>4. ConnsOK(ks) /\ \A d \in Clients : ks[d].state = conn[d].state
      BY <2>3 DEF ConnsOK, ConnOK, k
    <2> HIDE DEF ks
    <2>5. CASE conn' = ks
      BY <2>4, <2>5 DEF Keeps, SameOrClosing
    <2>6. CASE LayoutChanged(ks, c)
      BY <2>4, <2>6, LayoutOK
    <2>7. QED
      BY <2>1, <2>5, <2>6
  <1>6. CASE EndMessages(c)
    <2>1. PICK io \in IO : OneWrites(c, conn[c], NoClient, Pending, io)
      BY <1>6 DEF EndMessages
    <2>2. QED
      BY <1>1, <2>1, OneWritesOK, PendingType DEF ClockInv
  <1>7. CASE Close(c)
    <2>1. conn' = [conn EXCEPT ![c] = close(k)] /\ k.state # "none"
      BY <1>7 DEF Close
    <2>2. ConnOK(close(k)) /\ close(k).state = "closing"
      BY <1>1, CloseOK
    <2>3. QED
      BY <2>1, <2>2, OneOK DEF SameOrClosing
  <1>8. ASSUME NEW i \in BOOLEAN, FramebufferUpdateRequest(c, i)
        PROVE  ConnsOK(conn') /\ Keeps(conn, conn')
    <2> DEFINE r == k.requested \/ ~i \/ ~k.continuous
               o == k.owed \/ ~i \/ ~k.continuous
               u == k.updates \/ ~i
               d == k.noData \/ (~i /\ c \in CanResize)
               n == [k EXCEPT !.requested = r, !.owed = o, !.updates = u,
                              !.noData = d]
    <2>1. conn' = [conn EXCEPT ![c] = n]
      BY <1>1, <1>8 DEF FramebufferUpdateRequest, Received, Connection
    <2>2. /\ r \in BOOLEAN /\ o \in BOOLEAN /\ u \in BOOLEAN /\ d \in BOOLEAN
          /\ k.updates => u
          /\ o /\ ~r => k.owed /\ ~k.requested
      BY <1>1 DEF Connection
    <2> HIDE DEF r, o, u, d
    <2>3. n \in Connection
      BY <1>1, <2>2 DEF Connection
    <2>4. /\ n.state = k.state /\ n.view = k.view /\ n.permCheck = k.permCheck
          /\ n.known = k.known /\ n.leaks = k.leaks /\ n.video = k.video
          /\ n.owed = o /\ n.requested = r /\ n.updates = u
      BY <1>1 DEF Connection
    <2>5. ConnOK(n)
      BY <1>1, <2>2, <2>3, <2>4
         DEF ConnOK, RightsKnown, RequestOnBooks, BufferLeftAlone
    <2> HIDE DEF n
    <2>6. QED
      BY <2>1, <2>4, <2>5, OneOK DEF SameOrClosing
  <1>9. ASSUME NEW e \in BOOLEAN, EnableContinuousUpdates(c, e)
        PROVE  ConnsOK(conn') /\ Keeps(conn, conn')
    <2> DEFINE r == k.requested /\ ~e
               o == k.owed /\ ~e
               n == [k EXCEPT !.continuous = e, !.requested = r, !.owed = o]
    <2>1. conn' = [conn EXCEPT ![c] = n]
      BY <1>1, <1>9 DEF EnableContinuousUpdates, Received, Connection
    <2>2. /\ r \in BOOLEAN /\ o \in BOOLEAN
          /\ o /\ ~r => k.owed /\ ~k.requested
      BY <1>1 DEF Connection
    <2> HIDE DEF r, o
    <2>3. n \in Connection
      BY <1>1, <2>2 DEF Connection
    <2>4. /\ n.state = k.state /\ n.view = k.view /\ n.permCheck = k.permCheck
          /\ n.known = k.known /\ n.leaks = k.leaks /\ n.video = k.video
          /\ n.owed = o /\ n.requested = r /\ n.updates = k.updates
      BY <1>1 DEF Connection
    <2>5. ConnOK(n)
      BY <1>1, <2>2, <2>3, <2>4
         DEF ConnOK, RightsKnown, RequestOnBooks, BufferLeftAlone
    <2> HIDE DEF n
    <2>6. QED
      BY <2>1, <2>4, <2>5, OneOK DEF SameOrClosing
  <1>10. CASE PointerEvent(c) \/ VideoTimeout(c)
    <2> DEFINE p == [k EXCEPT !.permCheck = TRUE]
               v == [k EXCEPT !.video = FALSE, !.updates = TRUE]
    <2>1. conn' = [conn EXCEPT ![c] = p] \/ conn' = [conn EXCEPT ![c] = v]
      BY <1>10 DEF PointerEvent, VideoTimeout, Received
    <2>2. ConnOK(p) /\ ConnOK(v) /\ p.state = k.state /\ v.state = k.state
      BY <1>1, MarksOK DEF Connection
    <2> HIDE DEF p, v
    <2>3. QED
      BY <2>1, <2>2, OneOK DEF SameOrClosing
  <1>11. CASE FlushSocket(c)
    <2> DEFINE b == [k EXCEPT !.buffered = FALSE]
    <2>1. PICK io \in IO :
            \/ conn' = [conn EXCEPT ![c] = close(k)]
            \/ OneWrites(c, b, NoClient, Pending, io)
      BY <1>11 DEF FlushSocket
    <2>2. k.state # "none"
      BY <1>11 DEF FlushSocket
    <2>3. ConnOK(close(k)) /\ close(k).state = "closing"
      BY <1>1, CloseOK
    <2>4. ConnOK(b) /\ b.state = conn[c].state
      BY <1>1, MarksOK DEF Connection
    <2>5. CASE conn' = [conn EXCEPT ![c] = close(k)]
      BY <2>2, <2>3, <2>5, OneOK DEF SameOrClosing
    <2>6. CASE OneWrites(c, b, NoClient, Pending, io)
      <3> HIDE DEF b
      <3>1. QED
        BY <2>4, <2>6, OneWritesOK, PendingType DEF ClockInv
    <2>7. QED
      BY <2>1, <2>5, <2>6
  <1>12. CASE LosslessTimeout(c)
    <2> DEFINE b == [k EXCEPT !.lossless = FALSE]
    <2>1. PICK io \in IO : OneWrites(c, b, NoClient, Pending, io)
      BY <1>12 DEF LosslessTimeout
    <2>2. ConnOK(b) /\ b.state = conn[c].state
      BY <1>1, MarksOK DEF Connection
    <2> HIDE DEF b
    <2>3. QED
      BY <2>1, <2>2, OneWritesOK, PendingType DEF ClockInv
  <1>13. QED
    BY <1>2, <1>3, <1>4, <1>5, <1>6, <1>7, <1>8, <1>9, <1>10, <1>11, <1>12
       DEF Ordinary

-----------------------------------------------------------------------------
(* The inductive invariant and the theorems.                               *)

IInv == ClockInv /\ ConnsOK(conn) /\ DesktopNeeded

(* The invariant holds at the start ...                                    *)
LEMMA InitOK ==
  ASSUME Init
  PROVE  IInv
  <1>1. ClockInv
    <2>1. perms \in [Clients -> Perms]
      BY ConstantsOK DEF Init, Perms
    <2>2. blockCounter \in 0..MaxBlock /\ ResizeInDesktop
      BY ConstantsOK DEF Init, ResizeInDesktop
    <2>3. ClockRunning
      BY DEF Init, ClockRunning
    <2>4. QED
      BY <2>1, <2>2, <2>3 DEF Init, ClockInv
  <1>2. conn = [c \in Clients |-> NoConnection] /\ ~desktopStarted
    BY DEF Init
  <1>3. ConnsOK(conn)
    BY <1>2, NewConnection DEF ConnsOK, ConnOK
  <1>4. DesktopNeeded
    BY <1>2 DEF DesktopNeeded, authenticated, NoConnection
  <1>5. QED
    BY <1>1, <1>3, <1>4 DEF IInv

(* A step that only keeps or closes connections leaves the desktop needed. *)
LEMMA KeepsNeeded ==
  ASSUME DesktopNeeded, Keeps(conn, conn'), desktopStarted' = desktopStarted
  PROVE  DesktopNeeded'
  BY DEF DesktopNeeded, Keeps, SameOrClosing, authenticated

(* ... and every step preserves it.                                        *)
LEMMA StepOK ==
  ASSUME IInv, [Next]_vars
  PROVE  IInv'
  <1>1. ClockInv /\ ConnsOK(conn) /\ DesktopNeeded
    BY DEF IInv
  <1>2. ClockInv'
    BY <1>1, ClockStep
  <1>3. ASSUME NEW c \in Clients, Ordinary(c)
        PROVE  ConnsOK(conn)' /\ DesktopNeeded'
    <2>1. ConnsOK(conn') /\ Keeps(conn, conn')
      BY <1>1, <1>3, OrdinaryOK
    <2>2. desktopStarted' = desktopStarted
      BY <1>3 DEF Ordinary, Desktop, Draw, RefreshClients, PreScreenResize,
           PostScreenResize, RefreshScreenLayout, SetCursor, SetCursorPos,
           FrameTimeout, ProcessMessages, DesktopSizeSet, EndMessages, Close,
           FramebufferUpdateRequest, EnableContinuousUpdates, PointerEvent,
           SetDesktopSize, FlushSocket, LosslessTimeout, VideoTimeout,
           ChangePerms, Received
    <2>3. QED
      BY <1>1, <2>1, <2>2, KeepsNeeded
  <1>4. ASSUME Clients = {}, Desktop \/ FrameTimeout
        PROVE  ConnsOK(conn)' /\ DesktopNeeded'
    <2>1. ConnsOK(conn')
      <3>1. CASE Desktop
        BY <1>1, <3>1, DesktopOK
      <3>2. CASE FrameTimeout
        BY <1>1, <3>2, SameOK, WriteUpdateOK DEF FrameTimeout
      <3>3. QED
        BY <1>4, <3>1, <3>2
    <2>2. desktopStarted' = desktopStarted
      BY <1>4 DEF Desktop, Draw, RefreshClients, PreScreenResize,
           PostScreenResize, RefreshScreenLayout, SetCursor, SetCursorPos,
           FrameTimeout
    <2>3. QED
      BY <1>1, <1>4, <2>1, <2>2 DEF DesktopNeeded
  <1>5. ASSUME NEW c \in Clients, AddSocket(c)
        PROVE  ConnsOK(conn)' /\ DesktopNeeded'
    <2> DEFINE v == perms[c] = "view"
               n == [NoConnection EXCEPT !.state = "hand", !.view = v,
                                         !.known = perms[c]]
    <2>1. conn' = [conn EXCEPT ![c] = n] /\ desktopStarted' = desktopStarted
          /\ conn[c].state = "none"
      BY <1>5 DEF AddSocket
    <2>2. perms[c] \in Perms /\ v \in BOOLEAN /\ (v => perms[c] = "view")
      BY <1>1 DEF ClockInv
    <2>3. NoConnection \in Connection
      BY NewConnection DEF ConnOK
    <2> HIDE DEF v
    <2>4. n \in Connection /\ n.state = "hand" /\ n.view = v
          /\ n.known = perms[c] /\ n.leaks = NoConnection.leaks
          /\ n.video = NoConnection.video /\ n.owed = NoConnection.owed
      BY <2>2, <2>3 DEF Connection
    <2>5. ConnOK(n)
      BY <2>2, <2>4 DEF ConnOK, RightsKnown, RequestOnBooks, BufferLeftAlone,
                        NoConnection
    <2> HIDE DEF n
    <2>6. ConnsOK(conn') /\ conn'[c] = n
          /\ \A d \in Clients \ {c} : conn'[d] = conn[d]
      BY <1>1, <2>1, <2>5, OneOK
    <2>7. QED
      BY <1>1, <2>1, <2>4, <2>6 DEF DesktopNeeded, authenticated
  <1>6. ASSUME NEW c \in Clients, AuthSuccess(c)
        PROVE  ConnsOK(conn)' /\ DesktopNeeded'
    <2> DEFINE k == conn[c]
               n == [k EXCEPT !.state = "init", !.updates = TRUE]
               ks == [conn EXCEPT ![c] = n]
    <2>1. k \in Connection /\ ConnOK(k) /\ k.state = "hand"
      BY <1>1, <1>6 DEF ConnsOK, ConnOK, AuthSuccess, Reading
    <2>2. /\ desktopStarted' = TRUE
          /\ conn' = ks \/ writeUpdate(ks, TRUE, c)
      <3>1. [conn EXCEPT ![c].state = "init", ![c].updates = TRUE] = ks
        BY <1>1 DEF ConnsOK
      <3>2. QED
        BY <1>6, <3>1 DEF AuthSuccess
    <2>3. n \in Connection /\ n.state = "init" /\ n.view = k.view
          /\ n.permCheck = k.permCheck /\ n.known = k.known
          /\ n.leaks = k.leaks /\ n.video = k.video /\ n.owed = k.owed
          /\ n.requested = k.requested /\ n.updates = (k.updates \/ n.updates)
      BY <2>1 DEF Connection
    <2>4. ConnOK(n)
      BY <2>1, <2>3 DEF ConnOK, RightsKnown, RequestOnBooks, BufferLeftAlone
    <2> HIDE DEF k, n
    <2>5. ConnsOK(ks) /\ ks[c].state = "init"
      BY <1>1, <2>3, <2>4 DEF ConnsOK
    <2> HIDE DEF ks
    <2>6. ConnsOK(conn') /\ Keeps(ks, conn')
      <3>1. CASE conn' = ks
        BY <2>5, <3>1 DEF Keeps, SameOrClosing
      <3>2. CASE writeUpdate(ks, TRUE, c)
        BY <1>1, <2>5, <3>2, WriteUpdateOK
      <3>3. QED
        BY <2>2, <3>1, <3>2
    <2>7. conn'[c].state # "none"
      BY <2>5, <2>6 DEF Keeps, SameOrClosing
    <2>8. QED
      BY <2>2, <2>6, <2>7 DEF DesktopNeeded
  <1>7. ASSUME NEW c \in Clients, ClientInit(c)
        PROVE  ConnsOK(conn)' /\ DesktopNeeded'
    <2> DEFINE k == conn[c]
               n == [k EXCEPT !.state = "normal"]
    <2>1. /\ k \in Connection /\ ConnOK(k) /\ k.state = "init"
          /\ conn' = [conn EXCEPT ![c] = n] /\ desktopStarted' = desktopStarted
      BY <1>1, <1>7 DEF ConnsOK, ConnOK, ClientInit, Reading, Received
    <2>2. n \in Connection /\ n.state = "normal" /\ n.view = k.view
          /\ n.permCheck = k.permCheck /\ n.known = k.known
          /\ n.leaks = k.leaks /\ n.video = k.video /\ n.owed = k.owed
          /\ n.requested = k.requested /\ n.updates = (k.updates \/ n.updates)
      BY <2>1 DEF Connection
    <2>3. ConnOK(n)
      BY <2>1, <2>2 DEF ConnOK, RightsKnown, RequestOnBooks, BufferLeftAlone
    <2> HIDE DEF n
    <2>4. ConnsOK(conn') /\ conn'[c] = n
      BY <1>1, <2>1, <2>3, OneOK
    <2>5. desktopStarted
      BY <1>1, <2>1 DEF DesktopNeeded, authenticated
    <2>6. QED
      BY <2>1, <2>2, <2>4, <2>5 DEF DesktopNeeded
  <1>8. ASSUME NEW c \in Clients, RemoveSocket(c)
        PROVE  ConnsOK(conn)' /\ DesktopNeeded'
    <2>1. /\ conn' = [conn EXCEPT ![c] = NoConnection]
          /\ desktopStarted' = (desktopStarted
                /\ ~(\A d \in Clients \ {c} : ~authenticated(conn[d])))
      BY <1>8 DEF RemoveSocket
    <2>2. ConnsOK(conn') /\ conn'[c] = NoConnection
          /\ \A d \in Clients \ {c} : conn'[d] = conn[d]
      BY <1>1, <2>1, NewConnection, OneOK
    <2>3. ~authenticated(NoConnection)
      BY DEF authenticated, NoConnection
    <2>4. (\E d \in Clients : authenticated(conn'[d])) => desktopStarted'
      BY <1>1, <2>1, <2>2, <2>3 DEF DesktopNeeded
    <2>5. (\A d \in Clients : conn'[d].state = "none") => ~desktopStarted'
      BY <2>1, <2>2 DEF authenticated
    <2>6. QED
      BY <2>2, <2>4, <2>5 DEF DesktopNeeded, authenticated
  <1>9. ASSUME UNCHANGED vars
        PROVE  ConnsOK(conn)' /\ DesktopNeeded'
    <2>1. conn' = conn /\ desktopStarted' = desktopStarted
      BY <1>9 DEF vars
    <2>2. QED
      BY <1>1, <2>1, SameOK, KeepsNeeded
  <1>10. ConnsOK(conn)' /\ DesktopNeeded'
    <2>1. CASE Desktop \/ FrameTimeout
      BY <1>3, <1>4, <2>1 DEF Ordinary
    <2>2. ASSUME NEW c \in Clients, Message(c) \/ Request(c)
          PROVE  ConnsOK(conn)' /\ DesktopNeeded'
      BY <1>3, <1>6, <1>7, <2>2 DEF Message, Request, Ordinary
    <2>3. ASSUME NEW c \in Clients,
                 \/ ProcessMessages(c) \/ DesktopSizeSet(c)
                 \/ EndMessages(c) \/ Close(c) \/ FlushSocket(c)
                 \/ LosslessTimeout(c) \/ VideoTimeout(c) \/ ChangePerms(c)
          PROVE  ConnsOK(conn)' /\ DesktopNeeded'
      BY <1>3, <2>3 DEF Ordinary
    <2>4. QED
      BY <1>5, <1>8, <1>9, <2>1, <2>2, <2>3
         DEF Next, Unsettling, Routine, Desktop, Request
  <1>11. QED
    BY <1>2, <1>10 DEF IInv

(* The invariant holds in every reachable state.                           *)
THEOREM Invariance == Spec => []IInv
  <1>1. Init => IInv
    BY InitOK
  <1>2. IInv /\ [Next]_vars => IInv'
    BY StepOK
  <1>3. QED
    BY <1>1, <1>2, PTL DEF Spec

(* Every variable keeps its type.                                          *)
THEOREM TypeCorrect == Spec => []TypeOK
  <1>1. IInv => TypeOK
    BY DEF IInv, ClockInv, ConnsOK, TypeOK
  <1>2. QED
    BY <1>1, Invariance, PTL

(* The frame clock of VNCServerST runs exactly when it must, and neither   *)
(* assertion of writeUpdate() fails, however drawing, nested resizes,      *)
(* logins and departures of any number of clients are interleaved.         *)
THEOREM ClockRuns == Spec => []ClockRunning
  <1>1. IInv => ClockRunning
    BY DEF IInv, ClockInv
  <1>2. QED
    BY <1>1, Invariance, PTL

(* startDesktop() and stopDesktop() follow the clients: the desktop runs   *)
(* while one is authenticated and not when all are gone.                   *)
THEOREM DesktopFollows == Spec => []DesktopNeeded
  <1>1. IInv => DesktopNeeded
    BY DEF IInv
  <1>2. QED
    BY <1>1, Invariance, PTL

(* No frame is encoded for a user whose rights the server has heard to be  *)
(* withdrawn: needsPermCheck outlives every return of                      *)
(* writeFramebufferUpdate() that comes before the check.                   *)
THEOREM RevocationObeyed == Spec => []RevocationHolds
  <1>1. IInv => RevocationHolds
    BY DEF IInv, ConnsOK, ConnOK, RightsKnown, RevocationHolds
  <1>2. QED
    BY <1>1, Invariance, PTL

(* A request is forgotten only in video mode, and never for nothing: when  *)
(* the mode has ended there are changes for the client, whatever congested *)
(* sockets, resizes and withdrawn requests came between.                   *)
THEOREM RequestsAnswered == Spec => []RequestsKept
  <1>1. IInv => RequestsKept
    BY DEF IInv, ConnsOK, ConnOK, RequestOnBooks, RequestsKept
  <1>2. QED
    BY <1>1, Invariance, PTL

(* Without the full frames of UDP mode, getPendingRegion() keeps every     *)
(* client away from a framebuffer that is being replaced.                  *)
THEOREM BlockingWorks ==
  ASSUME TRUE \notin FullFrames
  PROVE  Spec => []BlockedUntouched
  <1>1. IInv => BlockedUntouched
    BY DEF IInv, ConnsOK, ConnOK, BufferLeftAlone, BlockedUntouched
  <1>2. QED
    BY <1>1, Invariance, PTL
=============================================================================
