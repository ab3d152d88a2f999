-------------------------- MODULE UpdateFlowProofs --------------------------
(***************************************************************************)
(* Proofs about UpdateTracker and UpdateFlow, for every framebuffer size,  *)
(* every set of pixel contents and any number of connections.              *)
(***************************************************************************)
EXTENDS UpdateFlow, TLAPS

-----------------------------------------------------------------------------
(* Translations.                                                           *)

(* Moving a point there and back is the identity.                          *)
LEMMA ShiftInverse ==
  ASSUME NEW p \in Point, NEW d \in Point
  PROVE  /\ Shift(p, d) \in Point
         /\ Negate(d) \in Point
         /\ Shift(p, Negate(d)) \in Point
         /\ Shift(Shift(p, d), Negate(d)) = p
         /\ Shift(Shift(p, Negate(d)), d) = p
  BY DEF Point, Shift, Negate

(* Two displacements in a row: where the source of the source is.          *)
LEMMA ShiftTwice ==
  ASSUME NEW p \in Point, NEW d \in Point, NEW e \in Point
  PROVE  /\ Shift(d, e) \in Point
         /\ Shift(p, Negate(Shift(d, e))) = Shift(Shift(p, Negate(e)), Negate(d))
  BY DEF Point, Shift, Negate

(* Membership in a translated region.                                      *)
LEMMA TranslateMember ==
  ASSUME NEW region \in SUBSET Point, NEW d \in Point, NEW p \in Point
  PROVE  /\ p \in Translate(region, d) <=> Shift(p, Negate(d)) \in region
         /\ p \in Translate(region, Negate(d)) <=> Shift(p, d) \in region
  BY ShiftInverse DEF Translate

(* Translating a region gives a region.                                    *)
LEMMA TranslateType ==
  ASSUME NEW region \in SUBSET Point, NEW d \in Point
  PROVE  /\ Translate(region, d) \in SUBSET Point
         /\ Translate(region, Negate(d)) \in SUBSET Point
  BY ShiftInverse DEF Translate

(* The screen is a region.                                                 *)
LEMMA ScreenPoints == Screen \subseteq Point
  BY SizeAssumption DEF Screen, Point

-----------------------------------------------------------------------------
(* The trackers.                                                           *)

(* The shape of what the tracker operations return.                        *)
LEMMA AddChangedShape ==
  ASSUME NEW t \in Tracker, NEW region \in SUBSET Point
  PROVE  /\ AddChanged(t, region) \in Tracker
         /\ AddChanged(t, region).changed = t.changed \cup region
         /\ AddChanged(t, region).copied = t.copied
         /\ AddChanged(t, region).copy_delta = t.copy_delta
         /\ AddChanged(t, region).copy_enabled = t.copy_enabled
  BY DEF AddChanged, Tracker

(* Pixels that change inside a region are tracked once the region is       *)
(* reported by add_changed.                                                *)
LEMMA AddChangedTracks ==
  ASSUME NEW t \in Tracker, NEW region \in SUBSET Screen,
         NEW old, NEW new, NEW new2, Tracks(t, old, new),
         \A p \in Screen \ region : new2[p] = new[p]
  PROVE  Tracks(AddChanged(t, region), old, new2)
  <1>1. region \in SUBSET Point
    BY ScreenPoints
  <1>2. QED
    BY <1>1, AddChangedShape DEF Tracks

(* A copy within the screen is tracked by add_copied, whichever way it is  *)
(* combined with the copy and the changes already recorded.                *)
CopyStep(t, dest, delta, old, new, new2) ==
  /\ t \in Tracker /\ t.copied \subseteq Screen /\ t.changed \subseteq Screen
  /\ dest \subseteq Screen /\ delta \in Point
  /\ Tracks(t, old, new)
  /\ \A p \in dest : Shift(p, Negate(delta)) \in Screen
                     /\ new2[p] = new[Shift(p, Negate(delta))]
  /\ \A p \in Screen \ dest : new2[p] = new[p]

CopyKept(t, u, old, new2) ==
  /\ u \in Tracker /\ u.changed \subseteq Screen /\ u.copied \subseteq Screen
  /\ u.copy_enabled = t.copy_enabled
  /\ ~t.copy_enabled => u.copied = t.copied
  /\ Tracks(u, old, new2)

(* add_copied() keeps the tracker accurate: the copy is merged, or becomes *)
(* a change.                                                               *)
LEMMA AddCopiedTracks ==
  ASSUME NEW t, NEW dest, NEW delta, NEW old, NEW new, NEW new2,
         CopyStep(t, dest, delta, old, new, new2)
  PROVE  CopyKept(t, AddCopied(t, dest, delta), old, new2)
  <1> USE DEF CopyStep
  <1> DEFINE src == Translate(dest, Negate(delta))
             overlap == src \cap t.copied
             u == AddCopied(t, dest, delta)
  <1>1. dest \in SUBSET Point /\ src \in SUBSET Point /\ overlap \in SUBSET Point
    BY ScreenPoints, TranslateType
  <1>2. \A p \in Point : p \in dest <=> Shift(p, Negate(delta)) \in src
    <2>1. TAKE p \in Point
    <2>2. /\ Shift(p, Negate(delta)) \in Point
          /\ Shift(Shift(p, Negate(delta)), delta) = p
      BY ShiftInverse
    <2>3. Shift(p, Negate(delta)) \in Translate(dest, Negate(delta))
            <=> Shift(Shift(p, Negate(delta)), delta) \in dest
      BY <1>1, <2>2, TranslateMember
    <2>4. QED
      BY <2>2, <2>3
  <1>3. CASE u = AddChanged(t, dest)
    BY <1>1, <1>3, AddChangedTracks, AddChangedShape DEF CopyKept
  <1>4. CASE dest = {} /\ u = t
    BY <1>4 DEF Tracks, CopyKept
  <1>5. CASE t.copy_enabled /\ overlap # {} /\ u = ContinueCopy(t, dest, delta, overlap)
    <2> DEFINE moved == Translate(overlap, delta)
    <2>1. /\ u \in Tracker
          /\ u.changed = t.changed \cup Translate(overlap \cap t.changed, delta)
                           \cup ((dest \cup t.copied) \ moved)
          /\ u.copied = moved
          /\ u.copy_delta = Shift(t.copy_delta, delta)
          /\ u.copy_enabled = t.copy_enabled
      <3>1. /\ Translate(overlap \cap t.changed, delta) \in SUBSET Point
            /\ moved \in SUBSET Point
        BY <1>1, TranslateType
      <3>2. Shift(t.copy_delta, delta) \in Point
        BY ShiftInverse DEF Tracker
      <3>3. QED
        BY <1>1, <1>5, <3>1, <3>2 DEF ContinueCopy, Tracker
    <2>2. \A p \in Point : p \in moved <=> Shift(p, Negate(delta)) \in overlap
      BY <1>1, TranslateMember
    <2>3. moved \subseteq dest
      <3>1. moved \in SUBSET Point
        BY <1>1, TranslateType
      <3>2. QED
        BY <1>2, <2>2, <3>1
    <2>4. Translate(overlap \cap t.changed, delta) \subseteq moved
      BY DEF Translate
    <2>5. \A p \in Point : p \in Translate(overlap \cap t.changed, delta)
                             <=> Shift(p, Negate(delta)) \in overlap \cap t.changed
      BY <1>1, TranslateMember
    <2>6. ASSUME NEW p \in Screen \ u.changed
          PROVE  IF p \in u.copied
                 THEN Shift(p, Negate(u.copy_delta)) \in Screen
                      /\ new2[p] = old[Shift(p, Negate(u.copy_delta))]
                 ELSE new2[p] = old[p]
      <3> DEFINE q == Shift(p, Negate(delta))
      <3>1. p \in Point /\ t.copy_delta \in Point
        BY ScreenPoints DEF Tracker
      <3>2. CASE p \in moved
        <4>1. q \in overlap /\ q \notin t.changed /\ q \in Screen /\ new2[p] = new[q]
          BY <2>1, <2>2, <2>3, <2>5, <2>6, <3>1, <3>2
        <4>2. new[q] = old[Shift(q, Negate(t.copy_delta))]
              /\ Shift(q, Negate(t.copy_delta)) \in Screen
          BY <4>1 DEF Tracks
        <4>3. Shift(p, Negate(u.copy_delta)) = Shift(q, Negate(t.copy_delta))
          BY <2>1, <3>1, ShiftTwice
        <4>4. QED
          BY <2>1, <3>2, <4>1, <4>2, <4>3
      <3>3. CASE p \notin moved
        <4>1. p \notin dest /\ p \notin t.copied /\ p \notin t.changed
          BY <2>1, <3>3
        <4>2. QED
          BY <2>1, <3>3, <4>1 DEF Tracks
      <3>4. QED
        BY <3>2, <3>3
    <2>7. QED
      BY <1>5, <2>1, <2>3, <2>4, <2>6 DEF Tracks, CopyKept
  <1>6. CASE t.copy_enabled /\ overlap = {} /\ u = UseNewCopy(t, dest, delta)
    <2> DEFINE invalid == Translate(src \cap t.changed, delta)
    <2>1. /\ u \in Tracker
          /\ u.changed = t.changed \cup invalid \cup t.copied
          /\ u.copied = dest
          /\ u.copy_delta = delta
          /\ u.copy_enabled = t.copy_enabled
      <3>1. invalid \in SUBSET Point
        BY <1>1, TranslateType
      <3>2. QED
        BY <1>1, <1>6, <3>1 DEF UseNewCopy, Tracker
    <2>2. \A p \in Point : p \in invalid <=> Shift(p, Negate(delta)) \in src \cap t.changed
      BY <1>1, TranslateMember
    <2>3. invalid \subseteq dest
      <3>1. src \cap t.changed \in SUBSET Point
        BY <1>1
      <3>2. invalid \in SUBSET Point
        BY <3>1, TranslateType
      <3>3. QED
        BY <1>2, <2>2, <3>2
    <2>4. ASSUME NEW p \in Screen \ u.changed
          PROVE  IF p \in u.copied
                 THEN Shift(p, Negate(u.copy_delta)) \in Screen
                      /\ new2[p] = old[Shift(p, Negate(u.copy_delta))]
                 ELSE new2[p] = old[p]
      <3> DEFINE q == Shift(p, Negate(delta))
      <3>1. p \in Point
        BY ScreenPoints
      <3>2. CASE p \in dest
        <4>1. q \in src /\ q \notin t.changed /\ q \notin t.copied /\ q \in Screen
              /\ new2[p] = new[q]
          BY <1>2, <1>6, <2>1, <2>2, <2>4, <3>1, <3>2
        <4>2. QED
          BY <2>1, <3>2, <4>1 DEF Tracks
      <3>3. CASE p \notin dest
        BY <2>1, <2>4, <3>3 DEF Tracks
      <3>4. QED
        BY <3>2, <3>3
    <2>5. QED
      BY <1>6, <2>1, <2>3, <2>4 DEF Tracks, CopyKept
  <1>7. QED
    BY <1>3, <1>4, <1>5, <1>6 DEF AddCopied, KeepOldCopy

-----------------------------------------------------------------------------
(* The connections.                                                        *)

(* What a frame tells the connections: how the framebuffer follows from    *)
(* the previous frame.                                                     *)
FrameInfo(ui) ==
  /\ ui.changed \subseteq Screen /\ ui.copied \subseteq Screen
  /\ ui.copy_delta \in Point
  /\ \A p \in ui.copied : Shift(p, Negate(ui.copy_delta)) \in Screen
  /\ \A p \in Screen \ ui.changed :
       IF p \in ui.copied THEN fb[p] = frame[Shift(p, Negate(ui.copy_delta))]
                          ELSE fb[p] = frame[p]

(* Passing a frame's copies and then its changes on to a connection keeps  *)
(* its tracker accurate, now with respect to the new frame.                *)
LEMMA ReceiveOK ==
  ASSUME NEW c \in Clients, NEW k, ConnOK(c, k, frame), NEW ui, FrameInfo(ui)
  PROVE  ConnOK(c, Receive(k, ui, <<>>), fb)
  <1> DEFINE t == k.updates
             t2 == AddCopied(t, ui.copied, ui.copy_delta)
             t3 == AddChanged(t2, ui.changed)
             mid == [p \in Screen |-> IF p \in ui.copied
                                      THEN frame[Shift(p, Negate(ui.copy_delta))]
                                      ELSE frame[p]]
  <1>1. /\ t \in Tracker /\ t.copied \subseteq Screen /\ t.changed \subseteq Screen
        /\ Tracks(t, k.screen, frame)
    BY DEF ConnOK, Connection
  <1>2. /\ ui.copied \in SUBSET Screen /\ ui.changed \in SUBSET Screen
        /\ ui.copy_delta \in Point
    BY DEF FrameInfo
  <1>3. \A p \in ui.copied : Shift(p, Negate(ui.copy_delta)) \in Screen
                             /\ mid[p] = frame[Shift(p, Negate(ui.copy_delta))]
    BY DEF FrameInfo
  <1>4. \A p \in Screen \ ui.copied : mid[p] = frame[p]
    OBVIOUS
  <1>5. /\ t2 \in Tracker /\ t2.changed \subseteq Screen /\ t2.copied \subseteq Screen
        /\ t2.copy_enabled = t.copy_enabled
        /\ ~t.copy_enabled => t2.copied = t.copied
        /\ Tracks(t2, k.screen, mid)
    <2>1. CopyStep(t, ui.copied, ui.copy_delta, k.screen, frame, mid)
      BY <1>1, <1>2, <1>3, <1>4 DEF CopyStep
    <2>2. CopyKept(t, t2, k.screen, mid)
      BY <2>1, AddCopiedTracks
    <2>3. QED
      BY <2>2 DEF CopyKept
  <1>6. \A p \in Screen \ ui.changed : fb[p] = mid[p]
    BY DEF FrameInfo
  <1>7. Tracks(t3, k.screen, fb)
    <2> HIDE DEF t2, mid
    <2> QED BY <1>2, <1>5, <1>6, AddChangedTracks
  <1>8. /\ t3 \in Tracker /\ t3.changed \subseteq Screen /\ t3.copied = t2.copied
        /\ t3.copy_enabled = t2.copy_enabled
    <2>1. ui.changed \in SUBSET Point
      BY <1>2, ScreenPoints
    <2> HIDE DEF t2
    <2> QED BY <1>2, <1>5, <2>1, AddChangedShape
  <1>9. Receive(k, ui, <<>>) = [k EXCEPT !.updates = t3]
    BY DEF Receive, AddCopypassed, ConnOK, Connection
  <1> HIDE DEF t3, t2
  <1>10. QED
    BY <1>1, <1>5, <1>7, <1>8, <1>9 DEF ConnOK, Connection

(* Dropping what is both copied and changed from the copies loses nothing. *)
LEMMA NormaliseOK ==
  ASSUME NEW t \in Tracker, NEW old, NEW new, Tracks(t, old, new)
  PROVE  /\ Normalise(t) \in Tracker
         /\ Normalise(t).changed = t.changed
         /\ Normalise(t).copied = t.copied \ t.changed
         /\ Normalise(t).copy_delta = t.copy_delta
         /\ Normalise(t).copy_enabled = t.copy_enabled
         /\ Tracks(Normalise(t), old, new)
  <1>1. /\ Normalise(t) \in Tracker
        /\ Normalise(t).changed = t.changed
        /\ Normalise(t).copied = t.copied \ t.changed
        /\ Normalise(t).copy_delta = t.copy_delta
        /\ Normalise(t).copy_enabled = t.copy_enabled
    BY DEF Normalise, Tracker
  <1>2. QED
    BY <1>1 DEF Tracks

(* Switching CopyRect on or off for a connection.                          *)
LEMMA EnableCopyrectOK ==
  ASSUME NEW c \in Clients, NEW k, NEW img, ConnOK(c, k, img)
  PROVE  ConnOK(c, [k EXCEPT !.updates = EnableCopyrect(@, k.useCopyRect)], img)
  <1> DEFINE t == k.updates
             u == EnableCopyrect(t, k.useCopyRect)
  <1>1. t \in Tracker /\ k.useCopyRect \in BOOLEAN /\ Tracks(t, k.screen, img)
    BY DEF ConnOK, Connection
  <1>2. /\ u \in Tracker /\ u.copy_enabled = k.useCopyRect
        /\ \/ u.changed = t.changed \cup t.copied /\ u.copied = {}
           \/ u.changed = t.changed /\ u.copied = t.copied /\ u.copy_delta = t.copy_delta
              /\ (t.copy_enabled => k.useCopyRect)
    BY <1>1 DEF EnableCopyrect, Tracker
  <1>3. Tracks(u, k.screen, img)
    <2> HIDE DEF u
    <2> QED BY <1>1, <1>2 DEF Tracks
  <1> HIDE DEF u
  <1>4. u.changed \subseteq Screen /\ u.copied \subseteq Screen
    BY <1>2 DEF ConnOK
  <1>5. u.copied # {} => u.copy_enabled
    BY <1>1, <1>2 DEF ConnOK
  <1>6. u.copy_enabled => c \in CopyRectClients
    BY <1>2 DEF ConnOK
  <1> DEFINE k2 == [k EXCEPT !.updates = u]
  <1>7. /\ k2 \in Connection /\ k2.updates = u /\ k2.copypassed = k.copypassed
        /\ k2.useCopyRect = k.useCopyRect /\ k2.requested = k.requested
        /\ k2.cuRegion = k.cuRegion /\ k2.screen = k.screen
    BY <1>2 DEF ConnOK, Connection
  <1> HIDE DEF k2
  <1>8. ConnOK(c, k2, img)
    BY <1>2, <1>3, <1>4, <1>5, <1>6, <1>7 DEF ConnOK
  <1>9. QED
    BY <1>8 DEF k2, u

(* While changes are withheld nothing is forgotten: a refresh answers only *)
(* for pixels that the tracker does not mention.                           *)
LEMMA WithholdOK ==
  ASSUME NEW c \in Clients, NEW k, NEW img, ConnOK(c, k, img),
         NEW pending, NEW refresh
  PROVE  ConnOK(c, Withhold(k, pending, refresh), img)
  <1> DEFINE t == k.updates
             n == Normalise(t)
             ui == UpdateInfo(t, Asked(k))
             rest == Asked(k) \ (pending \cup ui.changed \cup ui.copied
                                   \cup PassedRegion(k.copypassed))
             u == IF refresh THEN Subtract(n, rest) ELSE n
  <1>1. t \in Tracker /\ Tracks(t, k.screen, img)
    BY DEF ConnOK, Connection
  <1>2. /\ n \in Tracker /\ n.changed = t.changed /\ n.copied = t.copied \ t.changed
        /\ n.copy_delta = t.copy_delta /\ n.copy_enabled = t.copy_enabled
        /\ Tracks(n, k.screen, img)
    BY <1>1, NormaliseOK
  <1>3. /\ ui.changed = t.changed \cap Asked(k)
        /\ ui.copied = (t.copied \ t.changed) \cap Asked(k)
    BY DEF UpdateInfo
  <1>4. Subtract(n, rest) = n
    <2>1. rest \cap n.changed = {} /\ rest \cap n.copied = {}
      BY <1>2, <1>3
    <2>2. n.changed \ rest = n.changed /\ n.copied \ rest = n.copied
      BY <2>1
    <2> HIDE DEF n, rest
    <2>3. QED
      BY <1>2, <2>2 DEF Subtract, Tracker
  <1>5. \/ Withhold(k, pending, refresh) = [k EXCEPT !.updates = n, !.requested = {}]
        \/ Withhold(k, pending, refresh) = [k EXCEPT !.updates = n]
    BY <1>4 DEF Withhold
  <1>6. k \in Connection /\ n.changed \subseteq Screen /\ n.copied \subseteq Screen
    BY <1>2 DEF ConnOK
  <1> HIDE DEF n
  <1>7. QED
    BY <1>1, <1>2, <1>5, <1>6 DEF ConnOK, Connection

(* An update gives the viewer every changed pixel that it asked for, and a *)
(* viewer that asks for the whole screen the whole framebuffer; what stays *)
(* in the tracker still describes the rest.                                *)
LEMMA SendOK ==
  ASSUME WholeRequests, fb \in Image,
         NEW c \in Clients, NEW k, ConnOK(c, k, fb), NEW refresh
  PROVE  ConnOK(c, Send(k, refresh), fb)
  <1> DEFINE t == k.updates
             n == Normalise(t)
             ui == UpdateInfo(t, Asked(k))
             u == Subtract(n, Asked(k))
             sent == ApplyUpdate(k.screen, ui, k.copypassed)
             none == ui.changed = {} /\ ui.copied = {}
             shown == IF none THEN k.screen ELSE sent
  <1>1. /\ t \in Tracker /\ t.changed \subseteq Screen /\ t.copied \subseteq Screen
        /\ Tracks(t, k.screen, fb)
        /\ k \in Connection /\ k.screen \in Image /\ k.copypassed = <<>>
        /\ Asked(k) \subseteq Screen
    BY DEF ConnOK, Connection, Asked
  <1>2. /\ n \in Tracker /\ n.changed = t.changed /\ n.copied = t.copied \ t.changed
        /\ n.copy_delta = t.copy_delta /\ n.copy_enabled = t.copy_enabled
        /\ Tracks(n, k.screen, fb)
    BY <1>1, NormaliseOK
  <1>3. /\ ui.changed = t.changed \cap Asked(k)
        /\ ui.copied = (t.copied \ t.changed) \cap Asked(k)
        /\ ui.copy_delta = t.copy_delta
    BY DEF UpdateInfo
  <1>4. t.copied # {} => Asked(k) \in {{}, Screen}
    BY DEF ConnOK, Asked, WholeRequests
  <1>5. \A p \in ui.copied : /\ Shift(p, Negate(t.copy_delta)) \in Screen
                             /\ fb[p] = k.screen[Shift(p, Negate(t.copy_delta))]
    BY <1>1, <1>3 DEF Tracks
  <1>6. sent = [p \in Screen |->
                  IF p \in ui.changed THEN fb[p]
                  ELSE IF p \in ui.copied THEN k.screen[Shift(p, Negate(t.copy_delta))]
                  ELSE k.screen[p]]
    <2> HIDE DEF ui
    <2> QED BY <1>1, <1>3 DEF ApplyUpdate, PaintFrom, CopyPasses, CopyPixels
  <1>7. sent \in Image
    <2> HIDE DEF ui, sent
    <2> QED BY <1>1, <1>5, <1>6 DEF Image
  <1>8. /\ u \in Tracker /\ u.changed = t.changed \ Asked(k)
        /\ u.copied = (t.copied \ t.changed) \ Asked(k)
        /\ u.copy_delta = t.copy_delta /\ u.copy_enabled = t.copy_enabled
    <2> HIDE DEF n
    <2> QED BY <1>2 DEF Subtract, Tracker
  <1>9. shown \in Image /\ Tracks(u, shown, fb)
    <2> HIDE DEF ui, sent, u
    <2>1. CASE none
      <3>1. shown = k.screen
        BY <2>1
      <3>2. t.changed \cap Asked(k) = {} /\ (t.copied \ t.changed) \cap Asked(k) = {}
        BY <2>1, <1>3
      <3>3. u.changed = t.changed /\ u.copied = t.copied \ t.changed
        BY <1>8, <3>2
      <3>4. QED
        BY <1>1, <1>8, <3>1, <3>3 DEF Tracks
    <2>2. CASE ~none
      <3>1. shown = sent
        BY <2>2
      <3>2. CASE t.copied = {}
        BY <1>1, <1>3, <1>6, <1>7, <1>8, <3>1, <3>2 DEF Tracks
      <3>3. CASE t.copied # {}
        <4>1. Asked(k) = Screen
          BY <1>3, <1>4, <2>2, <3>3
        <4>2. \A p \in Screen : sent[p] = fb[p]
          BY <1>1, <1>3, <1>5, <1>6, <4>1 DEF Tracks
        <4>3. u.copied = {} /\ u.changed = {}
          BY <1>1, <1>8, <4>1
        <4>4. QED
          BY <1>7, <3>1, <4>2, <4>3 DEF Tracks
      <3>4. QED
        BY <3>2, <3>3
    <2>3. QED
      BY <2>1, <2>2
  <1>10. \/ Send(k, refresh) = [k EXCEPT !.updates = n]
         \/ Send(k, refresh) = [k EXCEPT !.screen = shown, !.copypassed = <<>>,
                                         !.updates = u, !.requested = {}]
    BY <1>1 DEF Send
  <1>11. u.changed \subseteq Screen /\ u.copied \subseteq Screen
         /\ n.changed \subseteq Screen /\ n.copied \subseteq Screen
         /\ (u.copied # {} => t.copied # {}) /\ (n.copied # {} => t.copied # {})
    BY <1>1, <1>2, <1>8
  <1> HIDE DEF u, n, shown
  <1>12. CASE Send(k, refresh) = [k EXCEPT !.updates = n]
    BY <1>1, <1>2, <1>11, <1>12 DEF ConnOK, Connection
  <1>13. CASE Send(k, refresh) = [k EXCEPT !.screen = shown, !.copypassed = <<>>,
                                           !.updates = u, !.requested = {}]
    BY <1>1, <1>8, <1>9, <1>11, <1>13 DEF ConnOK, Connection
  <1>14. QED
    BY <1>10, <1>12, <1>13

(* writeFramebufferUpdate, whether it sends, withholds or has no request.  *)
LEMMA WriteOK ==
  ASSUME WholeRequests, fb \in Image,
         NEW c \in Clients, NEW k, NEW img, ConnOK(c, k, img),
         NEW pending, pending = {} => img = fb,
         NEW noData, NEW refresh
  PROVE  ConnOK(c, WriteFramebufferUpdate(k, pending, noData, refresh), img)
  <1> DEFINE k1 == IF noData THEN [k EXCEPT !.requested = {}] ELSE k
             e == [k1 EXCEPT !.updates = EnableCopyrect(@, k1.useCopyRect)]
  <1>1. ConnOK(c, k1, img)
    BY DEF ConnOK, Connection
  <1>2. ConnOK(c, e, img)
    <2> HIDE DEF k1
    <2> QED BY <1>1, EnableCopyrectOK
  <1>3. ConnOK(c, WriteDataUpdate(k1, pending, refresh), img)
    <2> HIDE DEF k1
    <2>1. WriteDataUpdate(k1, pending, refresh)
            = IF Asked(e) = {} THEN e
              ELSE IF pending # {} THEN Withhold(e, pending, refresh)
              ELSE Send(e, refresh)
      BY DEF WriteDataUpdate
    <2> HIDE DEF e
    <2>2. ConnOK(c, Withhold(e, pending, refresh), img)
      BY <1>2, WithholdOK
    <2>3. pending = {} => ConnOK(c, Send(e, refresh), img)
      BY <1>2, SendOK
    <2>4. QED
      BY <1>2, <2>1, <2>2, <2>3
  <1>4. QED
    BY <1>3 DEF WriteFramebufferUpdate

-----------------------------------------------------------------------------
(* The frames.                                                             *)

(* The information the comparer gives is accurate when it does not compare.*)
LEMMA FrameInfoUncompared ==
  ASSUME IInv
  PROVE  FrameInfo(UpdateInfo(comparer, Screen))
  <1> DEFINE ui == UpdateInfo(comparer, Screen)
  <1>1. /\ comparer \in Tracker
        /\ comparer.changed \subseteq Screen /\ comparer.copied \subseteq Screen
        /\ Tracks(comparer, frame, fb)
    BY DEF IInv, ComparerOK, ComparerTracks
  <1>2. /\ ui.changed = comparer.changed /\ ui.copied = comparer.copied \ comparer.changed
        /\ ui.copy_delta = comparer.copy_delta /\ comparer.copy_delta \in Point
    BY <1>1 DEF UpdateInfo, Tracker
  <1> HIDE DEF ui
  <1>3. FrameInfo(ui)
    BY <1>1, <1>2 DEF Tracks, FrameInfo
  <1>4. QED
    BY <1>3 DEF ui

(* It is accurate when it drops the pixels that oldFb already shows, and   *)
(* oldFb then holds the new frame.                                         *)
LEMMA FrameInfoCompared ==
  ASSUME IInv, ~ScrollDetection, ~firstCompare,
         NEW newChanged \in Narrowed(Normalise(comparer), <<>>)
  PROVE  LET t == Normalise(comparer)
         IN  /\ FrameInfo(UpdateInfo([t EXCEPT !.changed = newChanged], Screen))
             /\ PaintFrom(Moved(t), t.changed, fb) = fb
  <1> DEFINE t == Normalise(comparer)
             ui == UpdateInfo([t EXCEPT !.changed = newChanged], Screen)
  <1>1. /\ comparer \in Tracker
        /\ comparer.changed \subseteq Screen /\ comparer.copied \subseteq Screen
        /\ Tracks(comparer, frame, fb)
        /\ oldFb = frame /\ fb \in Image /\ frame \in Image
    BY DEF IInv, ComparerOK, ComparerTracks, OldFbAccurate
  <1>2. /\ t \in Tracker /\ t.changed = comparer.changed
        /\ t.copied = comparer.copied \ comparer.changed
        /\ t.copy_delta = comparer.copy_delta /\ t.copy_delta \in Point
        /\ Tracks(t, frame, fb)
    BY <1>1, NormaliseOK DEF Tracker
  <1> HIDE DEF t
  <1>3. \A p \in Screen : Moved(t)[p] = IF p \in t.copied
                                        THEN frame[Shift(p, Negate(t.copy_delta))]
                                        ELSE frame[p]
    BY <1>1 DEF Moved, CopyPixels
  <1>4. /\ newChanged \subseteq t.changed
        /\ \A p \in t.changed \ newChanged : Moved(t)[p] = fb[p]
    <2>1. PassedRegion(<<>>) = {}
      BY DEF PassedRegion
    <2>2. QED
      BY <2>1 DEF t, Narrowed, Compared, Different
  <1>5. /\ ui.changed = newChanged /\ ui.copied = t.copied /\ ui.copy_delta = t.copy_delta
    <2>1. newChanged \cap t.copied = {} /\ newChanged \cap Screen = newChanged
          /\ (t.copied \ newChanged) \cap Screen = t.copied
      BY <1>1, <1>2, <1>4
    <2>2. QED
      BY <1>2, <2>1 DEF UpdateInfo, Tracker
  <1> HIDE DEF ui
  <1>6. FrameInfo(ui)
    <2>1. /\ ui.changed \subseteq Screen /\ ui.copied \subseteq Screen /\ ui.copy_delta \in Point
      BY <1>1, <1>2, <1>4, <1>5
    <2>2. \A p \in ui.copied : Shift(p, Negate(ui.copy_delta)) \in Screen
      BY <1>1, <1>2, <1>5 DEF Tracks
    <2>3. ASSUME NEW p \in Screen \ ui.changed
          PROVE  IF p \in ui.copied THEN fb[p] = frame[Shift(p, Negate(ui.copy_delta))]
                                    ELSE fb[p] = frame[p]
      <3>1. CASE p \in t.changed
        BY <1>2, <1>3, <1>4, <1>5, <3>1
      <3>2. CASE p \notin t.changed
        BY <1>2, <1>5, <3>2 DEF Tracks
      <3>3. QED
        BY <3>1, <3>2
    <2>4. QED
      BY <2>1, <2>2, <2>3 DEF FrameInfo
  <1>7. PaintFrom(Moved(t), t.changed, fb) = fb
    <2>1. \A p \in Screen : PaintFrom(Moved(t), t.changed, fb)[p] = fb[p]
      BY <1>2, <1>3 DEF PaintFrom, Tracks
    <2>2. QED
      BY <1>1, <2>1 DEF PaintFrom, Image
  <1>8. QED
    BY <1>6, <1>7 DEF ui, t

(* Delivering accurate information makes the framebuffer the new frame.    *)
LEMMA DeliverOK ==
  ASSUME IInv, WholeRequests, NEW ui, FrameInfo(ui),
         NEW ready, NEW noData, NEW refresh,
         Deliver(ui, <<>>, ready, noData, refresh)
  PROVE  /\ fb' = fb /\ frame' = fb
         /\ ComparerOK'
         /\ conn' \in [Clients -> Connection]
         /\ \A c \in Clients : ConnOK(c, conn'[c], fb)
  <1>1. fb' = fb /\ frame' = fb /\ comparer' = Clear(comparer) /\ fb \in Image
    BY DEF Deliver, IInv
  <1>2. /\ comparer' \in Tracker /\ comparer'.changed = {} /\ comparer'.copied = {}
    BY <1>1 DEF IInv, ComparerOK, Clear, Tracker
  <1>3. ComparerOK'
    BY <1>1, <1>2 DEF ComparerOK, ComparerTracks, Tracks
  <1>4. ASSUME NEW c \in Clients
        PROVE  ConnOK(c, conn'[c], fb)
    <2> DEFINE k == Receive(conn[c], ui, <<>>)
    <2>1. ConnOK(c, conn[c], frame)
      BY DEF IInv
    <2>2. ConnOK(c, k, fb)
      BY <2>1, ReceiveOK
    <2>3. conn'[c] = IF c \in ready
                     THEN WriteFramebufferUpdate(k, {}, c \in noData, c \in refresh)
                     ELSE k
      BY DEF Deliver
    <2> HIDE DEF k
    <2>4. ConnOK(c, WriteFramebufferUpdate(k, {}, c \in noData, c \in refresh), fb)
      BY <1>1, <2>2, WriteOK
    <2>5. QED
      BY <2>2, <2>3, <2>4
  <1>5. conn' \in [Clients -> Connection]
    <2>1. conn' = [c \in Clients |-> conn'[c]]
      BY DEF Deliver
    <2>2. QED
      BY <1>4, <2>1 DEF ConnOK
  <1>6. QED
    BY <1>1, <1>3, <1>4, <1>5

-----------------------------------------------------------------------------
(* The invariant.                                                          *)

(* The screen has a pixel.                                                 *)
LEMMA ScreenNotEmpty == Screen # {}
  <1>1. <<0, 0>> \in Screen
    BY SizeAssumption DEF Screen
  <1>2. QED
    BY <1>1

(* With the whole screen marked as changed any tracker is accurate.        *)
LEMMA AllChangedOK ==
  ASSUME NEW t \in Tracker, NEW old, NEW new
  PROVE  /\ AddChanged(Clear(t), Screen) \in Tracker
         /\ AddChanged(Clear(t), Screen).changed = Screen
         /\ AddChanged(Clear(t), Screen).copied = {}
         /\ AddChanged(Clear(t), Screen).copy_enabled = t.copy_enabled
         /\ Tracks(AddChanged(Clear(t), Screen), old, new)
  <1> DEFINE u == AddChanged(Clear(t), Screen)
  <1>1. /\ u \in Tracker /\ u.changed = Screen /\ u.copied = {}
        /\ u.copy_enabled = t.copy_enabled
    BY ScreenPoints DEF AddChanged, Clear, Tracker
  <1> HIDE DEF u
  <1>2. Tracks(u, old, new)
    BY <1>1 DEF Tracks
  <1>3. QED
    BY <1>1, <1>2 DEF u

(* A tracker that holds the whole screen as changed is accurate.           *)
LEMMA NewTrackerOK ==
  ASSUME NEW use \in BOOLEAN, NEW old, NEW new
  PROVE  /\ AddChanged(NewTracker(use), Screen) \in Tracker
         /\ AddChanged(NewTracker(use), Screen).changed = Screen
         /\ AddChanged(NewTracker(use), Screen).copied = {}
         /\ AddChanged(NewTracker(use), Screen).copy_enabled = use
         /\ Tracks(AddChanged(NewTracker(use), Screen), old, new)
  <1> DEFINE u == AddChanged(NewTracker(use), Screen)
  <1>1. /\ u \in Tracker /\ u.changed = Screen /\ u.copied = {} /\ u.copy_enabled = use
    BY ScreenPoints DEF AddChanged, NewTracker, Tracker, Origin, Point
  <1> HIDE DEF u
  <1>2. Tracks(u, old, new)
    BY <1>1 DEF Tracks
  <1>3. QED
    BY <1>1, <1>2 DEF u

(* A new connection satisfies the invariant.                               *)
LEMMA NewConnectionOK ==
  ASSUME NEW c \in Clients, NEW img \in Image, NEW new
  PROVE  ConnOK(c, NewConnection(img), new)
  <1> DEFINE u == AddChanged(NewTracker(FALSE), Screen)
  <1>1. /\ u \in Tracker /\ u.changed = Screen /\ u.copied = {} /\ u.copy_enabled = FALSE
        /\ Tracks(u, img, new)
    BY NewTrackerOK
  <1>2. NewConnection(img) = [updates |-> u, copypassed |-> <<>>, requested |-> {},
                              cuRegion |-> {}, useCopyRect |-> FALSE, screen |-> img]
    BY DEF NewConnection
  <1> HIDE DEF u
  <1>3. QED
    BY <1>1, <1>2 DEF ConnOK, Connection

(* The invariant holds at the start.                                       *)
LEMMA InitOK == Init => IInv
  <1> SUFFICES ASSUME Init PROVE IInv
    OBVIOUS
  <1>1. /\ fb \in Image /\ oldFb = fb /\ frame = fb /\ firstCompare = TRUE
    BY DEF Init
  <1>2. ComparerOK
    BY NewTrackerOK DEF Init, ComparerOK, ComparerTracks
  <1>3. PICK img \in Image : conn = [c \in Clients |-> NewConnection(img)]
    BY DEF Init
  <1>4. \A c \in Clients : ConnOK(c, conn[c], frame)
    BY <1>3, NewConnectionOK
  <1>5. conn \in [Clients -> Connection]
    BY <1>3, <1>4 DEF ConnOK
  <1>6. QED
    BY <1>1, <1>2, <1>4, <1>5 DEF IInv, OldFbAccurate

(* Steps that leave the framebuffer alone and change one connection.       *)
LEMMA OneConnection ==
  ASSUME IInv, NEW c \in Clients, NEW k, ConnOK(c, k, frame),
         conn' = [conn EXCEPT ![c] = k],
         UNCHANGED <<fb, comparer, oldFb, firstCompare, frame>>
  PROVE  IInv'
  <1>1. k \in Connection
    BY DEF ConnOK
  <1>2. conn' \in [Clients -> Connection] /\ \A d \in Clients : ConnOK(d, conn'[d], frame)
    <2>1. conn \in [Clients -> Connection] /\ \A d \in Clients : ConnOK(d, conn[d], frame)
      BY DEF IInv
    <2>2. conn'[c] = k /\ \A d \in Clients \ {c} : conn'[d] = conn[d]
      BY <2>1
    <2>3. QED
      BY <1>1, <2>1, <2>2
  <1>3. ComparerOK' /\ OldFbAccurate'
    BY DEF IInv, ComparerOK, ComparerTracks, OldFbAccurate, Tracks
  <1>4. \A d \in Clients : ConnOK(d, conn[d], frame)'
    BY <1>2 DEF ConnOK, Tracks
  <1>5. QED
    BY <1>2, <1>3, <1>4 DEF IInv

(* A frame, handed to every connection, keeps the invariant.               *)
LEMMA WriteUpdateOK ==
  ASSUME IInv, WholeRequests, ~ScrollDetection, WriteUpdate
  PROVE  IInv'
  <1>1. PICK ready, noData, refresh :
          \/ FrameUncompared(ready, noData, refresh)
          \/ FrameFirstCompare(ready, noData, refresh)
          \/ \E passes \in ScrollCopies(Normalise(comparer)) :
               \E newChanged \in Narrowed(Normalise(comparer), passes) :
                 FrameCompared(passes, newChanged, ready, noData, refresh)
    BY DEF WriteUpdate
  <1> DEFINE Delivered == /\ fb' = fb /\ frame' = fb /\ ComparerOK'
                          /\ conn' \in [Clients -> Connection]
                          /\ \A c \in Clients : ConnOK(c, conn'[c], fb)
  <1>2. ASSUME Delivered, oldFb' \in Image, firstCompare' \in BOOLEAN, OldFbAccurate'
        PROVE  IInv'
    <2>1. \A c \in Clients : ConnOK(c, conn[c], frame)'
      BY <1>2 DEF ConnOK, Tracks
    <2>2. QED
      BY <1>2, <2>1 DEF IInv
  <1> HIDE DEF Delivered
  <1>3. CASE FrameUncompared(ready, noData, refresh)
    <2>1. Deliver(UpdateInfo(comparer, Screen), <<>>, ready, noData, refresh)
          /\ firstCompare' = TRUE /\ oldFb' = oldFb
      BY <1>3 DEF FrameUncompared
    <2>2. Delivered
      BY <2>1, FrameInfoUncompared, DeliverOK DEF Delivered
    <2>3. QED
      BY <1>2, <2>1, <2>2 DEF OldFbAccurate, IInv
  <1>4. CASE FrameFirstCompare(ready, noData, refresh)
    <2>1. Deliver(UpdateInfo(comparer, Screen), <<>>, ready, noData, refresh)
          /\ firstCompare' = FALSE /\ oldFb' = fb
      BY <1>4 DEF FrameFirstCompare
    <2>2. Delivered
      BY <2>1, FrameInfoUncompared, DeliverOK DEF Delivered
    <2>3. QED
      BY <1>2, <2>1, <2>2 DEF OldFbAccurate, IInv, Delivered
  <1>5. CASE \E passes \in ScrollCopies(Normalise(comparer)) :
               \E newChanged \in Narrowed(Normalise(comparer), passes) :
                 FrameCompared(passes, newChanged, ready, noData, refresh)
    <2>1. PICK passes \in ScrollCopies(Normalise(comparer)) :
            \E newChanged \in Narrowed(Normalise(comparer), passes) :
              FrameCompared(passes, newChanged, ready, noData, refresh)
      BY <1>5
    <2>2. passes = <<>>
      BY <2>1 DEF ScrollCopies
    <2>3. PICK newChanged \in Narrowed(Normalise(comparer), <<>>) :
            FrameCompared(<<>>, newChanged, ready, noData, refresh)
      BY <2>1, <2>2
    <2> DEFINE t == Normalise(comparer)
               ui == UpdateInfo([t EXCEPT !.changed = newChanged], Screen)
    <2>4. /\ Deliver(ui, <<>>, ready, noData, refresh)
          /\ oldFb' = PaintFrom(Moved(t), t.changed, fb)
          /\ ~firstCompare /\ firstCompare' = firstCompare
      BY <2>3 DEF FrameCompared
    <2>5. FrameInfo(ui) /\ PaintFrom(Moved(t), t.changed, fb) = fb
      BY <2>4, FrameInfoCompared
    <2> HIDE DEF ui, t
    <2>6. Delivered
      BY <2>4, <2>5, DeliverOK DEF Delivered
    <2>7. QED
      BY <1>2, <2>4, <2>5, <2>6 DEF OldFbAccurate, IInv, Delivered
  <1>6. QED
    BY <1>1, <1>3, <1>4, <1>5

(* The steps of the desktop keep the invariant.                            *)
LEMMA DesktopOK ==
  ASSUME IInv, WholeRequests, Desktop
  PROVE  IInv'
  <1>1. ASSUME NEW region \in (SUBSET Screen) \ {{}}, NEW source \in [region -> Pixel],
               Paint(region, source)
        PROVE  IInv'
    <2>1. /\ fb' = PaintFrom(fb, region, source) /\ comparer' = AddChanged(comparer, region)
          /\ oldFb' = oldFb /\ firstCompare' = firstCompare /\ conn' = conn /\ frame' = frame
      BY <1>1 DEF Paint
    <2>2. fb' \in Image /\ \A p \in Screen \ region : fb'[p] = fb[p]
      BY <2>1 DEF PaintFrom, Image, IInv
    <2>3. /\ comparer \in Tracker /\ comparer.changed \subseteq Screen
          /\ comparer.copied \subseteq Screen /\ Tracks(comparer, frame, fb)
      BY DEF IInv, ComparerOK, ComparerTracks
    <2>4. Tracks(comparer', frame, fb')
      BY <2>1, <2>2, <2>3, AddChangedTracks
    <2>5. /\ comparer' \in Tracker /\ comparer'.changed \subseteq Screen
          /\ comparer'.copied \subseteq Screen
      BY <2>1, <2>3, ScreenPoints, AddChangedShape
    <2>6. ComparerOK'
      BY <2>1, <2>4, <2>5 DEF ComparerOK, ComparerTracks
    <2>7. \A c \in Clients : ConnOK(c, conn[c], frame)'
      BY <2>1 DEF IInv, ConnOK, Tracks
    <2>8. QED
      BY <2>1, <2>2, <2>6, <2>7 DEF IInv, OldFbAccurate
  <1>2. ASSUME NEW dest \in (SUBSET Screen) \ {{}}, NEW delta \in Deltas,
               CopyArea(dest, delta)
        PROVE  IInv'
    <2>1. /\ Translate(dest, Negate(delta)) \subseteq Screen
          /\ fb' = CopyPixels(fb, dest, delta) /\ comparer' = AddCopied(comparer, dest, delta)
          /\ oldFb' = oldFb /\ firstCompare' = firstCompare /\ conn' = conn /\ frame' = frame
      BY <1>2 DEF CopyArea
    <2>2. delta \in Point
      BY ConfigAssumption
    <2>3. \A p \in dest : Shift(p, Negate(delta)) \in Screen
      BY <2>1 DEF Translate
    <2>4. /\ fb' \in Image
          /\ \A p \in dest : fb'[p] = fb[Shift(p, Negate(delta))]
          /\ \A p \in Screen \ dest : fb'[p] = fb[p]
      BY <2>1, <2>3 DEF CopyPixels, Image, IInv
    <2>5. CopyStep(comparer, dest, delta, frame, fb, fb')
      BY <2>2, <2>3, <2>4 DEF IInv, ComparerOK, ComparerTracks, CopyStep
    <2>6. CopyKept(comparer, comparer', frame, fb')
      BY <2>1, <2>5, AddCopiedTracks
    <2>7. ComparerOK'
      BY <2>1, <2>6 DEF CopyKept, ComparerOK, ComparerTracks
    <2>8. \A c \in Clients : ConnOK(c, conn[c], frame)'
      BY <2>1 DEF IInv, ConnOK, Tracks
    <2>9. QED
      BY <2>1, <2>4, <2>7, <2>8 DEF IInv, OldFbAccurate
  <1>3. ASSUME NEW img \in Image, NEW ready, NEW noData, NEW refresh,
               SetPixelBuffer(img, ready, noData, refresh)
        PROVE  IInv'
    <2>1. /\ fb' = img /\ comparer' = AddChanged(NewTracker(TRUE), Screen)
          /\ firstCompare' = TRUE /\ oldFb' = oldFb /\ frame' = frame
      BY <1>3 DEF SetPixelBuffer
    <2>2. ComparerOK'
      BY <2>1, NewTrackerOK DEF ComparerOK, ComparerTracks
    <2>3. ASSUME NEW c \in Clients
          PROVE  ConnOK(c, conn'[c], frame)
      <3> DEFINE u == AddChanged(Clear(conn[c].updates), Screen)
                 k == [conn[c] EXCEPT !.updates = u]
      <3>1. ConnOK(c, conn[c], frame) /\ conn[c].updates \in Tracker /\ fb \in Image
        BY DEF IInv, ConnOK, Connection
      <3>2. /\ u \in Tracker /\ u.changed = Screen /\ u.copied = {}
            /\ u.copy_enabled = conn[c].updates.copy_enabled
            /\ Tracks(u, conn[c].screen, frame)
        BY <3>1, AllChangedOK
      <3> HIDE DEF u
      <3>3. ConnOK(c, k, frame)
        BY <3>1, <3>2 DEF ConnOK, Connection
      <3>4. conn'[c] = IF c \in ready
                       THEN WriteFramebufferUpdate(k, Screen, c \in noData, c \in refresh)
                       ELSE k
        BY <1>3 DEF SetPixelBuffer, u
      <3> HIDE DEF k
      <3>5. ConnOK(c, WriteFramebufferUpdate(k, Screen, c \in noData, c \in refresh), frame)
        BY <3>1, <3>3, ScreenNotEmpty, WriteOK
      <3>6. QED
        BY <3>3, <3>4, <3>5
    <2>4. conn' \in [Clients -> Connection]
      <3>1. conn' = [c \in Clients |-> conn'[c]]
        BY <1>3 DEF SetPixelBuffer
      <3>2. QED
        BY <2>3, <3>1 DEF ConnOK
    <2>5. \A c \in Clients : ConnOK(c, conn[c], frame)'
      BY <2>1, <2>3 DEF ConnOK, Tracks
    <2>6. QED
      BY <2>1, <2>2, <2>4, <2>5 DEF IInv, OldFbAccurate
  <1>4. QED
    BY <1>1, <1>2, <1>3 DEF Desktop

(* The steps of the viewers keep the invariant.                            *)
LEMMA ViewerOK ==
  ASSUME IInv, WholeRequests, NEW c \in Clients, Viewer(c)
  PROVE  IInv'
  <1>0. ConnOK(c, conn[c], frame) /\ conn[c] \in Connection
    BY DEF IInv
  <1>1. ASSUME NEW img \in Image, Connect(c, img)
        PROVE  IInv'
    BY <1>1, NewConnectionOK, OneConnection DEF Connect
  <1>2. ASSUME NEW use \in BOOLEAN, SetEncodings(c, use)
        PROVE  IInv'
    <2> DEFINE k == [conn[c] EXCEPT !.useCopyRect = use]
    <2>1. ConnOK(c, k, frame)
      BY <1>0, <1>2 DEF ConnOK, Connection, SetEncodings
    <2>2. conn' = [conn EXCEPT ![c] = k]
      BY <1>2 DEF SetEncodings
    <2> HIDE DEF k
    <2>3. QED
      BY <1>2, <2>1, <2>2, OneConnection DEF SetEncodings
  <1>3. ASSUME NEW region \in Requests, NEW incremental \in BOOLEAN,
               FramebufferUpdateRequest(c, region, incremental)
        PROVE  IInv'
    <2> DEFINE asked == IF incremental /\ conn[c].cuRegion # {} THEN {} ELSE region
               lost == IF incremental THEN {} ELSE region
               u == AddChanged(conn[c].updates, lost)
               k == [conn[c] EXCEPT !.requested = @ \cup asked, !.updates = u]
    <2>1. region \in SUBSET Screen /\ asked \in SUBSET Screen /\ lost \in SUBSET Screen
          /\ (Requests = {Screen} => asked \in {{}, Screen})
      BY ConfigAssumption DEF WholeRequests
    <2>2. /\ u \in Tracker /\ u.changed = conn[c].updates.changed \cup lost
          /\ u.copied = conn[c].updates.copied
          /\ u.copy_enabled = conn[c].updates.copy_enabled
      BY <1>0, <2>1, ScreenPoints, AddChangedShape DEF Connection
    <2>3. Tracks(u, conn[c].screen, frame)
      BY <1>0, <2>1, AddChangedTracks DEF ConnOK, Connection
    <2>4. conn' = [conn EXCEPT ![c] = k]
      BY <1>3 DEF FramebufferUpdateRequest
    <2> HIDE DEF u, asked, lost
    <2>5. ConnOK(c, k, frame)
      <3> DEFINE r == conn[c].requested \cup asked
      <3>1. /\ k \in Connection /\ k.updates = u /\ k.copypassed = conn[c].copypassed
            /\ k.useCopyRect = conn[c].useCopyRect /\ k.requested = r
            /\ k.cuRegion = conn[c].cuRegion /\ k.screen = conn[c].screen
        BY <1>0, <2>1, <2>2 DEF Connection
      <3>2. Requests = {Screen} => r \in {{}, Screen}
        BY <1>0, <2>1 DEF ConnOK
      <3> HIDE DEF r, k
      <3>3. QED
        BY <1>0, <2>1, <2>2, <2>3, <3>1, <3>2 DEF ConnOK
    <2> HIDE DEF k
    <2>6. QED
      BY <1>3, <2>4, <2>5, OneConnection DEF FramebufferUpdateRequest
  <1>4. ASSUME NEW region \in Requests \cup {{}}, EnableContinuousUpdates(c, region)
        PROVE  IInv'
    <2> DEFINE k == [conn[c] EXCEPT !.cuRegion = region,
                                    !.requested = IF region = {} THEN @ ELSE {}]
    <2>1. region \in SUBSET Screen /\ (Requests = {Screen} => region \in {{}, Screen})
      BY ConfigAssumption DEF WholeRequests
    <2>2. ConnOK(c, k, frame)
      BY <1>0, <2>1 DEF ConnOK, Connection
    <2>3. conn' = [conn EXCEPT ![c] = k]
      BY <1>4 DEF EnableContinuousUpdates
    <2> HIDE DEF k
    <2>4. QED
      BY <1>4, <2>2, <2>3, OneConnection DEF EnableContinuousUpdates
  <1>5. ASSUME NEW blocked \in BOOLEAN, NEW noData \in BOOLEAN, NEW refresh \in BOOLEAN,
               Write(c, blocked, noData, refresh)
        PROVE  IInv'
    <2> DEFINE pending == IF blocked THEN Screen ELSE PendingRegion
               k == WriteFramebufferUpdate(conn[c], pending, noData, refresh)
    <2>1. /\ comparer \in Tracker /\ comparer.changed \subseteq Screen
          /\ comparer.copied \subseteq Screen /\ Tracks(comparer, frame, fb)
          /\ fb \in Image /\ frame \in Image
      BY DEF IInv, ComparerOK, ComparerTracks
    <2>2. pending = {} => frame = fb
      <3>1. pending = {} => comparer.changed = {} /\ comparer.copied = {}
        BY ScreenNotEmpty DEF PendingRegion
      <3>2. comparer.changed = {} /\ comparer.copied = {} =>
              \A p \in Screen : fb[p] = frame[p]
        BY <2>1 DEF Tracks
      <3>3. (\A p \in Screen : fb[p] = frame[p]) => frame = fb
        BY <2>1 DEF Image
      <3>4. QED
        BY <3>1, <3>2, <3>3
    <2> HIDE DEF pending
    <2>3. ConnOK(c, k, frame)
      BY <1>0, <2>1, <2>2, WriteOK
    <2>4. conn' = [conn EXCEPT ![c] = k]
          /\ UNCHANGED <<fb, oldFb, firstCompare, frame>>
          /\ comparer' \in {comparer, Normalise(comparer)}
      BY <1>5 DEF Write, pending
    <2> HIDE DEF k
    <2>5. ComparerOK'
      <3>1. /\ Normalise(comparer) \in Tracker /\ Normalise(comparer).changed = comparer.changed
            /\ Normalise(comparer).copied = comparer.copied \ comparer.changed
            /\ Tracks(Normalise(comparer), frame, fb)
        BY <2>1, NormaliseOK
      <3>2. /\ comparer' \in Tracker /\ comparer'.changed \subseteq Screen
            /\ comparer'.copied \subseteq Screen /\ Tracks(comparer', frame, fb)
        BY <2>1, <2>4, <3>1
      <3>3. QED
        BY <2>4, <3>2 DEF ComparerOK, ComparerTracks
    <2>6. conn \in [Clients -> Connection] /\ \A d \in Clients : ConnOK(d, conn[d], frame)
      BY DEF IInv
    <2>7. conn' \in [Clients -> Connection] /\ \A d \in Clients : ConnOK(d, conn'[d], frame)
      <3>1. k \in Connection /\ conn'[c] = k /\ \A d \in Clients \ {c} : conn'[d] = conn[d]
        BY <2>3, <2>4, <2>6 DEF ConnOK
      <3>2. QED
        BY <2>3, <2>4, <2>6, <3>1
    <2>8. \A d \in Clients : ConnOK(d, conn[d], frame)'
      BY <2>4, <2>7 DEF ConnOK, Tracks
    <2>9. QED
      BY <2>4, <2>5, <2>7, <2>8 DEF IInv, OldFbAccurate
  <1>6. QED
    BY <1>1, <1>2, <1>3, <1>4, <1>5 DEF Viewer

(* Every step of the server, of the X clients and of the viewers preserves *)
(* the invariant, for every configuration without scroll detection whose   *)
(* CopyRect viewers ask for whole screens.                                 *)
THEOREM Invariance ==
  ASSUME ~ScrollDetection, WholeRequests
  PROVE  Spec => []IInv
  <1>1. IInv /\ [Next]_vars => IInv'
    <2> SUFFICES ASSUME IInv, [Next]_vars PROVE IInv'
      OBVIOUS
    <2>1. CASE UNCHANGED vars
      <3>1. ComparerOK' /\ OldFbAccurate'
        BY <2>1 DEF vars, IInv, ComparerOK, ComparerTracks, OldFbAccurate, Tracks
      <3>2. \A c \in Clients : ConnOK(c, conn[c], frame)'
        BY <2>1 DEF vars, IInv, ConnOK, Tracks
      <3>3. QED
        BY <2>1, <3>1, <3>2 DEF vars, IInv
    <2>2. QED
      BY <2>1, DesktopOK, WriteUpdateOK, ViewerOK DEF Next
  <1>2. QED
    BY <1>1, InitOK, PTL DEF Spec

(* No change reported by the X server is ever lost on the way to a viewer: *)
(* one that is owed nothing shows the framebuffer pixel for pixel.         *)
THEOREM ViewersInSync ==
  ASSUME ~ScrollDetection, WholeRequests
  PROVE  Spec => []InSync
  <1>1. IInv => InSync
    <2> SUFFICES ASSUME IInv, NEW c \in Clients, NothingPending(c)
                 PROVE  conn[c].screen = fb
      BY DEF InSync
    <2>1. /\ ConnOK(c, conn[c], frame) /\ conn[c].screen \in Image
          /\ fb \in Image /\ frame \in Image /\ Tracks(comparer, frame, fb)
      BY DEF IInv, ConnOK, Connection, ComparerOK, ComparerTracks
    <2>2. \A p \in Screen : fb[p] = frame[p] /\ frame[p] = conn[c].screen[p]
      BY <2>1 DEF NothingPending, IsEmpty, Tracks, ConnOK
    <2>3. QED
      BY <2>1, <2>2 DEF Image
  <1>2. QED
    BY <1>1, Invariance, PTL

(* The type invariant, the accuracy of the comparer's copy of the          *)
(* framebuffer and of the trackers, under the same assumptions.            *)
THEOREM TrackersAccurate ==
  ASSUME ~ScrollDetection, WholeRequests
  PROVE  Spec => []TrackersExact
  <1>1. IInv => TrackersExact
    BY DEF IInv, ConnOK, ComparerOK, TypeOK, ConnectionsTrack, TrackersExact
  <1>2. QED
    BY <1>1, Invariance, PTL

(* Every copy a viewer is told to make finds the pixels of the last frame  *)
(* at its source, under the same assumptions.                              *)
THEOREM CopiesAccurate ==
  ASSUME ~ScrollDetection, WholeRequests
  PROVE  Spec => []CopyRectsAccurate
  <1>1. IInv => CopyRectsAccurate
    <2> SUFFICES ASSUME IInv, NEW c \in Clients
                 PROVE  LET ui == UpdateInfo(conn[c].updates, Screen)
                            passes == conn[c].copypassed
                            img == CopyPasses(CopyPixels(conn[c].screen, ui.copied, ui.copy_delta), passes)
                        IN  \A p \in (ui.copied \cup PassedRegion(passes)) \ ui.changed :
                              img[p] = frame[p]
      BY DEF CopyRectsAccurate
    <2> DEFINE t == conn[c].updates
               ui == UpdateInfo(t, Screen)
               img == CopyPixels(conn[c].screen, ui.copied, ui.copy_delta)
    <2>1. /\ conn[c].copypassed = <<>> /\ t.changed \subseteq Screen /\ t.copied \subseteq Screen
          /\ Tracks(t, conn[c].screen, frame)
      BY DEF IInv, ConnOK
    <2>2. ui.changed = t.changed /\ ui.copied = t.copied \ t.changed /\ ui.copy_delta = t.copy_delta
      BY <2>1 DEF UpdateInfo
    <2>3. CopyPasses(img, conn[c].copypassed) = img /\ PassedRegion(conn[c].copypassed) = {}
      BY <2>1 DEF CopyPasses, PassedRegion
    <2>4. \A p \in ui.copied : img[p] = frame[p]
      <3> HIDE DEF ui
      <3> QED BY <2>1, <2>2 DEF CopyPixels, Tracks
    <2> HIDE DEF img, ui
    <2>5. QED
      BY <2>3, <2>4 DEF img, ui
  <1>2. QED
    BY <1>1, Invariance, PTL

-----------------------------------------------------------------------------
(* What an update leaves on a viewer's screen.                             *)

(* Writing an update touches the screen only when nothing is pending, and  *)
(* then nothing is left to be sent to a viewer that asked for everything.  *)
LEMMA WriteWhole ==
  ASSUME Requests = {Screen}, NEW c \in Clients, NEW k, NEW img, ConnOK(c, k, img),
         NEW pending, NEW noData, NEW refresh,
         WriteFramebufferUpdate(k, pending, noData, refresh).screen # k.screen
  PROVE  /\ pending = {}
         /\ WriteFramebufferUpdate(k, pending, noData, refresh).updates.changed = {}
         /\ WriteFramebufferUpdate(k, pending, noData, refresh).updates.copied = {}
  <1> DEFINE k1 == IF noData THEN [k EXCEPT !.requested = {}] ELSE k
             e == [k1 EXCEPT !.updates = EnableCopyrect(@, k1.useCopyRect)]
             w == WriteFramebufferUpdate(k, pending, noData, refresh)
  <1>1. ConnOK(c, k1, img) /\ k1.screen = k.screen
    BY DEF ConnOK, Connection
  <1>2. ConnOK(c, e, img) /\ e.screen = k.screen
    <2>1. k1 \in Connection
      BY <1>1 DEF ConnOK
    <2> HIDE DEF k1
    <2> QED BY <1>1, <2>1, EnableCopyrectOK DEF Connection
  <1>3. w = IF Asked(e) = {} THEN e
            ELSE IF pending # {} THEN Withhold(e, pending, refresh)
            ELSE Send(e, refresh)
    BY DEF WriteFramebufferUpdate, WriteDataUpdate
  <1> HIDE DEF e, w
  <1>4. /\ e \in Connection /\ e.updates \in Tracker /\ Asked(e) \in {{}, Screen}
        /\ e.updates.changed \subseteq Screen /\ e.updates.copied \subseteq Screen
    BY <1>2 DEF ConnOK, Connection, Asked
  <1>5. Withhold(e, pending, refresh).screen = e.screen
    BY <1>4 DEF Withhold, Connection
  <1>6. Asked(e) = Screen /\ pending = {} /\ w = Send(e, refresh)
    BY <1>2, <1>3, <1>4, <1>5 DEF w
  <1>7. w.screen = e.screen \/ w.updates = Subtract(Normalise(e.updates), Asked(e))
    BY <1>4, <1>6 DEF Send, Connection
  <1>8. w.updates = Subtract(Normalise(e.updates), Screen)
    BY <1>2, <1>6, <1>7 DEF w
  <1>9. w.updates.changed = {} /\ w.updates.copied = {}
    <2>1. /\ Normalise(e.updates) \in Tracker /\ Normalise(e.updates).changed = e.updates.changed
          /\ Normalise(e.updates).copied = e.updates.copied \ e.updates.changed
      BY <1>4 DEF Normalise, Tracker
    <2> QED BY <1>4, <1>8, <2>1 DEF Subtract, Tracker
  <1>10. QED
    BY <1>6, <1>9 DEF w

(* So the screen is the framebuffer.                                       *)
LEMMA WriteShows ==
  ASSUME Requests = {Screen}, fb \in Image, NEW c \in Clients, NEW k, NEW img, ConnOK(c, k, img),
         NEW pending, pending = {} => img = fb, NEW noData, NEW refresh,
         WriteFramebufferUpdate(k, pending, noData, refresh).screen # k.screen
  PROVE  WriteFramebufferUpdate(k, pending, noData, refresh).screen = fb
  <1> DEFINE w == WriteFramebufferUpdate(k, pending, noData, refresh)
  <1>1. pending = {} /\ w.updates.changed = {} /\ w.updates.copied = {}
    BY WriteWhole
  <1>2. ConnOK(c, w, fb)
    BY <1>1, WriteOK DEF WholeRequests
  <1> HIDE DEF w
  <1>3. w.screen \in Image /\ \A p \in Screen : fb[p] = w.screen[p]
    BY <1>1, <1>2 DEF ConnOK, Connection, Tracks
  <1>4. QED
    BY <1>3 DEF w, Image

(* Receiving a frame's changes does not touch the screen.                  *)
LEMMA ReceiveScreen ==
  ASSUME NEW k \in Connection, NEW ui, NEW passes
  PROVE  Receive(k, ui, passes).screen = k.screen
  BY DEF Receive, AddCopypassed, Connection

LEMMA DeliverShows ==
  ASSUME IInv, Requests = {Screen}, NEW ui, FrameInfo(ui), NEW ready, NEW noData, NEW refresh,
         Deliver(ui, <<>>, ready, noData, refresh), NEW c \in Clients,
         conn'[c].screen # conn[c].screen
  PROVE  conn'[c].screen = fb'
  <1> DEFINE k == Receive(conn[c], ui, <<>>)
  <1>1. ConnOK(c, k, fb) /\ k.screen = conn[c].screen /\ fb \in Image
    BY ReceiveOK, ReceiveScreen DEF IInv
  <1>2. fb' = fb /\ conn'[c] = IF c \in ready
                               THEN WriteFramebufferUpdate(k, {}, c \in noData, c \in refresh)
                               ELSE k
    BY DEF Deliver
  <1> HIDE DEF k
  <1>3. QED
    BY <1>1, <1>2, WriteShows

(* A viewer's screen never shows a mixture of two frames.                  *)
THEOREM FramesWhole ==
  ASSUME ~ScrollDetection, Requests = {Screen}
  PROVE  Spec => WholeFrames
  <1>0. WholeRequests
    BY DEF WholeRequests
  <1>1. ASSUME IInv, [Next]_vars
        PROVE  [\A c \in Clients : conn'[c].screen # conn[c].screen =>
                  conn'[c].screen = fb' \/ conn'[c] = NewConnection(conn'[c].screen)]_vars
    <2> SUFFICES ASSUME Next, NEW c \in Clients, conn'[c].screen # conn[c].screen
                 PROVE  conn'[c].screen = fb' \/ conn'[c] = NewConnection(conn'[c].screen)
      BY <1>1 DEF vars
    <2>0. conn \in [Clients -> Connection] /\ fb \in Image /\ ConnOK(c, conn[c], frame)
      BY <1>1 DEF IInv
    <2>1. CASE WriteUpdate
      <3>1. PICK ready, noData, refresh :
              \/ FrameUncompared(ready, noData, refresh)
              \/ FrameFirstCompare(ready, noData, refresh)
              \/ \E passes \in ScrollCopies(Normalise(comparer)) :
                   \E newChanged \in Narrowed(Normalise(comparer), passes) :
                     FrameCompared(passes, newChanged, ready, noData, refresh)
        BY <2>1 DEF WriteUpdate
      <3>2. CASE FrameUncompared(ready, noData, refresh) \/ FrameFirstCompare(ready, noData, refresh)
        <4>1. Deliver(UpdateInfo(comparer, Screen), <<>>, ready, noData, refresh)
          BY <3>2 DEF FrameUncompared, FrameFirstCompare
        <4>2. QED
          BY <1>1, <4>1, FrameInfoUncompared, DeliverShows
      <3>3. ASSUME NEW passes \in ScrollCopies(Normalise(comparer)),
                   NEW newChanged \in Narrowed(Normalise(comparer), passes),
                   FrameCompared(passes, newChanged, ready, noData, refresh)
            PROVE  conn'[c].screen = fb'
        <4> DEFINE ui == UpdateInfo([Normalise(comparer) EXCEPT !.changed = newChanged], Screen)
        <4>1. passes = <<>>
          BY <3>3 DEF ScrollCopies
        <4>2. Deliver(ui, <<>>, ready, noData, refresh) /\ ~firstCompare
          BY <3>3, <4>1 DEF FrameCompared
        <4>3. FrameInfo(ui)
          BY <1>1, <3>3, <4>1, <4>2, FrameInfoCompared
        <4> HIDE DEF ui
        <4>4. QED
          BY <1>1, <4>2, <4>3, DeliverShows
      <3>4. QED
        BY <3>1, <3>2, <3>3
    <2>2. CASE Desktop
      <3>0. PICK img \in Image : \E ready, noData, refresh : SetPixelBuffer(img, ready, noData, refresh)
        BY <2>2 DEF Desktop, Paint, CopyArea
      <3>1. PICK ready, noData, refresh : SetPixelBuffer(img, ready, noData, refresh)
        BY <3>0
      <3> DEFINE u == AddChanged(Clear(conn[c].updates), Screen)
                 k == [conn[c] EXCEPT !.updates = u]
      <3>2. conn[c].updates \in Tracker
        BY <2>0 DEF Connection
      <3>3. /\ u \in Tracker /\ u.changed = Screen /\ u.copied = {}
            /\ u.copy_enabled = conn[c].updates.copy_enabled
            /\ Tracks(u, conn[c].screen, frame)
        BY <3>2, AllChangedOK
      <3> HIDE DEF u
      <3>4. ConnOK(c, k, frame) /\ k.screen = conn[c].screen
        BY <2>0, <3>3 DEF ConnOK, Connection
      <3>5. conn'[c] = IF c \in ready
                       THEN WriteFramebufferUpdate(k, Screen, c \in noData, c \in refresh)
                       ELSE k
        BY <3>1 DEF SetPixelBuffer, u
      <3> HIDE DEF k
      <3>6. QED
        BY <3>4, <3>5, ScreenNotEmpty, WriteWhole
    <2>3. ASSUME NEW d \in Clients, Viewer(d)
          PROVE  conn'[c].screen = fb' \/ conn'[c] = NewConnection(conn'[c].screen)
      <3>1. ASSUME NEW img \in Image, Connect(d, img)
            PROVE  conn'[c] = NewConnection(conn'[c].screen)
        <4>1. c = d /\ conn'[c] = NewConnection(img)
          BY <2>0, <3>1 DEF Connect
        <4>2. QED
          BY <4>1 DEF NewConnection
      <3>2. ASSUME NEW blocked \in BOOLEAN, NEW noData \in BOOLEAN, NEW refresh \in BOOLEAN,
                   Write(d, blocked, noData, refresh)
            PROVE  conn'[c].screen = fb'
        <4> DEFINE pending == IF blocked THEN Screen ELSE PendingRegion
        <4>1. c = d /\ conn'[c] = WriteFramebufferUpdate(conn[c], pending, noData, refresh) /\ fb' = fb
          BY <2>0, <3>2 DEF Write
        <4>2. /\ comparer \in Tracker /\ Tracks(comparer, frame, fb) /\ frame \in Image
          BY <1>1 DEF IInv, ComparerOK, ComparerTracks
        <4>3. pending = {} => frame = fb
          <5>1. pending = {} => comparer.changed = {} /\ comparer.copied = {}
            BY ScreenNotEmpty DEF PendingRegion
          <5>2. comparer.changed = {} /\ comparer.copied = {} =>
                  \A p \in Screen : fb[p] = frame[p]
            BY <4>2 DEF Tracks
          <5>3. (\A p \in Screen : fb[p] = frame[p]) => frame = fb
            BY <2>0, <4>2 DEF Image
          <5>4. QED
            BY <5>1, <5>2, <5>3
        <4> HIDE DEF pending
        <4>4. WriteFramebufferUpdate(conn[c], pending, noData, refresh).screen # conn[c].screen
          BY <4>1
        <4>5. WriteFramebufferUpdate(conn[c], pending, noData, refresh).screen = fb
          BY <2>0, <4>3, <4>4, WriteShows
        <4>6. QED
          BY <4>1, <4>5
      <3>3. ASSUME NEW use \in BOOLEAN, SetEncodings(d, use)
            PROVE  conn'[c].screen = conn[c].screen
        BY <2>0, <3>3 DEF SetEncodings, Connection
      <3>4. ASSUME NEW region \in Requests, NEW incremental \in BOOLEAN,
                   FramebufferUpdateRequest(d, region, incremental)
            PROVE  conn'[c].screen = conn[c].screen
        BY <2>0, <3>4 DEF FramebufferUpdateRequest, Connection
      <3>5. ASSUME NEW region \in Requests \cup {{}}, EnableContinuousUpdates(d, region)
            PROVE  conn'[c].screen = conn[c].screen
        BY <2>0, <3>5 DEF EnableContinuousUpdates, Connection
      <3>6. QED
        BY <2>3, <3>1, <3>2, <3>3, <3>4, <3>5 DEF Viewer
    <2>4. QED
      BY <2>1, <2>2, <2>3 DEF Next
  <1>2. QED
    BY <1>0, <1>1, Invariance, PTL DEF Spec, WholeFrames
=============================================================================
