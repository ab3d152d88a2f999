---------------------------- MODULE UpdateTracker ----------------------------
(***************************************************************************)
(* Regions and the change trackers of common/rfb/UpdateTracker.cxx.        *)
(*                                                                         *)
(* A region is a set of pixel positions <<x, y>>: the banded rectangle     *)
(* lists of rfb::Region denote such sets and none of the operations used   *)
(* here tells two lists of the same set apart.  A tracker is a record      *)
(*   changed      pixels whose contents must be sent again                 *)
(*   copied       pixels that can be brought up to date by a copy          *)
(*   copy_delta   the displacement of that copy (destination - source)     *)
(*   copy_enabled whether copies may be recorded at all                    *)
(* This module has no state: UpdateFlow keeps one tracker for the server   *)
(* (the comparer) and one for each client.                                 *)
(***************************************************************************)
EXTENDS Integers

Point == Int \X Int
Origin == <<0, 0>>
Negate(d) == <<-d[1], -d[2]>>
Shift(p, d) == <<p[1] + d[1], p[2] + d[2]>>

\* Region::translate
Translate(region, d) == {Shift(p, d) : p \in region}

Tracker == [changed : SUBSET Point, copied : SUBSET Point,
            copy_delta : Point, copy_enabled : BOOLEAN]

\* SimpleUpdateTracker(use_copyrect)
NewTracker(use_copyrect) ==
  [changed |-> {}, copied |-> {}, copy_delta |-> Origin,
   copy_enabled |-> use_copyrect]

-----------------------------------------------------------------------------
(* The area of the bounding rectangle: add_copied keeps the copy whose     *)
(* bounding rectangle is larger.                                           *)
Span(coords) ==
  IF coords = {} THEN 0
  ELSE 1 + (CHOOSE hi \in coords : \A v \in coords : v <= hi)
         - (CHOOSE lo \in coords : \A v \in coords : lo <= v)
BoundingArea(region) ==
  Span({p[1] : p \in region}) * Span({p[2] : p \in region})

-----------------------------------------------------------------------------
AddChanged(t, region) == [t EXCEPT !.changed = @ \cup region]

EnableCopyrect(t, enable) ==
  IF t.copy_enabled /\ ~enable
  THEN [t EXCEPT !.changed = @ \cup t.copied, !.copied = {},
                 !.copy_enabled = FALSE]
  ELSE [t EXCEPT !.copy_enabled = enable]

(* A copy whose source does not overlap an earlier copy replaces it or is  *)
(* degraded to a change; one whose source overlaps it is continued from    *)
(* the earlier copy's own source.                                          *)
KeepOldCopy(t, dest) == AddChanged(t, dest)

UseNewCopy(t, dest, delta) ==
  LET invalid_src == Translate(dest, Negate(delta)) \cap t.changed
  IN  [t EXCEPT !.changed = @ \cup Translate(invalid_src, delta) \cup t.copied,
                !.copied = dest, !.copy_delta = delta]

(* Seeded fault (see README): the continued copy is moved by the           *)
(* accumulated displacement.                                               *)
ContinueCopyTwiceMoved(t, dest, delta, overlap) ==
  LET moved == Translate(overlap, Shift(t.copy_delta, delta))
  IN  [t EXCEPT !.changed = @ \cup ((dest \cup t.copied) \ moved),
                !.copied = moved, !.copy_delta = Shift(@, delta)]

ContinueCopy(t, dest, delta, overlap) ==
  LET moved == Translate(overlap, delta)
      invalid_src == overlap \cap t.changed
  IN  [t EXCEPT !.changed = @ \cup Translate(invalid_src, delta)
                              \cup ((dest \cup t.copied) \ moved),
                !.copied = moved, !.copy_delta = Shift(@, delta)]

AddCopied(t, dest, delta) ==
  LET overlap == Translate(dest, Negate(delta)) \cap t.copied
  IN  CASE ~t.copy_enabled -> AddChanged(t, dest)
        [] t.copy_enabled /\ dest = {} -> t
        [] t.copy_enabled /\ dest # {} /\ overlap # {} ->
             ContinueCopy(t, dest, delta, overlap)
        [] OTHER -> IF BoundingArea(t.copied) > BoundingArea(dest)
                    THEN KeepOldCopy(t, dest)
                    ELSE UseNewCopy(t, dest, delta)

Subtract(t, region) == [t EXCEPT !.copied = @ \ region, !.changed = @ \ region]

(* getUpdateInfo first normalises the tracker (a changed pixel is no       *)
(* longer copied), then reports its regions clipped to the caller's.       *)
Normalise(t) == [t EXCEPT !.copied = @ \ t.changed]
UpdateInfo(t, clip) ==
  [changed |-> t.changed \cap clip, copied |-> (t.copied \ t.changed) \cap clip,
   copy_delta |-> t.copy_delta]

\* SimpleUpdateTracker::clear; the displacement and copy_enabled survive it
Clear(t) == [t EXCEPT !.changed = {}, !.copied = {}]

IsEmpty(t) == t.changed = {} /\ t.copied = {}
=============================================================================
