---------------------------- MODULE MCDecodePool ----------------------------
(* Rectangles that conflict in every way the decoders can: overlapping     *)
(* destinations, a copy whose source another rectangle paints, Tight       *)
(* rectangles on separate pixels that share a zlib stream, and ZRLE.       *)
EXTENDS DecodePool, TLC

Copy12 == [encoding |-> "copy", dest |-> {2}, from |-> 2 :> 1, streams |-> {}]
Tight1 == [encoding |-> "tight", dest |-> {1}, from |-> <<>>, streams |-> {"t0"}]
Tight2 == [encoding |-> "tight", dest |-> {2}, from |-> <<>>, streams |-> {"t0"}]
Zrle2 == [encoding |-> "zrle", dest |-> {2}, from |-> <<>>, streams |-> {"z"}]
Zrle3 == [encoding |-> "zrle", dest |-> {3}, from |-> <<>>, streams |-> {"z"}]
Raw3 == [encoding |-> "raw", dest |-> {3}, from |-> <<>>, streams |-> {}]

AllRects == {Copy12, Tight1, Tight2, Zrle2, Zrle3}
OneRect == {Raw3}
WorkerSymmetry == Permutations(Workers)
=============================================================================
