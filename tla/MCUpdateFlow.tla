---------------------------- MODULE MCUpdateFlow ----------------------------
(* Small instances of UpdateFlow: a screen one pixel high, with copies to  *)
(* the left and to the right and pixels of two colours.                    *)
EXTENDS UpdateFlow, TLC

Horizontal == {<<-1, 0>>, <<1, 0>>}
FullScreen == {Screen}
Colours == Permutations(Pixel)
=============================================================================
