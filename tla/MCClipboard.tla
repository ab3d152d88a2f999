---------------------------- MODULE MCClipboard -----------------------------
(* Two applications and two connections, one without the clipboard right.  *)
EXTENDS Clipboard

SomeOffers == {{}, {"text"}, {"image"}}
AppSymmetry == Permutations(Apps)
=============================================================================
