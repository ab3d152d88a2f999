----------------------------- MODULE MCSession -----------------------------
(* Instances of Session for TLC.                                           *)
EXTENDS Session, TLC

(* Addresses mean nothing.                                                 *)
Alike == Permutations(Sockets)

AnyKind == {"plain", "queried", "reverse"}
=============================================================================
