----------------------------- MODULE MCUserFile -----------------------------
(* Two users; one is created and removed by requests that meet those that  *)
(* create or replace the other.                                            *)
EXTENDS UserFile, TLC
CONSTANTS u1, u2

Ask(kind, user, rights) ==
  [kind |-> kind, user |-> user, entry |-> [pw |-> "p", rights |-> rights]]
Asked == {Ask("create", u1, {"w"}), Ask("remove", u1, {}), Ask("set", u2, {})}
=============================================================================
