----------------------------- MODULE MCWsProxy -----------------------------
EXTENDS WsProxy, TLC

(* Data frames that are small, that just fit and that are too large.       *)
MCFrames == {[kind |-> "data", size |-> 1], [kind |-> "data", size |-> 2],
             [kind |-> "data", size |-> 3],
             [kind |-> "ping", size |-> 1], [kind |-> "close", size |-> 0]}
=============================================================================
