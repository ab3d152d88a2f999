---------------------------- MODULE ByteChannel ----------------------------
(* What one direction of a proxied connection promises: the bytes arrive   *)
(* in the order in which they were sent, each once.  Bytes are numbered.   *)
EXTENDS Naturals, Sequences

VARIABLES sent,   \* how many bytes have been sent
          rcvd    \* the bytes that have arrived

Init == sent = 0 /\ rcvd = << >>
Send == sent' \in Nat /\ sent' > sent /\ UNCHANGED rcvd
Arrive == /\ Len(rcvd') \in Len(rcvd) + 1 .. sent
          /\ rcvd' = [i \in 1 .. Len(rcvd') |-> i]
          /\ UNCHANGED sent
Next == Send \/ Arrive
Spec == Init /\ [][Next]_<<sent, rcvd>>
=============================================================================
