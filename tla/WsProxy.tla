------------------------------ MODULE WsProxy ------------------------------
(* do_proxy: one thread of the web server between a viewer that speaks     *)
(* WebSocket (the client) and the RFB socket (the target).  Frames of the  *)
(* client arrive in pieces of any size; they are put together in tin_buf,  *)
(* unpacked into tout_buf and sent on.  What the target sends is packed    *)
(* into cout_buf.  The thread reads from one side only when nothing waits  *)
(* to be written to the other.                                             *)
EXTENDS Integers, Sequences, FiniteSets

CONSTANTS
  BUFSIZE, DBUFSIZE,   \* sizes of tin_buf and of a read from the target
  Frames,              \* frames of the client: kind and size of the payload
  MaxUp, MaxDown       \* bound: bytes of payload sent either way

Header == 2            \* bytes of a header, the mask included

ASSUME WsProxyAssumption ==
  /\ {BUFSIZE, DBUFSIZE, MaxUp, MaxDown} \subseteq Nat \ {0}
  /\ Frames \subseteq [kind : {"data", "ping", "close"}, size : Nat]

VARIABLES
  client, target,        \* "open", "closed" (by the peer), "reset"
  upSent, wire,          \* sent by the client, not yet read
  tin, tout, upRcvd,     \* partial frame; payload waiting; got by the target
  downSent, pipe,        \* sent by the target, not yet read
  cout, got,             \* frame waiting; got by the client
  opcode,                \* of the last header seen; "none" is not initialised
  ended                  \* why the loop was left, "" while it runs
up == <<upSent, wire, tin, tout, upRcvd, opcode>>
down == <<downSent, pipe, cout, got>>
ends == <<client, target, ended>>
vars == <<up, down, ends>>

(* A frame on the wire: every byte knows its frame and its place in it, a  *)
(* byte of payload its number.                                             *)
Encode(kind, payload) ==
  [i \in 1 .. Header + Len(payload) |->
     [kind |-> kind, at |-> i, of |-> Header + Len(payload),
      byte |-> IF i > Header THEN payload[i - Header] ELSE 0]]

(* The bytes of payload in the data frames, in their order.                *)
PayloadAt(bytes) == {i \in 1 .. Len(bytes) : bytes[i].kind = "data" /\ bytes[i].at > Header}
Place(bytes, i) == Cardinality({j \in PayloadAt(bytes) : j <= i})
Payload(bytes) ==
  [n \in 1 .. Cardinality(PayloadAt(bytes)) |->
     bytes[CHOOSE i \in PayloadAt(bytes) : Place(bytes, i) = n].byte]

Numbers(from, n) == [i \in 1 .. n |-> from + i]
Drop(s, n) == SubSeq(s, n + 1, Len(s))
Least(a, b) == IF a < b THEN a ELSE b

(* What the two ends see.                                                  *)
Up == INSTANCE ByteChannel WITH sent <- upSent, rcvd <- upRcvd
Down == INSTANCE ByteChannel WITH sent <- downSent, rcvd <- Payload(got)

-----------------------------------------------------------------------------
(* The peers.                                                              *)

(* A viewer sends no frame after a close frame.                            *)
SendFrame(f) ==
  /\ client = "open"
  /\ \A i \in 1 .. Len(wire) : wire[i].kind # "close"
  /\ LET n == IF f.kind = "data" THEN f.size ELSE 0
         bytes == IF f.kind = "data" THEN Numbers(upSent, n) ELSE [i \in 1 .. f.size |-> 0]
     IN  /\ upSent + n <= MaxUp
         /\ Len(wire) + Header + f.size <= 2 * BUFSIZE
         /\ upSent' = upSent + n
         /\ wire' = wire \o Encode(f.kind, bytes)
  /\ UNCHANGED <<tin, tout, upRcvd, opcode, down, ends>>

TargetSends(n) ==
  /\ target = "open" /\ downSent + n <= MaxDown
  /\ downSent' = downSent + n
  /\ pipe' = pipe \o Numbers(downSent, n)
  /\ UNCHANGED <<up, cout, got, ends>>

ClientGoes ==
  /\ client = "open" /\ client' \in {"closed", "reset"}
  /\ UNCHANGED <<up, down, target, ended>>

TargetGoes ==
  /\ target = "open" /\ target' = "closed"
  /\ UNCHANGED <<up, down, client, ended>>

-----------------------------------------------------------------------------
(* The loop.  Each of the four parts of its body is a step: which of them  *)
(* run in one round is up to select().                                     *)

Leave(why) == ended' = why /\ UNCHANGED <<up, down, client, target>>

(* send(target): everything or a part.                                     *)
WriteTarget ==
  /\ ended = "" /\ tout # << >>
  /\ \/ /\ target = "open"
        /\ \E n \in 1 .. Len(tout) : /\ upRcvd' = upRcvd \o SubSeq(tout, 1, n)
                                      /\ tout' = Drop(tout, n)
        /\ UNCHANGED <<upSent, wire, tin, opcode, down, ends>>
     \/ target # "open" /\ Leave("target error")

(* Seeded fault: a send that took only a part counts as complete.          *)
WriteClientOnce ==
  /\ ended = "" /\ cout # << >> /\ client # "reset"
  /\ \E n \in 1 .. Len(cout) : got' = got \o SubSeq(cout, 1, n)
  /\ cout' = << >>
  /\ UNCHANGED <<up, downSent, pipe, ends>>

(* ws_send: everything or a part.  A failure is not looked at: -1 is added *)
(* to cout_start, and what is left is taken for sent, or one more byte is  *)
(* left.  The connection is dead by then.                                  *)
WriteClient ==
  /\ ended = "" /\ cout # << >>
  /\ \/ /\ client # "reset"
        /\ \E n \in 1 .. Len(cout) : /\ got' = got \o SubSeq(cout, 1, n)
                                      /\ cout' = Drop(cout, n)
     \/ /\ client = "reset" /\ UNCHANGED got
        /\ cout' = IF Head(cout).at = 1 THEN << >>
                   ELSE <<[Head(cout) EXCEPT !.at = @ - 1]>> \o cout
  /\ UNCHANGED <<up, downSent, pipe, ends>>

(* Seeded fault: a hang-up is obeyed before the data is read.              *)
ReadTargetEager ==
  /\ ended = "" /\ cout = << >>
  /\ \/ /\ pipe # << >> /\ target = "open"
        /\ cout' = Encode("data", SubSeq(pipe, 1, 1)) /\ pipe' = Drop(pipe, 1)
        /\ UNCHANGED <<up, downSent, got, ends>>
     \/ target # "open" /\ Leave("target closed")

(* recv(target) and encode_hybi: what was read becomes a frame.            *)
ReadTarget ==
  /\ ended = "" /\ cout = << >>
  /\ \/ /\ pipe # << >>
        /\ \E n \in 1 .. Least(DBUFSIZE, Len(pipe)) :
             /\ cout' = Encode("data", SubSeq(pipe, 1, n))
             /\ pipe' = Drop(pipe, n)
        /\ UNCHANGED <<up, downSent, got, ends>>
     \/ pipe = << >> /\ target # "open" /\ Leave("target closed")

(* decode_hybi: all complete frames are unpacked, the rest is left.  A     *)
(* close frame is seen by its header.                                      *)
Whole(buf) ==
  LET last == {i \in 1 .. Len(buf) : buf[i].at = buf[i].of}
  IN  IF last = {} THEN 0 ELSE CHOOSE i \in last : \A j \in last : j <= i

LastOpcode(buf) ==
  LET seen == {i \in 1 .. Len(buf) : buf[i].at = Header}
  IN  IF seen = {} THEN opcode ELSE buf[CHOOSE i \in seen : \A j \in seen : j <= i].kind

(* Seeded faults: what is left after the complete frames is thrown away,   *)
(* or nothing is read as long as there is such a rest.                     *)
ReadClientForgetful ==
  /\ ended = "" /\ tout = << >> /\ wire # << >>
  /\ \E n \in 1 .. Least(BUFSIZE - 1, Len(wire)) :
       LET buf == SubSeq(wire, 1, n)
       IN  /\ opcode' = LastOpcode(buf) /\ opcode' # "close"
           /\ tout' = Payload(SubSeq(buf, 1, Whole(buf)))
           /\ wire' = Drop(wire, n)
  /\ UNCHANGED <<tin, upSent, upRcvd, down, ends>>

ReadClientOnce ==
  /\ ended = "" /\ tout = << >> /\ wire # << >> /\ tin = << >>
  /\ \E n \in 1 .. Least(BUFSIZE - 1, Len(wire)) :
       LET buf == SubSeq(wire, 1, n)
       IN  /\ opcode' = LastOpcode(buf) /\ opcode' # "close"
           /\ tout' = Payload(SubSeq(buf, 1, Whole(buf)))
           /\ tin' = Drop(buf, Whole(buf))
           /\ wire' = Drop(wire, n)
  /\ UNCHANGED <<upSent, upRcvd, down, ends>>

(* ws_recv and decoding.  A full tin_buf leaves no room to read into, and  *)
(* a read of nothing looks like the end of the connection.  With less than *)
(* a header read so far opcode is not initialised and may be anything.     *)
ReadClient ==
  /\ ended = "" /\ tout = << >>
  /\ LET room == BUFSIZE - 1 - Len(tin) IN
     \/ /\ wire # << >> /\ room > 0 /\ client # "reset"
        /\ \E n \in 1 .. Least(room, Len(wire)) :
             LET buf == tin \o SubSeq(wire, 1, n)
                 op == LastOpcode(buf)
             IN  \/ op \in {"close", "none"} /\ Leave("close frame")
                 \/ /\ op # "close"
                    /\ opcode' = op
                    /\ tout' = Payload(SubSeq(buf, 1, Whole(buf)))
                    /\ tin' = Drop(buf, Whole(buf))
                    /\ wire' = Drop(wire, n)
                    /\ UNCHANGED <<upSent, upRcvd, down, ends>>
     \/ /\ \/ wire = << >> /\ client = "closed"
           \/ wire # << >> /\ room = 0
           \/ client = "reset"
        /\ Leave("client closed")

(* proxy_handler closes both sockets when the loop has been left.          *)
Finish == ended # "" /\ UNCHANGED vars

Init ==
  /\ client = "open" /\ target = "open" /\ ended = ""
  /\ upSent = 0 /\ wire = << >> /\ tin = << >> /\ tout = << >> /\ upRcvd = << >>
  /\ downSent = 0 /\ pipe = << >> /\ cout = << >> /\ got = << >>
  /\ opcode = "none"

Loop == WriteTarget \/ WriteClient \/ ReadTarget \/ ReadClient

Next ==
  \/ \E f \in Frames : SendFrame(f)
  \/ \E n \in 1 .. MaxDown : TargetSends(n)
  \/ ClientGoes \/ TargetGoes \/ Loop \/ Finish

(* The thread runs, and looks at both sockets in every round.              *)
Fairness == /\ WF_vars(WriteTarget) /\ WF_vars(WriteClient)
            /\ WF_vars(ReadTarget) /\ WF_vars(ReadClient)
Spec == Init /\ [][Next]_vars /\ Fairness

-----------------------------------------------------------------------------
(* Every variable has its type.                                            *)
TypeOK ==
  /\ client \in {"open", "closed", "reset"} /\ target \in {"open", "closed"}
  /\ upSent \in 0 .. MaxUp /\ downSent \in 0 .. MaxDown
  /\ opcode \in {"none", "data", "ping"}
  /\ ended \in {"", "target error", "target closed", "close frame", "client closed"}

(* What the client sends in its data frames reaches the target in order,   *)
(* each byte once, however the frames are cut up on their way, and so does *)
(* what the target sends the client.                                       *)
InOrder == Up!Spec /\ Down!Spec

(* No buffer overflows, and the client is sent whole frames: the header of *)
(* a frame follows the end of the one before, whatever part of a frame a   *)
(* send has taken.                                                         *)
FramesIntact ==
  /\ Len(tin) < BUFSIZE /\ Len(tout) < BUFSIZE /\ Len(cout) <= DBUFSIZE + Header
  /\ \A i \in 1 .. Len(got) :
       IF got[i].at = 1 THEN i = 1 \/ got[i - 1].at = got[i - 1].of
       ELSE i > 1 /\ got[i].at = got[i - 1].at + 1 /\ got[i].of = got[i - 1].of

(* When the loop ends because the target has closed, all the target had to *)
(* say (the reason for closing comes last) is with the client, unless the  *)
(* client has gone.                                                        *)
LastWords ==
  ended = "target closed" /\ client # "reset" => Len(Payload(got)) = downSent

(* A byte sent in a frame reaches the target, or the connection ends: the  *)
(* rest of a partial frame is not forgotten.                               *)
UpDelivered ==
  \A n \in 1 .. MaxUp : upSent >= n ~> Len(upRcvd) >= n \/ ended # ""
=============================================================================
