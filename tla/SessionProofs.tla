--------------------------- MODULE SessionProofs ---------------------------
(***************************************************************************)
(* Theorems about Session, for any number of sockets, connections and       *)
(* answers under way.                                                       *)
(***************************************************************************)
EXTENDS Session, FiniteSetTheorems, TLAPS

(* The parts of a connection that no step but AddSocket changes.           *)
Kept == \A s \in Sockets : /\ conn'[s].number = conn[s].number
                           /\ conn'[s].kind = conn[s].kind

Typed == conn \in [Sockets -> Connection] /\ sessions \subseteq Numbers

(* What closing connections does: states change to "closing", the rest     *)
(* stays.                                                                  *)
LEMMA ClosedConnections ==
  ASSUME NEW cs \in [Sockets -> Connection], NEW ss \in SUBSET Sockets
  PROVE  /\ Closed(cs, ss) \in [Sockets -> Connection]
         /\ \A s \in Sockets : /\ Closed(cs, ss)[s].number = cs[s].number
                               /\ Closed(cs, ss)[s].kind = cs[s].kind
         /\ \A s \in ss : Closed(cs, ss)[s].state = "closing"
         /\ \A s \in Sockets \ ss : Closed(cs, ss)[s] = cs[s]
  BY DEF Closed, Connection

(* The list of sessions holds numbers of connections.                      *)
LEMMA ListTyped ==
  ASSUME NEW cs \in [Sockets -> Connection], sessions \subseteq Numbers
  PROVE  updateSessionUsersList(cs) \subseteq Numbers
  BY DEF updateSessionUsersList, Authenticated, Connection

(* Closing the connections of ss changes nobody else.                      *)
LEMMA CloseAll ==
  ASSUME Typed, NEW ss \in SUBSET Sockets, closeAll(ss)
  PROVE  /\ Typed' /\ Kept
         /\ \A s \in ss : conn'[s].state = "closing"
         /\ \A s \in Sockets \ ss : conn'[s] = conn[s]
  BY ClosedConnections, ListTyped DEF closeAll, Typed, Kept

(* Approving or refusing a connection changes only that connection.        *)
LEMMA Approve ==
  ASSUME Typed, NEW s \in Sockets, NEW accept \in BOOLEAN, approveConnection(s, accept)
  PROVE  /\ Typed' /\ Kept
         /\ conn'[s].state = IF accept THEN "init" ELSE "closing"
         /\ \A t \in Sockets \ {s} : conn'[t] = conn[t]
<1>1. CASE accept
  BY <1>1 DEF approveConnection, Typed, Kept, Connection
<1>2. CASE ~accept
  BY <1>2, CloseAll DEF approveConnection
<1> QED BY <1>1, <1>2

(* A step of a connection's handshake leaves the other connections alone.  *)
(* The connection itself may come to wait, its question being put on       *)
(* record, or be let in if no consent is needed.                           *)
LEMMA HandshakeSteps ==
  ASSUME Typed, query \in Query, notices \in Nat, NEW s \in Sockets, Handshake(s)
  PROVE  /\ Typed' /\ Kept /\ query' \in Query /\ notices' \in Nat
         /\ \A t \in Sockets \ {s} : conn'[t] = conn[t]
         /\ conn[s].state \in {"version", "type", "security"}
         /\ conn'[s].state \in {"type", "security", "querying", "init", "closing"}
         /\ conn'[s].state = "init" => conn[s].kind # "queried"
         /\ \/ query' = query /\ conn'[s].state # "querying"
            \/ /\ ~query.timer /\ conn'[s].state = "querying"
               /\ query' = [id |-> s, socket |-> s, timer |-> TRUE,
                            number |-> conn[s].number]
<1>1. CASE conn' = [conn EXCEPT ![s].state = "type"] /\ UNCHANGED <<query, sessions, notices>>
  BY <1>1 DEF Handshake, Typed, Kept, Connection
<1>2. CASE conn' = [conn EXCEPT ![s].state = "security"] /\ UNCHANGED <<query, sessions, notices>>
  BY <1>2 DEF Handshake, Typed, Kept, Connection
<1>3. CASE approveConnection(s, FALSE) /\ UNCHANGED <<query, notices>>
  BY <1>3, Approve DEF Handshake
<1>4. CASE conn[s].kind # "queried" /\ approveConnection(s, TRUE) /\ UNCHANGED <<query, notices>>
  BY <1>4, Approve DEF Handshake
<1>5. CASE /\ ~query.timer
           /\ conn' = [conn EXCEPT ![s].state = "querying"]
           /\ query' = [id |-> s, socket |-> s, timer |-> TRUE, number |-> conn[s].number]
           /\ notices' = notices + 1 /\ UNCHANGED sessions
  <2>1. conn[s].number \in Numbers  BY DEF Typed, Connection
  <2> QED BY <1>5, <2>1 DEF Handshake, Typed, Kept, Connection, Query
<1> QED
  BY <1>1, <1>2, <1>3, <1>4, <1>5
  DEF Handshake, SecurityMsg, Authenticate, queryConnection

(* A client that is initialised closes nobody, every other client, or      *)
(* itself.                                                                 *)
LEMMA ClientInitSteps ==
  ASSUME Typed, NEW s \in Sockets, NEW shared \in BOOLEAN, ClientInit(s, shared)
  PROVE  /\ Typed' /\ Kept
         /\ conn[s].state = "init"
         /\ conn'[s].state \in {"normal", "closing"}
         /\ \A t \in Sockets \ {s} : \/ conn'[t] = conn[t]
                                     \/ conn'[t].state = "closing"
<1> DEFINE Opened(others) == [Closed(conn, others) EXCEPT ![s].state = "normal"]
<1>1. ASSUME NEW others \in SUBSET (Sockets \ {s}), Initialise(s, others)
      PROVE  /\ Typed' /\ Kept /\ conn'[s].state = "normal"
             /\ \A t \in Sockets \ {s} : \/ conn'[t] = conn[t]
                                         \/ conn'[t].state = "closing"
  <2>1. conn' = Opened(others) /\ sessions' = updateSessionUsersList(Opened(others))
    BY <1>1 DEF Initialise
  <2>2. Opened(others) \in [Sockets -> Connection]
    BY ClosedConnections DEF Typed, Connection
  <2>3. sessions' \subseteq Numbers
    BY <2>1, <2>2, ListTyped DEF Typed
  <2>4. Kept /\ conn'[s].state = "normal"
        /\ \A t \in Sockets \ {s} : conn'[t] = conn[t] \/ conn'[t].state = "closing"
    BY <2>1, ClosedConnections DEF Typed, Kept, Connection
  <2> QED BY <2>1, <2>2, <2>3, <2>4 DEF Typed
<1>2. conn[s].state = "init"  BY DEF ClientInit
<1>3. CASE closeAll({s})
  BY <1>2, <1>3, CloseAll
<1>4. CASE Initialise(s, {})
  BY <1>1, <1>2, <1>4
<1>5. CASE Initialise(s, Present \ {s})
  BY <1>1, <1>2, <1>5 DEF Present
<1> QED BY <1>3, <1>4, <1>5 DEF ClientInit

(* Only connections that exist are closed in favour of another.            *)
LEMMA PresentOnly ==
  ASSUME Typed, NEW s \in Sockets, NEW shared \in BOOLEAN, ClientInit(s, shared)
  PROVE  \A t \in Sockets \ {s} : conn[t].state = "none" => conn'[t] = conn[t]
<1>1. ASSUME NEW others \in SUBSET Present, Initialise(s, others), NEW t \in Sockets \ {s},
             conn[t].state = "none"
      PROVE  conn'[t] = conn[t]
  <2>1. others \in SUBSET Sockets /\ t \notin others
    BY <1>1 DEF Present
  <2>2. Closed(conn, others)[t] = conn[t] /\ Closed(conn, others) \in [Sockets -> Connection]
    BY <2>1, ClosedConnections DEF Typed
  <2> QED BY <1>1, <2>2 DEF Initialise
<1>2. CASE closeAll({s})
  BY <1>2, CloseAll
<1>3. CASE Initialise(s, {})
  BY <1>1, <1>3
<1>4. CASE Initialise(s, Present \ {s})
  BY <1>1, <1>4
<1> QED BY <1>2, <1>3, <1>4 DEF ClientInit

VerdictsTyped == consent \in [Sockets -> Numbers] /\ strayed \subseteq Numbers \X Numbers

(* An answer or a timeout closes a connection, or lets in one that waits   *)
(* for it and notes what the answer was about.                             *)
LEMMA ApproveSocketSteps ==
  ASSUME Typed, VerdictsTyped, NEW q \in Sockets \cup {NoSocket},
         NEW accept \in BOOLEAN, NEW about \in Numbers, approveSocket(q, accept, about)
  PROVE  /\ Typed' /\ Kept /\ VerdictsTyped'
         /\ \A t \in Sockets \ {q} : conn'[t] = conn[t] /\ consent'[t] = consent[t]
         /\ q \in Sockets =>
              \/ conn[q].state = "none" /\ conn'[q] = conn[q]
              \/ conn'[q].state = "closing"
              \/ /\ accept /\ conn[q].state = "querying" /\ conn'[q].state = "init"
                 /\ consent'[q] = about
         /\ \/ strayed' = strayed
            \/ /\ q \in Sockets /\ conn[q].state \notin {"none", "querying", "closing"}
               /\ strayed' = strayed \cup {<<about, conn[q].number>>}
<1>1. CASE q = NoSocket \/ q \notin Present
  BY <1>1, ParametersOK DEF approveSocket, verdicts, VerdictsTyped, Present, Typed, Kept
<1>2. CASE q \in Present /\ q # NoSocket /\ conn[q].state = "querying"
  <2>1. /\ approveConnection(q, accept) /\ strayed' = strayed /\ q \in Sockets
        /\ consent' = [consent EXCEPT ![q] = about]
    BY <1>2 DEF approveSocket, Present
  <2>2. VerdictsTyped' /\ consent'[q] = about
        /\ \A t \in Sockets \ {q} : consent'[t] = consent[t]
    BY <2>1 DEF VerdictsTyped
  <2> QED BY <1>2, <2>1, <2>2, Approve
<1>3. CASE q \in Present /\ q # NoSocket /\ conn[q].state # "querying"
  <2>1. /\ closeAll({q}) /\ q \in Sockets /\ conn[q].state # "none"
        /\ consent' = consent
        /\ strayed' = IF conn[q].state = "closing" THEN strayed
                      ELSE strayed \cup {<<about, conn[q].number>>}
    BY <1>3 DEF approveSocket, Present
  <2>2. /\ Typed' /\ Kept /\ conn'[q].state = "closing"
        /\ \A t \in Sockets \ {q} : conn'[t] = conn[t]
    BY <2>1, CloseAll
  <2>3. VerdictsTyped'
    BY <2>1 DEF VerdictsTyped, Typed, Connection
  <2> QED BY <1>3, <2>1, <2>2, <2>3
<1> QED BY <1>1, <1>2, <1>3

-----------------------------------------------------------------------------
(* Every step by name, as the proofs below go through them.                *)
LEMMA Steps ==
  ASSUME NEW P, [Next]_vars,
         \A s \in Sockets, kind \in Kinds : AddSocket(s, kind) => P,
         \A s \in Sockets : Handshake(s) => P,
         \A s \in Sockets, shared \in BOOLEAN : ClientInit(s, shared) => P,
         \A s \in Sockets : Close(s) => P,
         \A s \in Sockets : RemoveSocket(s) => P,
         ApproveConnect => P,
         QueryTimeout => P,
         HandleEvent => P,
         \A accept \in BOOLEAN : ButtonActivate(accept) => P,
         DialogTimeout => P,
         HelperStarts => P,
         HelperExits => P,
         UNCHANGED vars => P
  PROVE  P
  BY DEF Next, Helper

AnswerType == [id : Sockets \cup {NoSocket}, number : Numbers, accept : BOOLEAN]

Acceptances == (Sockets \cup {NoSocket}) \X Numbers

(* What TypeOK says, with the parts the conn lemmas need in front.         *)
LEMMA TypeParts ==
  TypeOK <=> /\ Typed /\ made \in Numbers /\ query \in Query /\ notices \in Nat
             /\ helper \in BOOLEAN /\ dialog \in Dialog
             /\ answers \in Seq(AnswerType) /\ Len(answers) <= MaxAnswers
             /\ accepted \subseteq Acceptances /\ VerdictsTyped
  BY DEF TypeOK, Typed, AnswerType, Acceptances, VerdictsTyped

(* Every step keeps the types.                                             *)
LEMMA TypeStep == TypeOK /\ [Next]_vars => TypeOK'
<1> SUFFICES ASSUME TypeOK, [Next]_vars PROVE TypeOK'
  OBVIOUS
<1>t. /\ Typed /\ made \in Numbers /\ query \in Query /\ notices \in Nat
      /\ helper \in BOOLEAN /\ dialog \in Dialog
      /\ answers \in Seq(AnswerType) /\ Len(answers) <= MaxAnswers
      /\ accepted \subseteq Acceptances /\ VerdictsTyped
  BY TypeParts
<1>p. MaxConnections \in Nat /\ MaxAnswers \in Nat
  BY ParametersOK
<1> DEFINE Rest == /\ made' \in Numbers /\ query' \in Query /\ notices' \in Nat
                   /\ helper' \in BOOLEAN /\ dialog' \in Dialog
                   /\ answers' \in Seq(AnswerType) /\ Len(answers') <= MaxAnswers
                   /\ accepted' \subseteq Acceptances /\ VerdictsTyped'
<1>g. ASSUME Typed', Rest PROVE TypeOK'
  BY <1>g DEF TypeOK, Typed, AnswerType, Acceptances, VerdictsTyped
<1>1. ASSUME NEW s \in Sockets, NEW kind \in Kinds, AddSocket(s, kind) PROVE TypeOK'
  <2>1. made + 1 \in Numbers
    BY <1>1, <1>t, <1>p DEF AddSocket, Numbers
  <2>2. Typed'
    BY <1>1, <1>t, <2>1 DEF AddSocket, Typed, Connection
  <2>3. Rest
    BY <1>1, <1>t, <1>p, <2>1 DEF AddSocket, asking, VerdictsTyped, Numbers
  <2> QED BY <1>g, <2>2, <2>3
<1>2. ASSUME NEW s \in Sockets, Handshake(s) PROVE TypeOK'
  <2>1. Typed' /\ query' \in Query /\ notices' \in Nat
    BY <1>2, <1>t, HandshakeSteps
  <2>2. Rest
    BY <1>2, <1>t, <2>1 DEF Handshake, verdicts, VerdictsTyped
  <2> QED BY <1>g, <2>1, <2>2
<1>3. ASSUME NEW s \in Sockets, NEW shared \in BOOLEAN, ClientInit(s, shared) PROVE TypeOK'
  <2>1. Typed'
    BY <1>3, <1>t, ClientInitSteps
  <2>2. Rest
    BY <1>3, <1>t DEF ClientInit, asking, verdicts, VerdictsTyped
  <2> QED BY <1>g, <2>1, <2>2
<1>4. ASSUME NEW s \in Sockets, Close(s) PROVE TypeOK'
  <2>1. Typed'
    BY <1>4, <1>t, CloseAll DEF Close
  <2>2. Rest
    BY <1>4, <1>t DEF Close, asking, verdicts, VerdictsTyped
  <2> QED BY <1>g, <2>1, <2>2
<1>5. ASSUME NEW s \in Sockets, RemoveSocket(s) PROVE TypeOK'
  <2>1. Typed'
    BY <1>5, <1>t DEF RemoveSocket, Typed, Connection
  <2>2. Rest
    BY <1>5, <1>t DEF RemoveSocket, asking, verdicts, VerdictsTyped
  <2> QED BY <1>g, <2>1, <2>2
<1>6. ASSUME ApproveConnect PROVE TypeOK'
  <2>1. Head(answers) \in AnswerType /\ answers' \in Seq(AnswerType)
        /\ Len(answers') <= MaxAnswers
    BY <1>6, <1>t, <1>p DEF ApproveConnect
  <2>2. Typed' /\ VerdictsTyped' /\ query' \in Query
    <3>1. CASE query.id = Head(answers).id
      <4>1. approveSocket(query.socket, Head(answers).accept, Head(answers).number)
            /\ query' = [query EXCEPT !.id = NoSocket, !.timer = FALSE]
        BY <1>6, <3>1 DEF ApproveConnect
      <4>2. query.socket \in Sockets \cup {NoSocket} /\ Head(answers).accept \in BOOLEAN
            /\ Head(answers).number \in Numbers
        BY <1>t, <2>1 DEF Query, AnswerType
      <4>3. Typed' /\ VerdictsTyped'
        BY <4>1, <4>2, <1>t, ApproveSocketSteps
      <4> QED BY <4>1, <4>3, <1>t DEF Query
    <3>2. CASE query.id # Head(answers).id
      BY <1>6, <3>2, <1>t DEF ApproveConnect, verdicts, VerdictsTyped, Typed
    <3> QED BY <3>1, <3>2
  <2>3. Rest
    BY <1>6, <1>t, <2>1, <2>2 DEF ApproveConnect
  <2> QED BY <1>g, <2>2, <2>3
<1>7. ASSUME QueryTimeout PROVE TypeOK'
  <2>1. query.socket \in Sockets \cup {NoSocket} /\ query' \in Query
        /\ query.number \in Numbers
    BY <1>7, <1>t DEF QueryTimeout, Query
  <2>2. Typed' /\ VerdictsTyped'
    BY <1>7, <1>t, <2>1, ApproveSocketSteps DEF QueryTimeout
  <2>3. Rest
    BY <1>7, <1>t, <2>1, <2>2 DEF QueryTimeout, asking
  <2> QED BY <1>g, <2>2, <2>3
<1>8. ASSUME HandleEvent PROVE TypeOK'
  <2>1. dialog' \in Dialog
    BY <1>8, <1>t, <1>p DEF HandleEvent, NoDialog, Dialog, Query, Numbers
  <2>2. Typed' /\ Rest
    BY <1>8, <1>t, <2>1 DEF HandleEvent, verdicts, VerdictsTyped, Typed
  <2> QED BY <1>g, <2>2
<1>9. ASSUME NEW accept \in BOOLEAN, ButtonActivate(accept) PROVE TypeOK'
  <2>1. dialog' \in Dialog /\ <<dialog.id, dialog.number>> \in Acceptances
    BY <1>9, <1>t DEF ButtonActivate, Dialog, Acceptances
  <2>2. answers' \in Seq(AnswerType) /\ Len(answers') <= MaxAnswers
    BY <1>9, <1>t, <1>p DEF ButtonActivate, Answer, AnswerType, Dialog
  <2>3. Typed' /\ Rest
    BY <1>9, <1>t, <2>1, <2>2 DEF ButtonActivate, verdicts, VerdictsTyped, Typed
  <2> QED BY <1>g, <2>3
<1>10. ASSUME DialogTimeout PROVE TypeOK'
  <2>1. dialog' \in Dialog
    BY <1>10, <1>t DEF DialogTimeout, Dialog
  <2>2. answers' \in Seq(AnswerType) /\ Len(answers') <= MaxAnswers
    BY <1>10, <1>t, <1>p DEF DialogTimeout, Answer, AnswerType, Dialog
  <2>3. Typed' /\ Rest
    BY <1>10, <1>t, <2>1, <2>2 DEF DialogTimeout, verdicts, VerdictsTyped, Typed
  <2> QED BY <1>g, <2>3
<1>11. ASSUME HelperStarts PROVE TypeOK'
  <2>1. Typed' /\ Rest
    BY <1>11, <1>t DEF HelperStarts, verdicts, VerdictsTyped, Typed
  <2> QED BY <1>g, <2>1
<1>12. ASSUME HelperExits PROVE TypeOK'
  <2>1. dialog' \in Dialog
    BY <1>12, <1>p DEF HelperExits, NoDialog, Dialog, Numbers
  <2>2. Typed' /\ Rest
    BY <1>12, <1>t, <2>1 DEF HelperExits, verdicts, VerdictsTyped, Typed
  <2> QED BY <1>g, <2>2
<1>13. ASSUME UNCHANGED vars PROVE TypeOK'
  BY <1>13 DEF vars, TypeOK
<1> QED
  BY <1>1, <1>2, <1>3, <1>4, <1>5, <1>6, <1>7, <1>8, <1>9, <1>10, <1>11, <1>12, <1>13,
     Steps

(* The start, and every variable's type at any time.                       *)
LEMMA TypeInit == Init => TypeOK
<1> SUFFICES ASSUME Init PROVE TypeOK
  OBVIOUS
<1>1. 0 \in Numbers /\ MaxAnswers \in Nat
  BY ParametersOK DEF Numbers
<1>2. conn \in [Sockets -> Connection]
  BY <1>1 DEF Init, NoConnection, Connection
<1>3. query \in Query /\ dialog \in Dialog /\ made \in Numbers
  BY <1>1 DEF Init, Query, NoDialog, Dialog
<1>4. answers \in Seq(AnswerType) /\ Len(answers) <= MaxAnswers
  BY <1>1 DEF Init
<1> QED BY <1>1, <1>2, <1>3, <1>4 DEF Init, TypeOK, AnswerType

(* Every variable keeps its type, for any number of sockets, connections   *)
(* and answers: in particular the answers under way never pass their bound. *)
THEOREM TypeCorrect == Spec => []TypeOK
<1>1. TypeOK /\ [Next]_vars => TypeOK'
  BY TypeStep
<1> QED BY TypeInit, <1>1, PTL DEF Spec

-----------------------------------------------------------------------------
(* A step whose only effect on the connections that wait is to end the     *)
(* waiting.                                                                *)
LEMMA PendingKept ==
  ASSUME Typed, QueryPending, Kept, query' = query,
         \A s \in Sockets : conn'[s].state = "querying" => conn[s].state = "querying"
  PROVE  QueryPending'
  BY DEF QueryPending, Kept

(* Every step keeps QueryPending; the steps that end a question end the    *)
(* waiting.                                                                *)
LEMMA PendingStep == TypeOK /\ QueryPending /\ [Next]_vars => QueryPending'
<1> SUFFICES ASSUME TypeOK, QueryPending, [Next]_vars PROVE QueryPending'
  OBVIOUS
<1>t. Typed /\ query \in Query /\ notices \in Nat /\ VerdictsTyped
      /\ answers \in Seq(AnswerType)
  BY TypeParts
<1>1. ASSUME NEW s \in Sockets, NEW kind \in Kinds, AddSocket(s, kind) PROVE QueryPending'
  BY <1>1, <1>t DEF AddSocket, QueryPending, Typed
<1>2. ASSUME NEW s \in Sockets, Handshake(s) PROVE QueryPending'
  BY <1>2, <1>t, HandshakeSteps DEF QueryPending, Kept
<1>3. ASSUME NEW s \in Sockets, NEW shared \in BOOLEAN, ClientInit(s, shared) PROVE QueryPending'
  <2>1. query' = query  BY <1>3 DEF ClientInit
  <2>2. Kept /\ \A t \in Sockets : conn'[t].state = "querying" => conn[t].state = "querying"
    BY <1>3, <1>t, ClientInitSteps
  <2> QED BY <1>t, <2>1, <2>2, PendingKept
<1>4. ASSUME NEW s \in Sockets, Close(s) PROVE QueryPending'
  <2>1. query' = query /\ closeAll({s})  BY <1>4 DEF Close
  <2>2. Kept /\ \A t \in Sockets : conn'[t].state = "querying" => conn[t].state = "querying"
    BY <1>t, <2>1, CloseAll
  <2> QED BY <1>t, <2>1, <2>2, PendingKept
<1>5. ASSUME NEW s \in Sockets, RemoveSocket(s) PROVE QueryPending'
  BY <1>5, <1>t DEF RemoveSocket, QueryPending, Typed
<1>6. ASSUME ApproveConnect PROVE QueryPending'
  <2>1. CASE query.id = Head(answers).id
    <3>1. /\ approveSocket(query.socket, Head(answers).accept, Head(answers).number)
          /\ Head(answers).accept \in BOOLEAN /\ Head(answers).number \in Numbers
          /\ query.socket \in Sockets \cup {NoSocket}
      <4>1. Head(answers) \in AnswerType
        BY <1>6, <1>t DEF ApproveConnect
      <4> QED BY <1>6, <1>t, <2>1, <4>1 DEF ApproveConnect, AnswerType, Query
    <3>2. \A t \in Sockets : conn'[t].state # "querying"
      <4>1. /\ \A t \in Sockets \ {query.socket} : conn'[t] = conn[t]
            /\ query.socket \in Sockets =>
                 \/ conn[query.socket].state = "none" /\ conn'[query.socket] = conn[query.socket]
                 \/ conn'[query.socket].state \in {"closing", "init"}
        BY <3>1, <1>t, ApproveSocketSteps
      <4> QED BY <4>1 DEF QueryPending
    <3> QED BY <3>2 DEF QueryPending
  <2>2. CASE query.id # Head(answers).id
    BY <1>6, <2>2 DEF ApproveConnect, QueryPending
  <2> QED BY <2>1, <2>2
<1>7. ASSUME QueryTimeout PROVE QueryPending'
  <2>1. /\ approveSocket(query.socket, FALSE, query.number)
        /\ query.socket \in Sockets \cup {NoSocket} /\ query.number \in Numbers
        /\ FALSE \in BOOLEAN
    BY <1>7, <1>t DEF QueryTimeout, Query
  <2>2. \A t \in Sockets : conn'[t].state # "querying"
    <3>1. /\ \A t \in Sockets \ {query.socket} : conn'[t] = conn[t]
          /\ query.socket \in Sockets =>
               \/ conn[query.socket].state = "none" /\ conn'[query.socket] = conn[query.socket]
               \/ conn'[query.socket].state \in {"closing", "init"}
      BY <2>1, <1>t, ApproveSocketSteps
    <3> QED BY <3>1 DEF QueryPending
  <2> QED BY <2>2 DEF QueryPending
<1>8. ASSUME conn' = conn /\ query' = query PROVE QueryPending'
  BY <1>8 DEF QueryPending
<1> QED
  BY <1>1, <1>2, <1>3, <1>4, <1>5, <1>6, <1>7, <1>8, Steps
  DEF HandleEvent, ButtonActivate, DialogTimeout, HelperStarts, HelperExits, vars

(* However connections, answers, timeouts and restarts of vncconfig        *)
(* interleave, and whatever addresses are reused, a connection waits only  *)
(* while the one question on record is about it and is being timed.        *)
THEOREM OnlyTheQuestionWaits == Spec => []QueryPending
<1>1. Init => QueryPending
  BY DEF Init, QueryPending, NoConnection
<1>2. TypeOK /\ QueryPending /\ [Next]_vars => QueryPending'
  BY PendingStep
<1> QED BY <1>1, <1>2, TypeCorrect, PTL DEF Spec

-----------------------------------------------------------------------------
(* Counting the authenticated connections tells whether there are others.  *)
LEMMA Others ==
  ASSUME Typed, NEW s \in Sockets, authenticated(conn, s)
  PROVE  authClientCount(conn) > 1 <=> \E t \in Sockets \ {s} : authenticated(conn, t)
<1> DEFINE A == Authenticated(conn)
<1>1. IsFiniteSet(A) /\ s \in A
  BY ParametersOK, FS_Subset DEF Authenticated
<1>2. IsFiniteSet(A \ {s}) /\ Cardinality(A) = Cardinality(A \ {s}) + 1
  <2>1. IsFiniteSet(A \ {s}) /\ Cardinality(A \ {s}) = Cardinality(A) - 1
    BY <1>1, FS_RemoveElement
  <2>2. Cardinality(A) \in Nat
    BY <1>1, FS_CardinalityType
  <2> QED BY <2>1, <2>2
<1>3. Cardinality(A \ {s}) \in Nat /\ (Cardinality(A \ {s}) = 0 <=> A \ {s} = {})
  BY <1>2, FS_CardinalityType, FS_EmptySet
<1>4. authClientCount(conn) > 1 <=> A \ {s} # {}
  BY <1>2, <1>3 DEF authClientCount
<1> QED BY <1>4 DEF Authenticated

(* A client comes to be served only by ClientInit.                         *)
LEMMA NormalSteps ==
  ASSUME TypeOK, [Next]_vars
  PROVE  \A s \in Sockets :
           conn'[s].state = "normal" =>
             \/ conn[s].state = "normal"
             \/ \E shared \in BOOLEAN : ClientInit(s, shared)
<1> DEFINE P == \A s \in Sockets : conn'[s].state = "normal" =>
                  \/ conn[s].state = "normal"
                  \/ \E shared \in BOOLEAN : ClientInit(s, shared)
<1>t. Typed /\ query \in Query /\ notices \in Nat /\ VerdictsTyped
      /\ answers \in Seq(AnswerType)
  BY TypeParts
<1>1. ASSUME NEW s \in Sockets, NEW kind \in Kinds, AddSocket(s, kind) PROVE P
  BY <1>1, <1>t DEF AddSocket, Typed
<1>2. ASSUME NEW s \in Sockets, Handshake(s) PROVE P
  BY <1>2, <1>t, HandshakeSteps
<1>3. ASSUME NEW s \in Sockets, NEW shared \in BOOLEAN, ClientInit(s, shared) PROVE P
  BY <1>3, <1>t, ClientInitSteps
<1>4. ASSUME NEW s \in Sockets, Close(s) PROVE P
  BY <1>4, <1>t, CloseAll DEF Close
<1>5. ASSUME NEW s \in Sockets, RemoveSocket(s) PROVE P
  BY <1>5, <1>t DEF RemoveSocket, Typed
<1>6. ASSUME ApproveConnect PROVE P
  <2>1. CASE query.id = Head(answers).id
    <3>1. /\ approveSocket(query.socket, Head(answers).accept, Head(answers).number)
          /\ Head(answers).accept \in BOOLEAN /\ Head(answers).number \in Numbers
          /\ query.socket \in Sockets \cup {NoSocket}
      <4>1. Head(answers) \in AnswerType
        BY <1>6, <1>t DEF ApproveConnect
      <4> QED BY <1>6, <1>t, <2>1, <4>1 DEF ApproveConnect, AnswerType, Query
    <3> QED BY <3>1, <1>t, ApproveSocketSteps
  <2>2. CASE query.id # Head(answers).id
    BY <1>6, <2>2 DEF ApproveConnect
  <2> QED BY <2>1, <2>2
<1>7. ASSUME QueryTimeout PROVE P
  <2>1. /\ approveSocket(query.socket, FALSE, query.number)
        /\ query.socket \in Sockets \cup {NoSocket} /\ query.number \in Numbers
    BY <1>7, <1>t DEF QueryTimeout, Query
  <2> QED BY <2>1, <1>t, ApproveSocketSteps
<1>8. ASSUME conn' = conn PROVE P
  BY <1>8
<1>q. P
  BY <1>1, <1>2, <1>3, <1>4, <1>5, <1>6, <1>7, <1>8, Steps
  DEF HandleEvent, ButtonActivate, DialogTimeout, HelperStarts, HelperExits, vars
<1> QED BY <1>q

(* With NeverShared, a client that is let in is alone: the others have     *)
(* just been closed, or there were none.                                   *)
LEMMA LetInAlone ==
  ASSUME Typed, neverShared, NEW s \in Sockets, NEW shared \in BOOLEAN,
         ClientInit(s, shared), conn'[s].state = "normal"
  PROVE  \A t \in Sockets \ {s} : conn'[t].state # "normal"
<1>1. CASE disconnectClients
  <2>1. Initialise(s, Present \ {s})
    BY <1>1 DEF ClientInit, Shares
  <2>2. \A t \in Sockets \ {s} : conn'[t] = Closed(conn, Present \ {s})[t]
    <3>1. Closed(conn, Present \ {s}) \in [Sockets -> Connection]
      BY ClosedConnections DEF Typed, Present
    <3> QED BY <2>1, <3>1 DEF Initialise
  <2>3. \A t \in Sockets \ {s} : Closed(conn, Present \ {s})[t].state # "normal"
    <3>1. Present \ {s} \in SUBSET Sockets  BY DEF Present
    <3>2. \A t \in Present \ {s} : Closed(conn, Present \ {s})[t].state = "closing"
      BY <3>1, ClosedConnections DEF Typed
    <3>3. \A t \in Sockets \ (Present \ {s}) : Closed(conn, Present \ {s})[t] = conn[t]
      BY <3>1, ClosedConnections DEF Typed
    <3> QED BY <3>2, <3>3 DEF Present
  <2> QED BY <1>1, <2>2, <2>3
<1>2. CASE ~disconnectClients
  <2>1. conn[s].state = "init" /\ authenticated(conn, s)
    BY DEF ClientInit, authenticated
  <2>2. CASE authClientCount(conn) > 1
    <3>1. closeAll({s})
      BY <1>2, <2>2 DEF ClientInit, Shares
    <3> QED BY <3>1, CloseAll
  <2>3. CASE ~(authClientCount(conn) > 1)
    <3>1. \A t \in Sockets \ {s} : ~authenticated(conn, t)
      BY <2>1, <2>3, Others
    <3>2. \A t \in Sockets \ {s} : conn[t].state # "normal"
      BY <3>1 DEF authenticated
    <3>3. \A t \in Sockets \ {s} : conn'[t] = conn[t] \/ conn'[t].state = "closing"
      BY ClientInitSteps
    <3> QED BY <3>2, <3>3
  <2> QED BY <2>2, <2>3
<1> QED BY <1>1, <1>2

(* With NeverShared no two clients are ever served together, whichever way *)
(* DisconnectClients is set.                                               *)
THEOREM OneClientAtATime == Spec => []OneAtATime
<1>1. Init => OneAtATime
  BY DEF Init, OneAtATime, Normal, NoConnection
<1>2. TypeOK /\ OneAtATime /\ [Next]_vars => OneAtATime'
  <2> SUFFICES ASSUME TypeOK, OneAtATime, [Next]_vars, neverShared,
                      NEW s \in Sockets, NEW t \in Sockets, s # t,
                      conn'[s].state = "normal", conn'[t].state = "normal"
               PROVE  FALSE
    BY DEF OneAtATime, Normal
  <2>t. Typed  BY TypeParts
  <2>1. ~(conn[s].state = "normal" /\ conn[t].state = "normal")
    BY DEF OneAtATime, Normal
  <2>2. \/ \E shared \in BOOLEAN : ClientInit(s, shared)
        \/ \E shared \in BOOLEAN : ClientInit(t, shared)
    BY <2>1, NormalSteps
  <2> QED BY <2>t, <2>2, LetInAlone
<1> QED BY <1>1, <1>2, TypeCorrect, PTL DEF Spec

-----------------------------------------------------------------------------
(* Consent.  A question, a dialog and an answer name an address, and are    *)
(* about the connection that is there or about an earlier one.  Where the   *)
(* question is about the one that is there, that one has not been let in:   *)
(* an answer that lets it in also closes the question.  No answer is about  *)
(* a later connection than the question on record for its address.          *)
About(number, s) == s \in Sockets /\ number \in 1..conn[s].number

QuestionFits ==
  /\ query.timer => query.id # NoSocket
  /\ query.id # NoSocket =>
       /\ query.socket = query.id /\ About(query.number, query.id)
       /\ query.number = conn[query.id].number
            => conn[query.id].state \in {"querying", "closing", "none"}

DialogFits ==
  dialog.mapped \/ dialog.ticking =>
    /\ About(dialog.number, dialog.id)
    /\ dialog.id = query.id => dialog.number <= query.number

AnswersRight ==
  \A i \in 1..Len(answers) :
    /\ About(answers[i].number, answers[i].id)
    /\ answers[i].id = query.id => answers[i].number <= query.number
    /\ answers[i].accept => <<answers[i].id, answers[i].number>> \in accepted

NumbersGiven ==
  \A s \in Sockets : /\ conn[s].number <= made
                     /\ conn[s].state # "none" => conn[s].number # 0

ConsentInv ==
  NumbersGiven /\ QuestionFits /\ DialogFits /\ AnswersRight /\ ExplicitlyAccepted /\ AnswersFit

(* A step of a connection that leaves the question, the dialog and the     *)
(* answers alone keeps all this, as long as it lets in nobody who needs    *)
(* consent and does not revive the connection of the question.             *)
LEMMA ConsentKept ==
  ASSUME TypeOK, ConsentInv, Kept, made' = made,
         query' = query, dialog' = dialog, answers' = answers,
         accepted' = accepted, consent' = consent, strayed' = strayed,
         \A s \in Sockets : authenticated(conn', s) /\ ~authenticated(conn, s)
                              => conn[s].kind # "queried",
         \A s \in Sockets : conn[s].state = "none" => conn'[s].state = "none",
         \A s \in Sockets : conn[s].state \in {"querying", "closing", "none"}
                              => conn'[s].state \in {"querying", "closing", "none"}
  PROVE  ConsentInv'
<1>1. NumbersGiven' /\ QuestionFits'
  BY DEF ConsentInv, NumbersGiven, QuestionFits, About, Kept
<1>2. DialogFits' /\ AnswersRight'
  BY DEF ConsentInv, DialogFits, AnswersRight, About, Kept
<1>3. ExplicitlyAccepted' /\ AnswersFit'
  BY DEF ConsentInv, ExplicitlyAccepted, AnswersFit, Kept, authenticated
<1> QED BY <1>1, <1>2, <1>3 DEF ConsentInv

(* Every step keeps ConsentInv.                                            *)
LEMMA ConsentStep == TypeOK /\ ConsentInv /\ [Next]_vars => ConsentInv'
<1> SUFFICES ASSUME TypeOK, ConsentInv, [Next]_vars PROVE ConsentInv'
  OBVIOUS
<1>t. Typed /\ query \in Query /\ notices \in Nat /\ VerdictsTyped /\ dialog \in Dialog
      /\ answers \in Seq(AnswerType) /\ made \in Numbers
  BY TypeParts
<1>n. Numbers \subseteq Nat /\ \A s \in Sockets : conn[s].number \in Nat
  BY <1>t, ParametersOK DEF Typed, Connection, Numbers
<1>a. \A i \in 1..Len(answers) : answers[i].number \in Nat
  <2>1. \A i \in 1..Len(answers) : answers[i] \in AnswerType
    BY <1>t
  <2> QED BY <2>1, <1>n DEF AnswerType
<1>1. ASSUME NEW s \in Sockets, NEW kind \in Kinds, AddSocket(s, kind) PROVE ConsentInv'
  <2> DEFINE new == [state |-> "version", kind |-> kind, number |-> made + 1]
  <2>1. /\ conn[s].state = "none" /\ conn' = [conn EXCEPT ![s] = new]
        /\ made' = made + 1 /\ consent' = [consent EXCEPT ![s] = 0]
        /\ UNCHANGED <<query, dialog, answers, accepted, strayed>>
    BY <1>1 DEF AddSocket, asking
  <2>2. made \in Nat /\ conn[s].number <= made
    BY <1>t, <1>n DEF ConsentInv, NumbersGiven
  <2>3. /\ conn'[s] = new
        /\ \A t \in Sockets \ {s} : conn'[t] = conn[t] /\ consent'[t] = consent[t]
    BY <2>1, <1>t DEF Typed, VerdictsTyped
  <2>4. \A t \in Sockets : conn'[t].number \in Nat /\ conn[t].number <= conn'[t].number
    BY <2>2, <2>3, <1>n
  <2>5. \A t \in Sockets, m \in Nat : About(m, t) => About(m, t)'
    BY <2>4, <1>n DEF About
  <2>6. NumbersGiven' /\ ExplicitlyAccepted' /\ AnswersFit'
    BY <2>1, <2>2, <2>3, <1>n
    DEF ConsentInv, NumbersGiven, ExplicitlyAccepted, AnswersFit, authenticated
  <2>7. QuestionFits'
    <3>1. query.number \in Nat  BY <1>t, <1>n DEF Query
    <3>2. query.id = s => query.number # conn'[s].number
      BY <2>2, <2>3, <1>n, <3>1, ParametersOK DEF ConsentInv, QuestionFits, About
    <3> QED BY <2>1, <2>3, <2>5, <3>1, <3>2 DEF ConsentInv, QuestionFits, About
  <2>8. DialogFits'
    BY <2>1, <2>5, <1>t, <1>n DEF ConsentInv, DialogFits, Dialog, About
  <2>9. AnswersRight'
    BY <2>1, <2>5, <1>a DEF ConsentInv, AnswersRight, About
  <2> QED BY <2>6, <2>7, <2>8, <2>9 DEF ConsentInv
<1>2. ASSUME NEW s \in Sockets, Handshake(s) PROVE ConsentInv'
  <2>1. UNCHANGED <<made, dialog, answers, accepted, consent, strayed>>
    BY <1>2 DEF Handshake, verdicts
  <2>2. /\ Kept /\ \A t \in Sockets \ {s} : conn'[t] = conn[t]
        /\ conn[s].state \in {"version", "type", "security"}
        /\ conn'[s].state \in {"type", "security", "querying", "init", "closing"}
        /\ conn'[s].state = "init" => conn[s].kind # "queried"
    BY <1>2, <1>t, HandshakeSteps
  <2>3. CASE query' = query
    BY <2>1, <2>2, <2>3, ConsentKept DEF authenticated
  <2>4. CASE /\ conn'[s].state = "querying"
             /\ query' = [id |-> s, socket |-> s, timer |-> TRUE,
                          number |-> conn[s].number]
    <3>1. \A m \in Nat, t \in Sockets : About(m, t)' <=> About(m, t)
      BY <2>2 DEF About, Kept
    <3>2. About(conn[s].number, s)
      BY <2>2, <1>n DEF ConsentInv, NumbersGiven, About
    <3>3. NumbersGiven' /\ QuestionFits'
      BY <2>1, <2>2, <2>4, <3>2, ParametersOK
      DEF ConsentInv, NumbersGiven, QuestionFits, About, Kept
    <3>4. DialogFits'
      <4>1. dialog.number \in Nat  BY <1>t, <1>n DEF Dialog
      <4> QED BY <2>1, <2>4, <3>1, <4>1, <1>n DEF ConsentInv, DialogFits, About
    <3>5. AnswersRight'
      BY <2>1, <2>4, <3>1, <1>a, <1>n DEF ConsentInv, AnswersRight, About
    <3>6. ExplicitlyAccepted' /\ AnswersFit'
      BY <2>1, <2>2, <2>4 DEF ConsentInv, ExplicitlyAccepted, AnswersFit, Kept, authenticated
    <3> QED BY <3>3, <3>4, <3>5, <3>6 DEF ConsentInv
  <2> QED BY <1>2, <1>t, <2>3, <2>4, HandshakeSteps
<1>3. ASSUME NEW s \in Sockets, NEW shared \in BOOLEAN, ClientInit(s, shared) PROVE ConsentInv'
  <2>1. UNCHANGED <<made, query, dialog, answers, accepted, consent, strayed>>
    BY <1>3 DEF ClientInit, asking, verdicts
  <2>2. /\ Kept /\ conn[s].state = "init"
        /\ conn'[s].state \in {"normal", "closing"}
        /\ \A t \in Sockets \ {s} :
             \/ conn'[t] = conn[t]
             \/ conn'[t].state = "closing" /\ conn[t].state # "none"
    <3>1. /\ Kept /\ conn[s].state = "init"
          /\ conn'[s].state \in {"normal", "closing"}
          /\ \A t \in Sockets \ {s} : conn'[t] = conn[t] \/ conn'[t].state = "closing"
      BY <1>3, <1>t, ClientInitSteps
    <3>2. \A t \in Sockets \ {s} : conn[t].state = "none" => conn'[t] = conn[t]
      BY <1>3, <1>t, PresentOnly
    <3> QED BY <3>1, <3>2
  <2>3. \A t \in Sockets : authenticated(conn', t) => authenticated(conn, t)
    BY <2>2 DEF authenticated
  <2>4. \A t \in Sockets : conn[t].state = "none" => conn'[t].state = "none"
    BY <2>2
  <2>5. \A t \in Sockets : conn[t].state \in {"querying", "closing", "none"}
                             => conn'[t].state \in {"querying", "closing", "none"}
    BY <2>2
  <2> QED BY <2>1, <2>2, <2>3, <2>4, <2>5, ConsentKept
<1>4. ASSUME NEW s \in Sockets, Close(s) PROVE ConsentInv'
  <2>1. UNCHANGED <<made, query, dialog, answers, accepted, consent, strayed>>
    BY <1>4 DEF Close, asking, verdicts
  <2>2. /\ Kept /\ conn'[s].state = "closing" /\ conn[s].state # "none"
        /\ \A t \in Sockets \ {s} : conn'[t] = conn[t]
    BY <1>4, <1>t, CloseAll DEF Close
  <2> QED BY <2>1, <2>2, ConsentKept DEF authenticated
<1>5. ASSUME NEW s \in Sockets, RemoveSocket(s) PROVE ConsentInv'
  <2>1. UNCHANGED <<made, query, dialog, answers, accepted, consent, strayed>>
    BY <1>5 DEF RemoveSocket, asking, verdicts
  <2>2. /\ Kept /\ conn'[s].state = "none" /\ conn[s].state = "closing"
        /\ \A t \in Sockets \ {s} : conn'[t] = conn[t]
    BY <1>5, <1>t DEF RemoveSocket, Typed, Connection, Kept
  <2> QED BY <2>1, <2>2, ConsentKept DEF authenticated
(* An answer to the question on record, or its timeout, about the          *)
(* connection of that number or an earlier one at its address.             *)
<1>v. ASSUME NEW accept \in BOOLEAN, NEW about \in Numbers, query.id # NoSocket,
             approveSocket(query.socket, accept, about),
             about \in 1..query.number,
             accept => <<query.id, about>> \in accepted, accepted' = accepted,
             made' = made
      PROVE  /\ Kept /\ NumbersGiven' /\ ExplicitlyAccepted' /\ AnswersFit'
             /\ \A m \in Nat, t \in Sockets : About(m, t)' <=> About(m, t)
             /\ conn[query.id].state \in {"closing", "none"} \/ ~accept
                  => conn'[query.id].state \in {"closing", "none"}
  <2> DEFINE q == query.socket
  <2>1. q \in Sockets /\ q = query.id /\ query.number \in 1..conn[q].number
    BY <1>v DEF ConsentInv, QuestionFits, About
  <2>2. /\ Kept
        /\ \A t \in Sockets \ {q} : conn'[t] = conn[t] /\ consent'[t] = consent[t]
        /\ \/ conn[q].state = "none" /\ conn'[q] = conn[q]
           \/ conn'[q].state = "closing" /\ conn[q].state # "none"
           \/ /\ accept /\ conn[q].state = "querying" /\ conn'[q].state = "init"
              /\ consent'[q] = about
        /\ \/ strayed' = strayed
           \/ /\ conn[q].state \notin {"none", "querying", "closing"}
              /\ strayed' = strayed \cup {<<about, conn[q].number>>}
    <3>1. q \in Present \/ conn'[q] = conn[q]
      BY <1>v, <2>1 DEF approveSocket
    <3> QED BY <1>v, <1>t, <2>1, <3>1, ApproveSocketSteps DEF Present
  <2> HIDE DEF q
  <2>3. about \in 1..conn[q].number
    BY <1>v, <2>1, <1>n
  <2>4. conn[q].state \notin {"none", "querying", "closing"} => about < conn[q].number
    <3>1. conn[q].state \notin {"none", "querying", "closing"}
            => query.number # conn[q].number
      BY <1>v, <2>1 DEF ConsentInv, QuestionFits
    <3> QED BY <1>v, <2>1, <3>1, <1>n
  <2>5. NumbersGiven' /\ \A m \in Nat, t \in Sockets : About(m, t)' <=> About(m, t)
    BY <1>v, <2>1, <2>2 DEF ConsentInv, NumbersGiven, About, Kept
  <2>6. ExplicitlyAccepted'
    BY <1>v, <2>1, <2>2, <2>3 DEF ConsentInv, ExplicitlyAccepted, Kept, authenticated
  <2>7. AnswersFit'
    BY <2>2, <2>4 DEF ConsentInv, AnswersFit
  <2> QED BY <2>1, <2>2, <2>5, <2>6, <2>7
<1>6. ASSUME ApproveConnect PROVE ConsentInv'
  <2>1. /\ Len(answers) > 0 /\ Head(answers) = answers[1] /\ Head(answers) \in AnswerType
        /\ answers' = Tail(answers) /\ UNCHANGED <<made, dialog, accepted>>
    BY <1>6, <1>t DEF ApproveConnect
  <2>2. \A i \in 1..Len(answers') : i + 1 \in 1..Len(answers) /\ answers'[i] = answers[i + 1]
    BY <2>1, <1>t
  <2>3. /\ About(Head(answers).number, Head(answers).id) /\ Head(answers).id # NoSocket
        /\ Head(answers).id = query.id => Head(answers).number <= query.number
        /\ Head(answers).accept => <<Head(answers).id, Head(answers).number>> \in accepted
        /\ Head(answers).accept \in BOOLEAN /\ Head(answers).number \in Numbers
    BY <2>1, <1>t, ParametersOK DEF ConsentInv, AnswersRight, AnswerType, About
  <2>4. CASE query.id = Head(answers).id
    <3>1. /\ approveSocket(query.socket, Head(answers).accept, Head(answers).number)
          /\ query' = [query EXCEPT !.id = NoSocket, !.timer = FALSE]
      BY <1>6, <2>4 DEF ApproveConnect
    <3>2. Head(answers).number \in 1..query.number
      BY <2>3, <2>4, <1>t, <1>n DEF About, Query
    <3>3. /\ Kept /\ NumbersGiven' /\ ExplicitlyAccepted' /\ AnswersFit'
          /\ \A m \in Nat, t \in Sockets : About(m, t)' <=> About(m, t)
      BY <1>v, <2>1, <2>3, <2>4, <3>1, <3>2
    <3>4. query'.id = NoSocket /\ query'.timer = FALSE
      BY <3>1, <1>t DEF Query
    <3>5. QuestionFits'
      BY <3>4 DEF QuestionFits
    <3>6. DialogFits'
      <4>1. dialog.number \in Nat  BY <1>t, <1>n DEF Dialog
      <4> QED BY <2>1, <3>3, <3>4, <4>1, ParametersOK DEF ConsentInv, DialogFits, About
    <3>7. AnswersRight'
      <4>1. ASSUME NEW i \in 1..Len(answers')
            PROVE  /\ answers'[i].id \in Sockets
                   /\ answers'[i].number \in 1..conn'[answers'[i].id].number
                   /\ answers'[i].accept => <<answers'[i].id, answers'[i].number>> \in accepted'
        <5>1. /\ i + 1 \in 1..Len(answers) /\ answers'[i] = answers[i + 1]
              /\ answers'[i].number \in Nat
          BY <2>2, <1>a
        <5>2. /\ About(answers'[i].number, answers'[i].id)
              /\ answers'[i].accept => <<answers'[i].id, answers'[i].number>> \in accepted'
          BY <5>1, <2>1 DEF ConsentInv, AnswersRight
        <5>3. /\ answers'[i].id \in Sockets
              /\ answers'[i].number \in 1..conn'[answers'[i].id].number
          BY <5>1, <5>2, <3>3 DEF About
        <5> QED BY <5>2, <5>3
      <4> QED BY <4>1, <3>4, ParametersOK DEF AnswersRight, About
    <3> QED BY <3>3, <3>5, <3>6, <3>7 DEF ConsentInv
  <2>5. CASE query.id # Head(answers).id
    <3>1. UNCHANGED <<conn, query, consent, strayed>>
      BY <1>6, <2>5 DEF ApproveConnect, verdicts
    <3>2. AnswersRight'
      BY <2>1, <2>2, <3>1 DEF ConsentInv, AnswersRight, About
    <3>3. NumbersGiven' /\ QuestionFits' /\ DialogFits' /\ ExplicitlyAccepted' /\ AnswersFit'
      BY <2>1, <3>1 DEF ConsentInv, NumbersGiven, QuestionFits, DialogFits, About,
         ExplicitlyAccepted, AnswersFit, authenticated
    <3> QED BY <3>2, <3>3 DEF ConsentInv
  <2> QED BY <2>4, <2>5
<1>7. ASSUME QueryTimeout PROVE ConsentInv'
  <2>1. /\ query.id # NoSocket /\ query.socket = query.id
        /\ query.number \in 1..conn[query.id].number /\ query.id \in Sockets
    BY <1>7 DEF QueryTimeout, ConsentInv, QuestionFits, About
  <2>2. /\ approveSocket(query.socket, FALSE, query.number)
        /\ query' = [query EXCEPT !.timer = FALSE]
        /\ UNCHANGED <<made, dialog, answers, accepted>>
    BY <1>7 DEF QueryTimeout, asking
  <2>3. query.number \in Numbers /\ query.number \in 1..query.number
    BY <2>1, <1>t, <1>n DEF Query
  <2>4. /\ Kept /\ NumbersGiven' /\ ExplicitlyAccepted' /\ AnswersFit'
        /\ \A m \in Nat, t \in Sockets : About(m, t)' <=> About(m, t)
        /\ conn'[query.id].state \in {"closing", "none"}
    BY <1>v, <2>1, <2>2, <2>3
  <2>5. /\ query'.id = query.id /\ query'.socket = query.socket
        /\ query'.number = query.number /\ query'.timer = FALSE
    BY <2>2, <1>t DEF Query
  <2>6. QuestionFits'
    BY <2>1, <2>3, <2>4, <2>5, <1>n DEF ConsentInv, QuestionFits, About
  <2>7. DialogFits'
    <3>1. dialog.number \in Nat  BY <1>t, <1>n DEF Dialog
    <3> QED BY <2>2, <2>4, <2>5, <3>1 DEF ConsentInv, DialogFits, About
  <2>8. AnswersRight'
    BY <2>2, <2>4, <2>5, <1>a DEF ConsentInv, AnswersRight, About
  <2> QED BY <2>4, <2>6, <2>7, <2>8 DEF ConsentInv
<1> USE DEF About
<1>8. ASSUME HandleEvent PROVE ConsentInv'
  <2>1. UNCHANGED <<conn, made, query, answers, accepted, consent, strayed>>
    BY <1>8 DEF HandleEvent, verdicts
  <2>2. DialogFits'
    BY <1>8, <2>1, <1>t, <1>n DEF HandleEvent, NoDialog, ConsentInv, QuestionFits, DialogFits, Query
  <2> QED BY <2>1, <2>2 DEF ConsentInv, NumbersGiven, QuestionFits, AnswersRight,
             ExplicitlyAccepted, AnswersFit, authenticated
<1>9. ASSUME NEW accept \in BOOLEAN, ButtonActivate(accept) PROVE ConsentInv'
  <2>1. /\ dialog.mapped /\ UNCHANGED <<conn, made, query, consent, strayed>>
        /\ answers' = Append(answers, [id |-> dialog.id, number |-> dialog.number,
                                       accept |-> accept])
        /\ accepted' = IF accept THEN accepted \cup {<<dialog.id, dialog.number>>}
                       ELSE accepted
    BY <1>9 DEF ButtonActivate, Answer, verdicts
  <2>2. dialog'.id = dialog.id /\ dialog'.number = dialog.number
    BY <1>9, TypeParts DEF ButtonActivate, Dialog
  <2>3. AnswersRight'
    BY <2>1, <1>t DEF ConsentInv, DialogFits, AnswersRight
  <2> QED BY <2>1, <2>2, <2>3 DEF ConsentInv, NumbersGiven, QuestionFits, DialogFits,
             ExplicitlyAccepted, AnswersFit, authenticated
<1>10. ASSUME DialogTimeout PROVE ConsentInv'
  <2>1. /\ dialog.ticking /\ UNCHANGED <<conn, made, query, accepted, consent, strayed>>
        /\ answers' = Append(answers, [id |-> dialog.id, number |-> dialog.number,
                                       accept |-> FALSE])
    BY <1>10 DEF DialogTimeout, Answer, verdicts
  <2>2. dialog'.id = dialog.id /\ dialog'.number = dialog.number
    BY <1>10, TypeParts DEF DialogTimeout, Dialog
  <2>3. AnswersRight'
    BY <2>1, <1>t DEF ConsentInv, DialogFits, AnswersRight
  <2> QED BY <2>1, <2>2, <2>3 DEF ConsentInv, NumbersGiven, QuestionFits, DialogFits,
             ExplicitlyAccepted, AnswersFit, authenticated
<1>11. ASSUME UNCHANGED <<conn, made, query, answers, accepted, consent, strayed>>,
              dialog' = dialog \/ dialog' = NoDialog
       PROVE  ConsentInv'
  <2>1. DialogFits'
    BY <1>11 DEF ConsentInv, DialogFits, NoDialog
  <2> QED BY <1>11, <2>1 DEF ConsentInv, NumbersGiven, QuestionFits, AnswersRight,
             ExplicitlyAccepted, AnswersFit, authenticated
<1> QED
  BY <1>1, <1>2, <1>3, <1>4, <1>5, <1>6, <1>7, <1>8, <1>9, <1>10, <1>11, Steps
  DEF HelperStarts, HelperExits, vars, verdicts

(* ConsentInv is an invariant.                                             *)
LEMMA ConsentInvariant == Spec => []ConsentInv
<1>1. Init => ConsentInv
  BY ParametersOK DEF Init, ConsentInv, NumbersGiven, QuestionFits, DialogFits, NoDialog,
     AnswersRight, ExplicitlyAccepted, AnswersFit, authenticated, NoConnection
<1>2. TypeOK /\ ConsentInv /\ [Next]_vars => ConsentInv'
  BY ConsentStep
<1> QED BY <1>1, <1>2, TypeCorrect, PTL DEF Spec

(* A connection that needs the consent of the user of the desktop gets in  *)
(* only by an answer with which the user accepted that connection, or an    *)
(* earlier one whose Socket had the same address.                          *)
THEOREM ConsentGiven == Spec => []ExplicitlyAccepted
<1>1. ConsentInv => ExplicitlyAccepted
  BY DEF ConsentInv
<1> QED BY <1>1, ConsentInvariant, PTL

(* XserverDesktop never has approveConnection() called for the connection  *)
(* of its question once that has stopped waiting, unless it is closing     *)
(* anyway: whoever is hit by mistake came later, to the same address.      *)
THEOREM NoStrayAnswer == Spec => []AnswersFit
<1>1. ConsentInv => AnswersFit
  BY DEF ConsentInv
<1> QED BY <1>1, ConsentInvariant, PTL
-----------------------------------------------------------------------------
(* The list of sessions.                                                   *)

(* A list that has just been refreshed is right.                           *)
LEMMA ListRefreshed ==
  ASSUME conn' \in [Sockets -> Connection], sessions' = updateSessionUsersList(conn')
  PROVE  SessionsListed'
<1> SUFFICES ASSUME Normal' # {}
             PROVE  /\ {conn'[s].number : s \in Normal'} \subseteq sessions'
                    /\ sessions' \subseteq {conn'[s].number : s \in Authenticated(conn')}
  BY DEF SessionsListed
<1>1. Normal' \subseteq Authenticated(conn')
  BY DEF Normal, Authenticated, authenticated
<1>2. sessions' = {conn'[s].number : s \in Authenticated(conn')}
  BY <1>1 DEF updateSessionUsersList
<1> QED BY <1>1, <1>2

(* A list that is left as it is stays right while no client comes to be    *)
(* served and none that is authenticated goes.                             *)
LEMMA ListKept ==
  ASSUME SessionsListed, sessions' = sessions,
         \A s \in Sockets : conn'[s].state = "normal" => conn[s].state = "normal",
         \A s \in Sockets : authenticated(conn, s) =>
           authenticated(conn', s) /\ conn'[s].number = conn[s].number
  PROVE  SessionsListed'
<1> SUFFICES ASSUME Normal' # {}
             PROVE  /\ {conn'[s].number : s \in Normal'} \subseteq sessions
                    /\ sessions \subseteq {conn'[s].number : s \in Authenticated(conn')}
  BY DEF SessionsListed
<1>1. Normal' \subseteq Normal /\ \A s \in Normal' : conn'[s].number = conn[s].number
  BY DEF Normal, authenticated
<1>2. /\ {conn[s].number : s \in Normal} \subseteq sessions
      /\ sessions \subseteq {conn[s].number : s \in Authenticated(conn)}
  BY <1>1 DEF SessionsListed
<1>3. {conn'[s].number : s \in Normal'} \subseteq sessions
  BY <1>1, <1>2
<1>4. {conn[s].number : s \in Authenticated(conn)}
        \subseteq {conn'[s].number : s \in Authenticated(conn')}
  BY DEF Authenticated
<1> QED BY <1>2, <1>3, <1>4

(* Closing connections refreshes the list if it matters.                   *)
LEMMA ListClosed ==
  ASSUME Typed, SessionsListed, NEW ss \in SUBSET Sockets, closeAll(ss)
  PROVE  SessionsListed'
<1>1. CASE ss \cap Authenticated(conn) # {}
  BY <1>1, CloseAll, ListRefreshed DEF closeAll, Typed
<1>2. CASE ss \cap Authenticated(conn) = {}
  <2>1. sessions' = sessions  BY <1>2 DEF closeAll
  <2>2. \A s \in Sockets : conn'[s].state = "normal" => conn[s].state = "normal"
    BY CloseAll
  <2>3. \A s \in Sockets : authenticated(conn, s) => conn'[s] = conn[s]
    BY <1>2, CloseAll DEF Authenticated
  <2> QED BY <2>1, <2>2, <2>3, ListKept DEF authenticated
<1> QED BY <1>1, <1>2

LEMMA ListApproved ==
  ASSUME Typed, SessionsListed, NEW s \in Sockets, ~authenticated(conn, s),
         NEW accept \in BOOLEAN, approveConnection(s, accept)
  PROVE  SessionsListed'
<1>1. CASE accept
  <2>1. sessions' = sessions  BY <1>1 DEF approveConnection
  <2> QED BY <1>1, <2>1, Approve, ListKept DEF authenticated
<1>2. CASE ~accept
  BY <1>2, ListClosed DEF approveConnection
<1> QED BY <1>1, <1>2

LEMMA ListAnswered ==
  ASSUME Typed, SessionsListed, NEW q \in Sockets \cup {NoSocket},
         NEW accept \in BOOLEAN, NEW about, approveSocket(q, accept, about)
  PROVE  SessionsListed'
<1>1. CASE q = NoSocket \/ q \notin Present
  BY <1>1, ListKept DEF approveSocket, authenticated
<1>2. CASE q \in Present /\ q # NoSocket /\ conn[q].state = "querying"
  BY <1>2, ListApproved DEF approveSocket, Present, authenticated
<1>3. CASE q \in Present /\ q # NoSocket /\ conn[q].state # "querying"
  BY <1>3, ListClosed DEF approveSocket, Present
<1> QED BY <1>1, <1>2, <1>3

(* A client that comes to be served has the list refreshed.                *)
LEMMA ListInitialised ==
  ASSUME Typed, NEW s \in Sockets, NEW others, Initialise(s, others), others \subseteq Sockets
  PROVE  SessionsListed'
<1>1. conn' \in [Sockets -> Connection]
  BY ClosedConnections DEF Initialise, Typed, Connection
<1> QED BY <1>1, ListRefreshed DEF Initialise

LEMMA ListStep == TypeOK /\ SessionsListed /\ [Next]_vars => SessionsListed'
<1> SUFFICES ASSUME TypeOK, SessionsListed, [Next]_vars PROVE SessionsListed'
  OBVIOUS
<1>t. Typed /\ query \in Query /\ notices \in Nat /\ VerdictsTyped
      /\ answers \in Seq(AnswerType)
  BY TypeParts
<1>1. ASSUME NEW s \in Sockets, NEW kind \in Kinds, AddSocket(s, kind) PROVE SessionsListed'
  <2>1. sessions' = sessions /\ conn[s].state = "none" /\ conn'[s].state = "version"
        /\ \A t \in Sockets \ {s} : conn'[t] = conn[t]
    BY <1>1, <1>t DEF AddSocket, Typed
  <2> QED BY <2>1, ListKept DEF authenticated
<1>2. ASSUME NEW s \in Sockets, Handshake(s) PROVE SessionsListed'
  <2>1. ~authenticated(conn, s)
    BY <1>2 DEF Handshake, authenticated
  <2>2. CASE \E accept \in BOOLEAN : approveConnection(s, accept)
    BY <1>t, <2>1, <2>2, ListApproved
  <2>3. CASE sessions' = sessions /\ conn'[s].state \in {"type", "security", "querying"}
    BY <1>2, <1>t, <2>1, <2>3, HandshakeSteps, ListKept DEF authenticated
  <2> QED
    BY <1>2, <1>t, <2>2, <2>3
    DEF Handshake, SecurityMsg, Authenticate, queryConnection, Typed, Connection
<1>3. ASSUME NEW s \in Sockets, NEW shared \in BOOLEAN, ClientInit(s, shared) PROVE SessionsListed'
  BY <1>3, <1>t, ListInitialised, ListClosed DEF ClientInit, Present
<1>4. ASSUME NEW s \in Sockets, Close(s) PROVE SessionsListed'
  BY <1>4, <1>t, ListClosed DEF Close
<1>5. ASSUME NEW s \in Sockets, RemoveSocket(s) PROVE SessionsListed'
  <2>1. sessions' = sessions /\ conn[s].state = "closing" /\ conn'[s].state = "none"
        /\ \A t \in Sockets \ {s} : conn'[t] = conn[t]
    BY <1>5, <1>t DEF RemoveSocket, Typed, Connection
  <2> QED BY <2>1, ListKept DEF authenticated
<1>6. ASSUME ApproveConnect PROVE SessionsListed'
  <2>1. CASE query.id = Head(answers).id
    <3>1. Head(answers) \in AnswerType
      BY <1>6, <1>t DEF ApproveConnect
    <3>2. /\ approveSocket(query.socket, Head(answers).accept, Head(answers).number)
          /\ Head(answers).accept \in BOOLEAN /\ Head(answers).number \in Numbers
          /\ query.socket \in Sockets \cup {NoSocket}
      BY <1>6, <1>t, <2>1, <3>1 DEF ApproveConnect, AnswerType, Query
    <3> QED BY <1>t, <3>2, ListAnswered
  <2>2. CASE query.id # Head(answers).id
    BY <1>6, <2>2, ListKept DEF ApproveConnect, authenticated
  <2> QED BY <2>1, <2>2
<1>7. ASSUME QueryTimeout PROVE SessionsListed'
  BY <1>7, <1>t, ListAnswered DEF QueryTimeout, Query
<1>8. ASSUME conn' = conn /\ sessions' = sessions PROVE SessionsListed'
  BY <1>8, ListKept DEF authenticated
<1> QED
  BY <1>1, <1>2, <1>3, <1>4, <1>5, <1>6, <1>7, <1>8, Steps
  DEF HandleEvent, ButtonActivate, DialogTimeout, HelperStarts, HelperExits, vars

(* updateSessionUsersList() drops an empty list, and getSessionUsers()     *)
(* counts clients that are not served yet; nevertheless, while anybody is  *)
(* served the API shows everybody who is and nobody who has left.          *)
THEOREM SessionListRight == Spec => []SessionsListed
<1>1. Init => SessionsListed
  BY DEF Init, SessionsListed, Normal, NoConnection
<1>2. TypeOK /\ SessionsListed /\ [Next]_vars => SessionsListed'
  BY ListStep
<1> QED BY <1>1, <1>2, TypeCorrect, PTL DEF Spec
=============================================================================
