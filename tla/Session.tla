------------------------------ MODULE Session ------------------------------
(***************************************************************************)
(* The life of a connection to VNCServerST: the RFB handshake, the question *)
(* put to the user of the desktop (QueryConnect), exclusive and shared      *)
(* sessions, the list of sessions kept for the API, and the end.            *)
(*                                                                         *)
(* The question involves three parties that share no lock and no memory.    *)
(* VNCServerST holds the connection in RFBSTATE_QUERYING; XserverDesktop    *)
(* remembers one question (queryConnectId, queryConnectSocket and a timer); *)
(* vncconfig, an X client, is notified, fetches the question, shows a       *)
(* dialog with a timeout of its own and sends the answer as an X request.   *)
(* A connection is known to all of them by the address of its Socket        *)
(* object, which the allocator may hand out again.                          *)
(***************************************************************************)
EXTENDS Naturals, Sequences, FiniteSets

CONSTANTS
  Sockets,            \* addresses of Socket objects
  NoSocket,           \* a null pointer
  neverShared,        \* the server's parameters
  alwaysShared,
  disconnectClients,
  Kinds,              \* "plain" needs no consent, "queried" does, "reverse"
                      \* was made by the server
  Reuse,              \* whether the address of a deleted Socket is used again
  MaxConnections,     \* bound on the connections made
  MaxAnswers          \* bound on the answers under way

ASSUME ParametersOK ==
  /\ NoSocket \notin Sockets /\ IsFiniteSet(Sockets)
  /\ neverShared \in BOOLEAN /\ alwaysShared \in BOOLEAN
  /\ disconnectClients \in BOOLEAN /\ Reuse \in BOOLEAN
  /\ Kinds \subseteq {"plain", "queried", "reverse"}
  /\ MaxConnections \in Nat /\ MaxAnswers \in Nat

VARIABLES
  conn,       \* the connections, by the address of their Socket
  made,       \* how many connections there have been
  query,      \* XserverDesktop: the question and its timer
  sessions,   \* GetAPIMessager: the sessions of the list
  helper,     \* vncconfig runs
  notices,    \* how many QueryConnectNotify events are under way to vncconfig
  dialog,     \* vncconfig's dialog
  answers,    \* ApproveConnect requests under way to the server
  accepted,   \* ghost: the acceptances of the user of the desktop: address
              \* and number of the connection that was asked about
  consent,    \* ghost: the number of the connection that the answer was
              \* about which each connection has been given, or 0
  strayed     \* ghost: the pairs of a connection that an answer or a timeout
              \* was about and another, not waiting, that it has closed

vars == <<conn, made, query, sessions, helper, notices, dialog, answers,
          accepted, consent, strayed>>

verdicts == <<consent, strayed>>

asking == <<helper, notices, dialog, answers, accepted>>

Numbers == 0..MaxConnections

(* state is the RFBSTATE, "none" when the Socket does not exist, and       *)
(* number tells apart connections that have lived at one address.          *)
Connection ==
  [ state : {"none", "version", "type", "security", "querying", "init",
             "normal", "closing"},
    kind : Kinds \cup {"plain"},
    number : Numbers ]

NoConnection == [state |-> "none", kind |-> "plain", number |-> 0]

(* The number a question is about is a ghost.                              *)
Query == [ id : Sockets \cup {NoSocket}, socket : Sockets \cup {NoSocket},
           timer : BOOLEAN, number : Numbers ]

(* A dialog can be answered while it is mapped and times out while it is   *)
(* ticking; deleted, it does neither.                                      *)
Dialog == [ id : Sockets \cup {NoSocket}, number : Numbers,
            mapped : BOOLEAN, ticking : BOOLEAN ]

NoDialog == [id |-> NoSocket, number |-> 0, mapped |-> FALSE, ticking |-> FALSE]

authenticated(cs, s) == cs[s].state \in {"init", "normal"}

Authenticated(cs) == {s \in Sockets : authenticated(cs, s)}

authClientCount(cs) == Cardinality(Authenticated(cs))

(* getSessionUsers() and updateSessionUsersList(): an empty list is not    *)
(* passed on.                                                              *)
updateSessionUsersList(cs) ==
  IF Authenticated(cs) = {} THEN sessions
  ELSE {cs[s].number : s \in Authenticated(cs)}

(* The connections of the sockets in ss are closed; the list is brought up *)
(* to date for each one that was authenticated.                            *)
Closed(cs, ss) == [s \in Sockets |-> IF s \in ss
                                     THEN [cs[s] EXCEPT !.state = "closing"]
                                     ELSE cs[s]]

(* Seeded fault: the list of sessions is forgotten.                        *)
closeAllUnlisted(ss) == conn' = Closed(conn, ss) /\ UNCHANGED sessions

closeAll(ss) ==
  /\ conn' = Closed(conn, ss)
  /\ sessions' = IF ss \cap Authenticated(conn) # {}
                 THEN updateSessionUsersList(conn') ELSE sessions

-----------------------------------------------------------------------------
(* The handshake                                                           *)

AddSocket(s, kind) ==
  /\ conn[s].state = "none"
  /\ made < MaxConnections
  /\ Reuse \/ conn[s].number = 0
  /\ made' = made + 1
  /\ consent' = [consent EXCEPT ![s] = 0]
  /\ conn' = [conn EXCEPT ![s] =
                [state |-> "version", kind |-> kind, number |-> made + 1]]
  /\ UNCHANGED <<query, sessions, asking, strayed>>

(* SConnection::approveConnection() from within the connection's own       *)
(* processing, in RFBSTATE_QUERYING.                                       *)
approveConnection(s, accept) ==
  IF accept
  THEN conn' = [conn EXCEPT ![s].state = "init"] /\ UNCHANGED sessions
  ELSE closeAll({s})

(* Seeded fault: a question is put while another is open.                  *)
queryConnectionBusy(s) ==
  IF ~helper
  THEN approveConnection(s, FALSE) /\ UNCHANGED <<query, notices>>
  ELSE /\ conn' = [conn EXCEPT ![s].state = "querying"]
       /\ query' = [id |-> s, socket |-> s, timer |-> TRUE,
                    number |-> conn[s].number]
       /\ notices' = notices + 1
       /\ UNCHANGED sessions

(* Seeded fault: the timer is not started.                                 *)
queryConnectionUntimed(s) ==
  IF query.timer \/ ~helper
  THEN approveConnection(s, FALSE) /\ UNCHANGED <<query, notices>>
  ELSE /\ conn' = [conn EXCEPT ![s].state = "querying"]
       /\ query' = [query EXCEPT !.id = s, !.socket = s, !.number = conn[s].number]
       /\ notices' = notices + 1
       /\ UNCHANGED sessions

(* XserverDesktop::queryConnection(): one question at a time, and only     *)
(* while vncconfig listens.                                                *)
queryConnection(s) ==
  IF query.timer \/ ~helper
  THEN approveConnection(s, FALSE) /\ UNCHANGED <<query, notices>>
  ELSE /\ conn' = [conn EXCEPT ![s].state = "querying"]
       /\ query' = [id |-> s, socket |-> s, timer |-> TRUE,
                    number |-> conn[s].number]
       /\ notices' = notices + 1
       /\ UNCHANGED sessions

(* The security type is satisfied: VNCSConnectionST::queryConnection().    *)
Authenticate(s) ==
  IF neverShared /\ ~disconnectClients /\ authClientCount(conn) > 0
  THEN approveConnection(s, FALSE) /\ UNCHANGED <<query, notices>>
  ELSE IF conn[s].kind # "queried"
  THEN approveConnection(s, TRUE) /\ UNCHANGED <<query, notices>>
  ELSE queryConnection(s)

(* processSecurityMsg(): another message is needed, or this was the last.  *)
SecurityMsg(s) ==
  \/ /\ conn' = [conn EXCEPT ![s].state = "security"]
     /\ UNCHANGED <<query, sessions, notices>>
  \/ Authenticate(s)

(* processMsg() during the handshake: a client of version 3.3 is not asked *)
(* for a security type, and the first security message is processed at     *)
(* once.                                                                   *)
Handshake(s) ==
  /\ \/ conn[s].state \in {"version", "type", "security"} /\ SecurityMsg(s)
     \/ /\ conn[s].state = "version"
        /\ conn' = [conn EXCEPT ![s].state = "type"]
        /\ UNCHANGED <<query, sessions, notices>>
  /\ UNCHANGED <<made, helper, dialog, answers, accepted, verdicts>>

(* clientInit(): every connection has AccessNonShared.                     *)
Shares(s, shared) ==
  (shared \/ alwaysShared \/ conn[s].kind = "reverse") /\ ~neverShared

Initialise(s, others) ==
  LET cs == [Closed(conn, others) EXCEPT ![s].state = "normal"]
  IN conn' = cs /\ sessions' = updateSessionUsersList(cs)

Present == {s \in Sockets : conn[s].state # "none"}

(* Seeded fault: the check made when the connection authenticated is       *)
(* relied upon.                                                            *)
ClientInitUnchecked(s, shared) ==
  /\ conn[s].state = "init"
  /\ \/ Shares(s, shared) /\ Initialise(s, {})
     \/ /\ ~Shares(s, shared) /\ disconnectClients
        /\ Initialise(s, Present \ {s})
     \/ /\ ~Shares(s, shared) /\ ~disconnectClients
        /\ Initialise(s, {})
  /\ UNCHANGED <<made, query, asking, verdicts>>

ClientInit(s, shared) ==
  /\ conn[s].state = "init"
  /\ \/ Shares(s, shared) /\ Initialise(s, {})
     \/ /\ ~Shares(s, shared) /\ disconnectClients
        /\ Initialise(s, Present \ {s})
     \/ /\ ~Shares(s, shared) /\ ~disconnectClients
        /\ IF authClientCount(conn) > 1
           THEN closeAll({s}) ELSE Initialise(s, {})
  /\ UNCHANGED <<made, query, asking, verdicts>>

(* The connection ends: the peer hangs up, a message is wrong (any message *)
(* at all while querying), the connection has idled too long, or the       *)
(* server disconnects it.                                                  *)
Close(s) ==
  /\ conn[s].state \notin {"none", "closing"}
  /\ closeAll({s})
  /\ UNCHANGED <<made, query, asking, verdicts>>

(* removeSocket(), and the Socket object is deleted.  The question about   *)
(* it, if there is one, stays.                                             *)
RemoveSocket(s) ==
  /\ conn[s].state = "closing"
  /\ conn' = [conn EXCEPT ![s].state = "none"]
  /\ UNCHANGED <<made, query, sessions, asking, verdicts>>

-----------------------------------------------------------------------------
(* The question                                                            *)

(* VNCServerST::approveConnection(): the connection is looked up by the    *)
(* address of its Socket; one that is not being queried is closed.         *)
(* The number of the connection that the answer is about is a ghost.       *)
approveSocket(s, accept, about) ==
  IF s = NoSocket \/ s \notin Present
  THEN UNCHANGED <<conn, sessions, verdicts>>
  ELSE IF conn[s].state = "querying"
  THEN /\ approveConnection(s, accept)
       /\ consent' = [consent EXCEPT ![s] = about]
       /\ UNCHANGED strayed
  ELSE /\ closeAll({s})
       /\ strayed' = IF conn[s].state = "closing" THEN strayed
                     ELSE strayed \cup {<<about, conn[s].number>>}
       /\ UNCHANGED consent

(* Seeded faults: the answer is taken for one to the open question; the    *)
(* timer is not stopped.                                                   *)
ApproveConnectAny ==
  /\ answers # <<>>
  /\ answers' = Tail(answers)
  /\ notices' = IF helper THEN notices + 1 ELSE notices
  /\ approveSocket(query.socket, Head(answers).accept, Head(answers).number)
  /\ query' = [query EXCEPT !.id = NoSocket, !.timer = FALSE]
  /\ UNCHANGED <<made, helper, dialog, accepted>>

ApproveConnectTimed ==
  /\ answers # <<>>
  /\ answers' = Tail(answers)
  /\ notices' = IF helper THEN notices + 1 ELSE notices
  /\ IF query.id = Head(answers).id
     THEN /\ approveSocket(query.socket, Head(answers).accept, Head(answers).number)
          /\ query' = [query EXCEPT !.id = NoSocket]
     ELSE UNCHANGED <<conn, sessions, verdicts, query>>
  /\ UNCHANGED <<made, helper, dialog, accepted>>

(* ApproveConnect arrives.  Whether or not it is about the question,       *)
(* ProcVncExtApproveConnect() notifies every listener.                     *)
ApproveConnect ==
  /\ answers # <<>>
  /\ answers' = Tail(answers)
  /\ notices' = IF helper THEN notices + 1 ELSE notices
  /\ IF query.id = Head(answers).id
     THEN /\ approveSocket(query.socket, Head(answers).accept, Head(answers).number)
          /\ query' = [query EXCEPT !.id = NoSocket, !.timer = FALSE]
     ELSE UNCHANGED <<conn, sessions, verdicts, query>>
  /\ UNCHANGED <<made, helper, dialog, accepted>>

(* queryConnectTimer expires.                                              *)
QueryTimeout ==
  /\ query.timer
  /\ approveSocket(query.socket, FALSE, query.number)
  /\ query' = [query EXCEPT !.timer = FALSE]
  /\ UNCHANGED <<made, asking>>

-----------------------------------------------------------------------------
(* vncconfig                                                               *)

(* The event arrives: the old dialog is deleted, the question fetched.     *)
HandleEvent ==
  /\ notices > 0
  /\ notices' = notices - 1
  /\ dialog' = IF query.timer
               THEN [id |-> query.id, number |-> query.number,
                     mapped |-> TRUE, ticking |-> TRUE]
               ELSE NoDialog
  /\ UNCHANGED <<conn, made, query, sessions, helper, answers, accepted, verdicts>>

Answer(accept) ==
  answers' = Append(answers, [id |-> dialog.id, number |-> dialog.number,
                              accept |-> accept])

(* The user clicks; the dialog is unmapped, and goes on ticking.           *)
ButtonActivate(accept) ==
  /\ dialog.mapped
  /\ Len(answers) < MaxAnswers
  /\ Answer(accept)
  /\ dialog' = [dialog EXCEPT !.mapped = FALSE]
  /\ accepted' = IF accept THEN accepted \cup {<<dialog.id, dialog.number>>}
               ELSE accepted
  /\ UNCHANGED <<conn, made, query, sessions, helper, notices, verdicts>>

DialogTimeout ==
  /\ dialog.ticking
  /\ Len(answers) < MaxAnswers
  /\ Answer(FALSE)
  /\ dialog' = [dialog EXCEPT !.mapped = FALSE, !.ticking = FALSE]
  /\ UNCHANGED <<conn, made, query, sessions, helper, notices, accepted, verdicts>>

(* vncconfig is started, and exits.                                        *)
HelperStarts ==
  /\ ~helper
  /\ helper' = TRUE
  /\ UNCHANGED <<conn, made, query, sessions, notices, dialog, answers, accepted, verdicts>>

HelperExits ==
  /\ helper
  /\ helper' = FALSE
  /\ notices' = 0
  /\ dialog' = NoDialog
  /\ UNCHANGED <<conn, made, query, sessions, answers, accepted, verdicts>>

-----------------------------------------------------------------------------
Init ==
  /\ conn = [s \in Sockets |-> NoConnection]
  /\ made = 0
  /\ query = [id |-> NoSocket, socket |-> NoSocket, timer |-> FALSE, number |-> 0]
  /\ sessions = {}
  /\ helper = FALSE
  /\ notices = 0
  /\ dialog = NoDialog
  /\ answers = <<>>
  /\ accepted = {}
  /\ consent = [s \in Sockets |-> 0]
  /\ strayed = {}

Helper ==
  \/ HandleEvent
  \/ \E accept \in BOOLEAN : ButtonActivate(accept)
  \/ DialogTimeout
  \/ HelperStarts
  \/ HelperExits

Next ==
  \/ \E s \in Sockets :
       \/ \E kind \in Kinds : AddSocket(s, kind)
       \/ Handshake(s)
       \/ \E shared \in BOOLEAN : ClientInit(s, shared)
       \/ Close(s)
       \/ RemoveSocket(s)
  \/ ApproveConnect
  \/ QueryTimeout
  \/ Helper

Spec == Init /\ [][Next]_vars

(* Timers expire; nothing else is asked of anybody.                        *)
LiveSpec == Spec /\ WF_vars(QueryTimeout)

-----------------------------------------------------------------------------
(* Every variable has its type.                                            *)
TypeOK ==
  /\ conn \in [Sockets -> Connection]
  /\ made \in Numbers
  /\ query \in Query
  /\ sessions \subseteq Numbers
  /\ helper \in BOOLEAN /\ notices \in Nat
  /\ dialog \in Dialog
  /\ answers \in Seq([id : Sockets \cup {NoSocket}, number : Numbers,
                       accept : BOOLEAN])
  /\ Len(answers) <= MaxAnswers
  /\ accepted \subseteq (Sockets \cup {NoSocket}) \X Numbers
  /\ consent \in [Sockets -> Numbers]
  /\ strayed \subseteq Numbers \X Numbers

Normal == {s \in Sockets : conn[s].state = "normal"}

(* With NeverShared there is one client at a time: of the connections that *)
(* are initialised together all but one are refused, or the earlier ones   *)
(* are closed.                                                             *)
OneAtATime == neverShared => \A s, t \in Normal : s = t

(* While anybody is being served, the list of sessions names every client  *)
(* that is being served and nobody who has left.                           *)
SessionsListed ==
  Normal # {} =>
    /\ {conn[s].number : s \in Normal} \subseteq sessions
    /\ sessions \subseteq {conn[s].number : s \in Authenticated(conn)}

(* A connection is left waiting for the user of the desktop only while the *)
(* question on record is about it and its timer runs; so no two wait.      *)
QueryPending ==
  \A s \in Sockets : conn[s].state = "querying" =>
    query.timer /\ query.id = s /\ query.socket = s
    /\ query.number = conn[s].number

(* QueryConnect lets the user of the desktop explicitly accept or reject   *)
(* incoming connections: one that needs consent is served only after an    *)
(* answer by which the user has accepted that very connection, whatever     *)
(* becomes of the question, the dialog and the answers under way.  The one  *)
(* way out is the address: the answer may have been about an earlier        *)
(* connection, since deleted, whose Socket was at the same address.         *)
ExplicitlyAccepted ==
  \A s \in Sockets :
    conn[s].kind = "queried" /\ authenticated(conn, s) =>
      /\ consent[s] \in 1..conn[s].number
      /\ <<s, consent[s]>> \in accepted

(* approveConnection() "can only be called when in state RFBSTATE_QUERYING": *)
(* no answer and no timeout hits the connection it is about once that has   *)
(* stopped waiting, been let in for instance, and none hits a connection    *)
(* that was there when the question was put.  Only one that has come since  *)
(* and taken over the address may be hit.                                   *)
AnswersFit == \A hit \in strayed : hit[1] < hit[2]

(* No connection waits for the user of the desktop forever, even if the    *)
(* helper has exited and its answers are lost.                             *)
QueriesEnd ==
  \A s \in Sockets : conn[s].state = "querying" ~> conn[s].state # "querying"
=============================================================================
