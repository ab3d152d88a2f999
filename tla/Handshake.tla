----------------------------- MODULE Handshake ------------------------------
(* The opening of an RFB connection: SConnection and CConnection agree on  *)
(* a protocol version and a security type, go through its layers, and the  *)
(* server asks for consent.  What an end sends is a queue of items; an end *)
(* that finds an item it does not expect gives the connection up.  A host  *)
(* may try again; one that does not authenticate is put off for longer and *)
(* longer.                                                                 *)
EXTENDS Sequences, Naturals
CONSTANTS
  Setups,          \* what the two ends are configured for, see Setup
  Threshold,       \* BlacklistThreshold
  InitialTimeout,  \* BlacklistTimeout
  Width,           \* bits of an unsigned int
  MaxTime          \* bound of the clock

Types == {"None", "VncAuth", "Plain", "TLSNone", "TLSVnc", "TLSPlain"}

(* Types of 0x100 and above, which are offered inside VeNCrypt.            *)
Extended == {"Plain", "TLSNone", "TLSVnc", "TLSPlain"}
Setup == [
  serverTypes : Seq(Types), clientTypes : Seq(Types),  \* in order of preference
  serverMinor : {3, 8}, clientMinor : {3, 5, 7, 8},    \* 5 and 7: viewers other than CConnection
  password : BOOLEAN,                                  \* the client knows it
  tls : BOOLEAN,                                       \* TLS can be set up
  consent : {"accept", "reject", "ask"},               \* the end of queryConnection
  answer : BOOLEAN,                                    \* of the user, when asked
  patient : BOOLEAN,                                   \* the viewer does not give up
  attempts : Nat \ {0} ]                               \* how often the host may connect

VARIABLES
  setup,     \* the configuration
  server,    \* its state, its minor version, its security type, the items it awaits
  client,    \* likewise
  toServer, toClient,
  attempt,   \* the number of this connection of the host
  now,       \* the clock
  blacklist, \* the host's marks, the end and the length of its block
  let        \* when it was let through since it last authenticated (history)
host == <<blacklist, let>>
vars == <<setup, server, client, toServer, toClient, attempt, now, host>>
outside == <<attempt, now, host>>

ASSUME HandshakeAssumption ==
  /\ Setups \subseteq Setup
  /\ {Threshold, InitialTimeout} \subseteq Nat \ {0} /\ {Width, MaxTime} \subseteq Nat

-----------------------------------------------------------------------------
(* Security types *)

IsIn(t, list) == \E i \in DOMAIN list : list[i] = t

(* GetEnabledSecTypes: VeNCrypt first if there is any extended type.  What *)
(* is left out leaves a gap: a list is a function on numbers, in order.    *)
Offered(list) ==
  LET old == {i \in DOMAIN list : list[i] \notin Extended}
      first == IF old # DOMAIN list THEN {0} ELSE {}
  IN [i \in first \cup old |-> IF i = 0 THEN "VeNCrypt" ELSE list[i]]

(* The first type of the server's list that the client has.                *)
Common(theirs, mine) ==
  LET both == {i \in DOMAIN theirs : IsIn(theirs[i], mine)}
  IN IF both = {} THEN "Invalid" ELSE theirs[CHOOSE i \in both : \A j \in both : i <= j]

(* What the two ends of a security type await from each other, in order.   *)
ServerAwaits(t) ==
  CASE t = "VeNCrypt" -> <<"vencrypt", "subtype">>
    [] t = "None" -> <<>>
    [] t = "VncAuth" -> <<"response">>
    [] t = "Plain" -> <<"credentials">>
    [] t = "TLSNone" -> <<"hello">>
    [] t = "TLSVnc" -> <<"hello", "response">>
    [] t = "TLSPlain" -> <<"hello", "credentials">>
ClientAwaits(t) ==
  CASE t = "VeNCrypt" -> <<"vencrypt", "subtypes">>
    [] t \in {"None", "Plain"} -> <<>>
    [] t = "VncAuth" -> <<"challenge">>
    [] t \in {"TLSNone", "TLSPlain"} -> <<"tls", "hello">>
    [] t = "TLSVnc" -> <<"tls", "hello", "challenge">>

Item(k, v) == [kind |-> k, val |-> v]

(* The official version that an unofficial one stands for.                 *)
Official(minor) == IF minor >= 8 THEN 8 ELSE IF minor = 7 THEN 7 ELSE 3

(* Seeded fault: the type for a 3.3 client is the first one of the list.   *)
LegacyFirst(offers) ==
  IF DOMAIN offers = {} THEN "Invalid"
  ELSE offers[CHOOSE i \in DOMAIN offers : \A j \in DOMAIN offers : i <= j]

(* The type a 3.3 client is told: the first of the two old ones.           *)
Legacy(offers) == Common(offers, <<"None", "VncAuth">>)

-----------------------------------------------------------------------------
(* The server *)

NewServer == [state |-> "new", minor |-> 0, type |-> "Invalid", awaits |-> <<>>]
NewClient == [state |-> "version", minor |-> 0, type |-> "Invalid", awaits |-> <<"version">>]
Both(s) == server.state = s /\ client.state = s
NoMarks == [marks |-> 0, until |-> 0, timeout |-> 0]

(* What it sends before it awaits the item k.                              *)
Prompt(k) ==
  CASE k = "vencrypt" -> <<Item("vencrypt", 2)>>
    [] k = "subtype" -> <<Item("subtypes", setup.serverTypes)>>
    [] k = "response" -> <<Item("challenge", 0)>>
    [] k = "hello" -> <<Item("tls", setup.tls)>>
    [] k = "credentials" -> <<>>

Deciding(s, items) == server' = s /\ toClient' = toClient \o items
Sending(s, items) == Deciding(s, items) /\ UNCHANGED host
Closed(s) == [s EXCEPT !.state = "closed", !.awaits = <<>>]

(* An AuthFailureException that leaves processSecurityMsg: a failed result *)
(* whatever the version, and the end.                                      *)
AuthFailure(s, items) == Sending(Closed(s), items \o <<Item("result", "failed")>>)

(* Seeded fault: a result is sent whatever the version.                    *)
ResultsAlways(s, r) == <<Item("result", r)>>

(* approveConnection: no result for security type None before 3.8.         *)
Results(s, r) == IF s.minor < 8 /\ s.type = "None" THEN <<>> ELSE <<Item("result", r)>>
Initialising(s) == [s EXCEPT !.state = "initialisation", !.awaits = <<"init">>]

(* Seeded fault: consent is not asked for.                                 *)
QueryConnectionSkipped(s, items) ==
  /\ blacklist' = NoMarks /\ let' = <<>>
  /\ Deciding(Initialising(s), items \o Results(s, "ok"))

(* queryConnection: the host has authenticated and loses its marks.  It is *)
(* called inside processSecurityMsg: a rejection there sends its result    *)
(* and then the one of the exception.                                      *)
QueryConnection(s, items) ==
  /\ blacklist' = NoMarks /\ let' = <<>>
  /\ CASE setup.consent = "accept" -> Deciding(Initialising(s), items \o Results(s, "ok"))
       [] setup.consent = "reject" -> Deciding(Closed(s), items \o Results(s, "failed") \o <<Item("result", "failed")>>)
       [] setup.consent = "ask" -> Deciding([s EXCEPT !.state = "querying"], items)

Awaiting(s, awaits, items) ==
  Sending([s EXCEPT !.state = "security", !.awaits = awaits], items \o Prompt(Head(awaits)))

(* The TLS layer tells the client whether it could be set up.              *)
StartTls(s, awaits, items) ==
  IF setup.tls THEN Awaiting(s, awaits, items) ELSE AuthFailure(s, items \o Prompt("hello"))

(* processSecurityMsg with the items of the list still to come.            *)
Proceed(s, awaits, items) ==
  IF awaits = <<>> THEN QueryConnection([s EXCEPT !.awaits = <<>>], items)
  ELSE IF Head(awaits) = "hello" THEN StartTls(s, awaits, items)
  ELSE Awaiting(s, awaits, items)

(* A response or a password that has been checked.                         *)
Verified(s, ok, rest) == IF ok THEN Proceed(s, rest, <<>>) ELSE AuthFailure(s, <<>>)

Pow2[n \in Nat] == IF n = 0 THEN 1 ELSE 2 * Pow2[n - 1]

(* Seeded fault: the time to wait does not grow.                           *)
RetryTimeoutFixed(b) == [b EXCEPT !.until = now + b.timeout]

(* A host that may try again once more has to wait twice as long next      *)
(* time, in the width of an unsigned int.                                  *)
RetryTimeout(b) == [b EXCEPT !.until = now + b.timeout, !.timeout = (2 * b.timeout) % Pow2[Width]]

(* isBlackmarked: entries start with one mark; at the threshold only time  *)
(* opens the door.                                                         *)
Entry == IF blacklist = NoMarks THEN [marks |-> 1, until |-> 0, timeout |-> InitialTimeout] ELSE blacklist
IsBlackmarked == Entry.marks >= Threshold /\ now < Entry.until

(* A host with a blackmark is told so in version 3.3 and shut out.         *)
Refuse ==
  /\ server.state = "new" /\ IsBlackmarked
  /\ Deciding(Closed(server), <<Item("version", 3), Item("type", "Invalid")>>)
  /\ UNCHANGED <<setup, client, toServer, outside>>

AddSocket ==
  /\ server.state = "new" /\ ~IsBlackmarked
  /\ blacklist' = IF Entry.marks >= Threshold THEN RetryTimeout(Entry) ELSE [Entry EXCEPT !.marks = @ + 1]
  /\ let' = Append(let, now)
  /\ Deciding([server EXCEPT !.state = "version", !.awaits = <<"version">>],
              <<Item("version", setup.serverMinor)>>)
  /\ UNCHANGED <<setup, client, toServer, attempt, now>>

Read(k) == toServer # <<>> /\ Head(toServer).kind = k /\ toServer' = Tail(toServer)

(* processVersionMsg: a 3.3 client is told the type, others are offered a  *)
(* list.                                                                   *)
ServerVersion ==
  /\ server.state = "version" /\ Read("version")
  /\ LET minor == Official(Head(toServer).val)
         s == [server EXCEPT !.minor = minor]
         offers == Offered(setup.serverTypes)
         legacy == Legacy(offers)
     IN IF minor = 3
        THEN IF legacy = "Invalid" THEN Sending(Closed(s), <<Item("type", "Invalid")>>)
             ELSE Proceed([s EXCEPT !.type = legacy], ServerAwaits(legacy), <<Item("type", legacy)>>)
        ELSE IF DOMAIN offers = {} THEN Sending(Closed(s), <<Item("types", offers)>>)
             ELSE Sending([s EXCEPT !.state = "type", !.awaits = <<"type">>], <<Item("types", offers)>>)
  /\ UNCHANGED <<setup, client, attempt, now>>

(* processSecurityType *)
ServerType ==
  /\ server.state = "type" /\ Read("type")
  /\ LET t == Head(toServer).val
     IN IF IsIn(t, Offered(setup.serverTypes))
        THEN Proceed([server EXCEPT !.type = t], ServerAwaits(t), <<>>)
        ELSE Sending(Closed(server), <<>>)
  /\ UNCHANGED <<setup, client, attempt, now>>

(* One call of processMsg of the security type: VeNCrypt is replaced by    *)
(* the subtype chosen, a wrong password ends the connection.               *)
ServerSecurity ==
  /\ server.state = "security" /\ Read(Head(server.awaits))
  /\ LET k == Head(server.awaits)
         v == Head(toServer).val
         rest == Tail(server.awaits)
     IN CASE k = "subtype" ->
               IF IsIn(v, setup.serverTypes)
               THEN Proceed([server EXCEPT !.type = v], ServerAwaits(v), <<>>)
               ELSE AuthFailure(server, <<>>)
          [] k \in {"response", "credentials"} -> Verified(server, v, rest)
          [] k = "hello" -> Proceed(server, rest, <<Item("hello", 0)>>)
          [] k = "vencrypt" -> Proceed(server, rest, <<>>)
  /\ UNCHANGED <<setup, client, attempt, now>>

(* approveConnectionOrClose, once the user has answered.                   *)
ApproveConnection ==
  /\ server.state = "querying"
  /\ IF setup.answer THEN Sending(Initialising(server), Results(server, "ok"))
     ELSE Sending(Closed(server), Results(server, "failed"))
  /\ UNCHANGED <<setup, client, toServer, attempt, now>>

(* "bogus data from client while querying" *)
ServerBogus ==
  /\ server.state = "querying" /\ toServer # <<>>
  /\ server' = Closed(server)
  /\ UNCHANGED <<setup, client, toServer, toClient, outside>>

ServerInit ==
  /\ server.state = "initialisation" /\ Read("init")
  /\ Sending([server EXCEPT !.state = "normal", !.awaits = <<>>], <<Item("init", 0)>>)
  /\ UNCHANGED <<setup, client, attempt, now>>

(* An item that is not understood, or the end of the stream.               *)
ServerLost ==
  /\ server.state \notin {"new", "closed"}
  /\ \/ toServer = <<>> /\ client.state = "closed"
     \/ server.awaits # <<>> /\ toServer # <<>> /\ Head(toServer).kind # Head(server.awaits)
  /\ server' = Closed(server)
  /\ UNCHANGED <<setup, client, toServer, toClient, outside>>

-----------------------------------------------------------------------------
(* The viewer *)

Replying(c, items) == client' = c /\ toServer' = toServer \o items
Receive(k) == toClient # <<>> /\ Head(toClient).kind = k /\ toClient' = Tail(toClient)

(* processVersionMsg; the version is the lower of the two.                 *)
ClientVersion ==
  /\ client.state = "version" /\ Receive("version")
  /\ LET theirs == Head(toClient).val
         said == IF theirs < setup.clientMinor THEN theirs ELSE setup.clientMinor
         minor == Official(said)
     IN Replying([client EXCEPT !.state = "types", !.minor = minor,
                                !.awaits = <<IF minor = 3 THEN "type" ELSE "types">>],
                 <<Item("version", said)>>)
  /\ UNCHANGED <<setup, server, outside>>

(* securityCompleted *)
Completed(c) == [c EXCEPT !.state = "initialisation", !.awaits = <<"init">>]
ClientInit == <<Item("init", 0)>>

(* The Plain layer sends its credentials unasked.                          *)
Unasked(c) ==
  IF c.type \in {"Plain", "TLSPlain"} THEN <<Item("credentials", setup.password)>> ELSE <<>>

(* Seeded fault: a result is expected whatever the version.                *)
ContinueAwaitingResult(c, awaits, items) ==
  IF awaits # <<>> THEN Replying([c EXCEPT !.state = "security", !.awaits = awaits], items)
  ELSE Replying([c EXCEPT !.state = "result", !.awaits = <<"result">>], items \o Unasked(c))

(* processSecurityMsg: without a result to wait for the client goes on at  *)
(* once.                                                                   *)
Continue(c, awaits, items) ==
  IF awaits # <<>> THEN Replying([c EXCEPT !.state = "security", !.awaits = awaits], items)
  ELSE IF c.minor < 8 /\ c.type = "None" THEN Replying(Completed(c), items \o ClientInit)
  ELSE Replying([c EXCEPT !.state = "result", !.awaits = <<"result">>], items \o Unasked(c))

(* The TLS layer begins once the server says that it has one.              *)
JoinTls(c, ok, rest) ==
  IF ok THEN Continue(c, rest, <<Item("hello", 0)>>) ELSE Replying(Closed(c), <<>>)

(* processSecurityTypesMsg: told the type, or choosing one.                *)
ClientType ==
  /\ client.state = "types" /\ Receive(Head(client.awaits))
  /\ LET v == Head(toClient).val
         mine == Offered(setup.clientTypes)
         told == client.minor = 3
         t == IF told THEN IF IsIn(v, mine) /\ v \in {"None", "VncAuth"} THEN v ELSE "Invalid" ELSE Common(v, mine)
     IN IF t = "Invalid" THEN Replying(Closed(client), <<>>)
        ELSE Continue([client EXCEPT !.type = t], ClientAwaits(t),
                      IF told THEN <<>> ELSE <<Item("type", t)>>)
  /\ UNCHANGED <<setup, server, outside>>

ClientSecurity ==
  /\ client.state = "security" /\ Receive(Head(client.awaits))
  /\ LET k == Head(client.awaits)
         v == Head(toClient).val
         rest == Tail(client.awaits)
     IN CASE k = "vencrypt" -> Continue(client, rest, <<Item("vencrypt", 2)>>)
          [] k = "subtypes" ->
               LET t == Common(v, setup.clientTypes)
               IN IF t = "Invalid" THEN Replying(Closed(client), <<>>)
                  ELSE Continue([client EXCEPT !.type = t], ClientAwaits(t), <<Item("subtype", t)>>)
          [] k = "challenge" -> Continue(client, rest, <<Item("response", setup.password)>>)
          [] k = "tls" -> JoinTls(client, v, rest)
          [] k = "hello" -> Continue(client, rest, <<>>)
  /\ UNCHANGED <<setup, server, outside>>

(* processSecurityResultMsg *)
ClientResult ==
  /\ client.state = "result" /\ Receive("result")
  /\ IF Head(toClient).val = "ok" THEN Replying(Completed(client), ClientInit)
     ELSE Replying(Closed(client), <<>>)
  /\ UNCHANGED <<setup, server, outside>>

ClientServerInit ==
  /\ client.state = "initialisation" /\ Receive("init")
  /\ client' = [client EXCEPT !.state = "normal", !.awaits = <<>>]
  /\ UNCHANGED <<setup, server, toServer, outside>>

ClientLost ==
  /\ client.state # "closed"
  /\ \/ toClient = <<>> /\ server.state = "closed"
     \/ client.awaits # <<>> /\ toClient # <<>> /\ Head(toClient).kind # Head(client.awaits)
  /\ client' = Closed(client)
  /\ UNCHANGED <<setup, server, toServer, toClient, outside>>

GiveUp ==
  /\ ~setup.patient /\ client.state # "closed"
  /\ client' = Closed(client)
  /\ UNCHANGED <<setup, server, toServer, toClient, outside>>

(* The host connects again, with another password perhaps.                 *)
Retry ==
  /\ attempt < setup.attempts /\ Both("closed")
  /\ attempt' = attempt + 1
  /\ \E right \in BOOLEAN : setup' = [setup EXCEPT !.password = right]
  /\ server' = NewServer /\ client' = NewClient /\ toServer' = <<>> /\ toClient' = <<>>
  /\ UNCHANGED <<now, host>>

Tick ==
  /\ attempt < setup.attempts /\ now < MaxTime
  /\ now' = now + 1
  /\ UNCHANGED <<setup, server, client, toServer, toClient, attempt, host>>

-----------------------------------------------------------------------------
Init ==
  /\ setup \in Setups
  /\ server = NewServer /\ client = NewClient
  /\ toServer = <<>> /\ toClient = <<>>
  /\ attempt = 1 /\ now = 0 /\ blacklist = NoMarks /\ let = <<>>

ServerStep ==
  \/ Refuse \/ AddSocket \/ ServerVersion \/ ServerType \/ ServerSecurity \/ ApproveConnection
  \/ ServerBogus \/ ServerInit \/ ServerLost
ClientStep ==
  \/ ClientVersion \/ ClientType \/ ClientSecurity \/ ClientResult \/ ClientServerInit \/ ClientLost
Next == ServerStep \/ ClientStep \/ GiveUp \/ Retry \/ Tick
Spec == Init /\ [][Next]_vars /\ WF_vars(ServerStep) /\ WF_vars(ClientStep)

-----------------------------------------------------------------------------
(* Versions are official ones once they are agreed on.                     *)
TypeOK ==
  /\ setup \in Setup
  /\ server.state \in {"new", "version", "type", "security", "querying", "initialisation", "normal", "closed"}
  /\ client.state \in {"version", "types", "security", "result", "initialisation", "normal", "closed"}
  /\ server.minor \in {0, 3, 7, 8} /\ client.minor \in {0, 3, 7, 8}
  /\ server.type \in Types \cup {"VeNCrypt", "Invalid"} /\ client.type \in Types \cup {"VeNCrypt", "Invalid"}

(* As long as both ends are there each finds what it expects at the head   *)
(* of its stream, and the server gets nothing unasked but the beginning of *)
(* a client that need not wait for a result.                               *)
Understood ==
  server.state # "closed" /\ client.state # "closed" =>
    /\ client.awaits # <<>> /\ toClient # <<>> => Head(toClient).kind = Head(client.awaits)
    /\ server.awaits # <<>> /\ toServer # <<>> => Head(toServer).kind = Head(server.awaits)
    /\ server.state = "querying" /\ toServer # <<>> => server.minor < 8 /\ server.type = "None"

(* A server that starts a session was shown the password if its type has   *)
(* one and has the consent it asked for; ends that are both that far have  *)
(* agreed on a version and on a type that both are configured for.         *)
Authenticated(t) == t \in {"None", "TLSNone"} \/ setup.password
Ready(e) == e.state \in {"initialisation", "normal"}
Admitted ==
  /\ Ready(server) =>
       /\ IsIn(server.type, setup.serverTypes) /\ Authenticated(server.type)
       /\ setup.consent = "accept" \/ (setup.consent = "ask" /\ setup.answer)
  /\ Ready(client) => IsIn(client.type, setup.clientTypes)
  /\ Ready(server) /\ Ready(client) => server.minor = client.minor /\ server.type = client.type

(* The ends never wait for each other: the handshake comes to an end, the  *)
(* same one on both sides.                                                 *)
HandshakeEnds == []<>(Both("normal") \/ Both("closed"))

(* From the threshold on a host that does not authenticate has to wait     *)
(* before each attempt, every time twice as long, as long as the time fits *)
(* into its type.                                                          *)
BackOff ==
  \A k \in Threshold + 1 .. Len(let) :
    LET wait == InitialTimeout * Pow2[k - Threshold - 1]
    IN wait < Pow2[Width] => let[k] >= let[k - 1] + wait

(* The type that the configurations lead to.                               *)
Agreed ==
  LET minor == IF setup.serverMinor = 3 \/ setup.clientMinor < 7 THEN 3 ELSE setup.clientMinor
      offers == Offered(setup.serverTypes)
      mine == Offered(setup.clientTypes)
      legacy == Common(offers, <<"None", "VncAuth">>)
      outer == IF minor = 3 THEN IF IsIn(legacy, mine) THEN legacy ELSE "Invalid" ELSE Common(offers, mine)
  IN [minor |-> minor,
      type |-> IF outer = "VeNCrypt" THEN Common(setup.serverTypes, setup.clientTypes) ELSE outer]

(* Ends that have a type in common, the right password and consent get     *)
(* into session.  A viewer that expects no result, before 3.8 and without  *)
(* authentication, does not if the user is asked: what it sends is taken   *)
(* for bogus data.                                                         *)
Completes ==
  /\ Agreed.type # "Invalid" /\ Authenticated(Agreed.type)
  /\ Agreed.type \in {"TLSNone", "TLSVnc", "TLSPlain"} => setup.tls
  /\ setup.consent = "accept" \/ (setup.consent = "ask" /\ setup.answer
                                   /\ ~(Agreed.minor < 8 /\ Agreed.type = "None"))
  /\ setup.patient /\ setup.attempts = 1
  => <>[](Both("normal"))
=============================================================================
