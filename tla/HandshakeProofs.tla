--------------------------- MODULE HandshakeProofs --------------------------
(***************************************************************************)
(* Theorems about Handshake, for every pair of configurations and any      *)
(* number of attempts: the ends understand each other, and a session only  *)
(* starts as both are configured for.                                      *)
(*                                                                         *)
(* While both ends are there they take turns: what is under way is in one  *)
(* direction, and the states of the two ends and the items between them    *)
(* are one of the few combinations of Conversation.  What an end has       *)
(* checked by itself does not depend on the other being there.             *)
(*                                                                         *)
(* The host's entry in the blacklist is a function of the times at which   *)
(* it was let through: how often says how many marks and doublings there   *)
(* are, the last time and the last wait when the block ends.               *)
(***************************************************************************)
EXTENDS Handshake, WellFoundedInduction, SequenceTheorems, TLAPS

AllTypes == Types \cup {"VeNCrypt"}
Lists == UNION {[D -> AllTypes] : D \in SUBSET Nat}
Kinds == {"version", "types", "type", "vencrypt", "subtypes", "subtype", "tls", "hello",
          "challenge", "response", "credentials", "result", "init"}

ToServer(password) ==
  {Item("version", v) : v \in {3, 5, 7, 8}}
    \cup {Item(k, t) : k \in {"type", "subtype"}, t \in AllTypes}
    \cup {Item(k, password) : k \in {"response", "credentials"}}
    \cup {Item("vencrypt", 2), Item("hello", 0), Item("init", 0)}
ToClient ==
  {Item("version", v) : v \in {3, 8}}
    \cup {Item("type", t) : t \in AllTypes \cup {"Invalid"}}
    \cup {Item(k, l) : k \in {"types", "subtypes"}, l \in Lists}
    \cup {Item("tls", b) : b \in BOOLEAN} \cup {Item("result", r) : r \in {"ok", "failed"}}
    \cup {Item("vencrypt", 2), Item("hello", 0), Item("challenge", 0), Item("init", 0)}

End(states) == [state : states, minor : {0, 3, 7, 8}, type : AllTypes \cup {"Invalid"}, awaits : Seq(Kinds)]
ServerStates == {"new", "version", "type", "security", "querying", "initialisation", "normal", "closed"}
ClientStates == {"version", "types", "security", "result", "initialisation", "normal", "closed"}

Typed ==
  /\ setup \in Setup
  /\ server \in End(ServerStates) /\ client \in End(ClientStates)
  /\ toServer \in Seq(ToServer(setup.password)) /\ toClient \in Seq(ToClient)

-----------------------------------------------------------------------------
(* What each end has made sure of by itself.                               *)

(* What is left of the security type t at the server.                      *)
Remaining(t, awaits) ==
  \/ t = "VeNCrypt" /\ awaits \in {<<"vencrypt", "subtype">>, <<"subtype">>}
  \/ t \in {"VncAuth", "TLSVnc"} /\ awaits = <<"response">>
  \/ t \in {"Plain", "TLSPlain"} /\ awaits = <<"credentials">>
  \/ t \in {"TLSNone", "TLSVnc", "TLSPlain"} /\ awaits = ServerAwaits(t)
ServerSound ==
  /\ server.state = "security" =>
       /\ Remaining(server.type, server.awaits)
       /\ server.type = "VeNCrypt" \/ IsIn(server.type, setup.serverTypes)
  /\ server.state \in {"querying", "initialisation", "normal"} =>
       IsIn(server.type, setup.serverTypes) /\ Authenticated(server.type)
  /\ Ready(server) => setup.consent = "accept" \/ (setup.consent = "ask" /\ setup.answer)
  /\ server.state = "querying" => setup.consent = "ask"

ClientRemaining(t, awaits) ==
  \/ t = "VeNCrypt" /\ awaits \in {<<"vencrypt", "subtypes">>, <<"subtypes">>}
  \/ /\ IsIn(t, setup.clientTypes)
     /\ awaits \in {<<"challenge">>, <<"hello">>, <<"tls", "hello">>, <<"hello", "challenge">>,
                    <<"tls", "hello", "challenge">>}
ClientSound ==
  /\ client.state = "types" => client.awaits = <<IF client.minor = 3 THEN "type" ELSE "types">>
  /\ client.state = "security" => ClientRemaining(client.type, client.awaits)
  /\ client.state \in {"result", "initialisation", "normal"} => IsIn(client.type, setup.clientTypes)

-----------------------------------------------------------------------------
(* What both ends are at, when both are there.                             *)

Holds(q, kinds) == Len(q) = Len(kinds) /\ \A i \in DOMAIN kinds : q[i].kind = kinds[i]
At(s, serverAwaits, c, clientAwaits, toC, toS) ==
  /\ server.state = s /\ server.awaits = serverAwaits
  /\ client.state = c /\ client.awaits = clientAwaits
  /\ Holds(toClient, toC) /\ Holds(toServer, toS)

(* The version.                                                            *)
Greeting ==
  \/ At("new", <<>>, "version", <<"version">>, <<>>, <<>>)
  \/ At("version", <<"version">>, "version", <<"version">>, <<"version">>, <<>>)
  \/ /\ At("version", <<"version">>, "types", client.awaits, <<>>, <<"version">>)
     /\ client.minor = Official(toServer[1].val)

(* The type is chosen by a client from 3.7 on, ...                         *)
Choice ==
  /\ server.minor = client.minor /\ client.minor # 3
  /\ At("type", <<"type">>, "types", <<"types">>, <<"types">>, <<>>)

(* ... with which it goes on, and may send more already.                   *)
Begun(k) ==
  \/ /\ client.type = "None" /\ client.minor < 8 /\ Holds(toServer, <<k, "init">>)
     /\ client.state = "initialisation" /\ client.awaits = <<"init">>
  \/ /\ client.type = "None" /\ client.minor = 8 /\ Holds(toServer, <<k>>)
     /\ client.state = "result" /\ client.awaits = <<"result">>
  \/ /\ client.type = "Plain" /\ Holds(toServer, <<k, "credentials">>)
     /\ client.state = "result" /\ client.awaits = <<"result">>
  \/ /\ client.type \notin {"None", "Plain"} /\ Holds(toServer, <<k>>)
     /\ client.state = "security" /\ client.awaits = ClientAwaits(client.type)
Chosen ==
  /\ server.minor = client.minor
  /\ server.state = "type" /\ server.awaits = <<"type">> /\ Holds(toClient, <<>>)
  /\ client.type \notin Extended /\ Begun("type") /\ toServer[1].val = client.type
SubtypeChosen ==
  /\ server.minor = client.minor /\ server.type = "VeNCrypt"
  /\ server.state = "security" /\ server.awaits = <<"subtype">> /\ Holds(toClient, <<>>)
  /\ client.type # "VeNCrypt" /\ Begun("subtype") /\ toServer[1].val = client.type

(* A 3.3 client is told the type by a server that goes on with it.         *)
Told ==
  /\ server.minor = 3 /\ client.minor = 3
  /\ \/ /\ server.type = "None"
        /\ \/ At("querying", <<>>, "types", <<"type">>, <<"type">>, <<>>)
           \/ At("initialisation", <<"init">>, "types", <<"type">>, <<"type">>, <<>>)
     \/ /\ server.type = "VncAuth"
        /\ At("security", <<"response">>, "types", <<"type">>, <<"type", "challenge">>, <<>>)
  /\ toClient[1].val = server.type

(* The layers of a type.                                                   *)
VeNCryptLayer ==
  \/ At("security", <<"vencrypt", "subtype">>, "security", <<"vencrypt", "subtypes">>, <<"vencrypt">>, <<>>)
  \/ At("security", <<"vencrypt", "subtype">>, "security", <<"subtypes">>, <<>>, <<"vencrypt">>)
  \/ At("security", <<"subtype">>, "security", <<"subtypes">>, <<"subtypes">>, <<>>)
TlsLayer(t) ==
  \/ At("security", ServerAwaits(t), "security", ClientAwaits(t), <<"tls">>, <<>>)
  \/ At("security", ServerAwaits(t), "security", Tail(ClientAwaits(t)), <<>>, <<"hello">>)
TlsDone(t) ==
  \/ /\ t = "TLSNone"
     /\ \/ At("querying", <<>>, "security", <<"hello">>, <<"hello">>, <<>>)
        \/ At("initialisation", <<"init">>, "security", <<"hello">>, <<"hello", "result">>, <<>>)
  \/ /\ t = "TLSVnc"
     /\ At("security", <<"response">>, "security", <<"hello", "challenge">>, <<"hello", "challenge">>, <<>>)
  \/ /\ t = "TLSPlain"
     /\ At("security", <<"credentials">>, "security", <<"hello">>, <<"hello">>, <<>>)
VncLayer ==
  \/ At("security", <<"response">>, "security", <<"challenge">>, <<"challenge">>, <<>>)
  \/ At("security", <<"response">>, "result", <<"result">>, <<>>, <<"response">>)
PlainLayer == At("security", <<"credentials">>, "result", <<"result">>, <<>>, <<"credentials">>)

(* The end of it, with a result or without.                                *)
Outcome ==
  \/ /\ Results(server, "ok") # <<>>
     /\ \/ At("querying", <<>>, "result", <<"result">>, <<>>, <<>>)
        \/ At("initialisation", <<"init">>, "result", <<"result">>, <<"result">>, <<>>)
  \/ /\ Results(server, "ok") = <<>>
     /\ At("querying", <<>>, "initialisation", <<"init">>, <<>>, <<"init">>)
  \/ At("initialisation", <<"init">>, "initialisation", <<"init">>, <<>>, <<"init">>)
  \/ At("normal", <<>>, "initialisation", <<"init">>, <<"init">>, <<>>)
  \/ At("normal", <<>>, "normal", <<>>, <<>>, <<>>)

Layers ==
  /\ server.minor = client.minor /\ server.type = client.type
  /\ \/ server.type = "VeNCrypt" /\ VeNCryptLayer
     \/ server.type \in {"TLSNone", "TLSVnc", "TLSPlain"} /\ (TlsLayer(server.type) \/ TlsDone(server.type))
     \/ server.type \in {"VncAuth", "TLSVnc"} /\ VncLayer
     \/ server.type \in {"Plain", "TLSPlain"} /\ PlainLayer
     \/ server.type \in Types /\ Outcome

Conversation == Greeting \/ Choice \/ Chosen \/ SubtypeChosen \/ Told \/ Layers

Live == server.state # "closed" /\ client.state # "closed"
IInv == Typed /\ ServerSound /\ ClientSound /\ (Live => Conversation)
-----------------------------------------------------------------------------
(* Lists.                                                                  *)

LEMMA Least == ASSUME NEW T, T \subseteq Nat, T # {} PROVE \E x \in T : \A y \in T : x <= y
<1>1. OpToRel(<, Nat) = {ss \in Nat \X Nat : ss[1] < ss[2]}
  BY DEF OpToRel
<1>2. PICK x \in T : \A y \in T : ~ (<<y, x>> \in OpToRel(<, Nat))
  BY NatLessThanWellFounded, WFMin
<1>3. ASSUME NEW y \in T PROVE x <= y
  <2>1. <<y, x>> \notin {ss \in Nat \X Nat : ss[1] < ss[2]}
    BY <1>1, <1>2
  <2>2. <<y, x>> \in Nat \X Nat
    OBVIOUS
  <2>3. ~(y < x)
    BY <2>1, <2>2
  <2>. QED  BY <2>3
<1>. QED  BY <1>3

LEMMA Tuples ==
  ASSUME NEW a, NEW b, NEW c
  PROVE  /\ Head(<<a>>) = a /\ Tail(<<a>>) = <<>> /\ Head(<<a, b>>) = a /\ Tail(<<a, b>>) = <<b>>
         /\ Head(<<a, b, c>>) = a /\ Tail(<<a, b, c>>) = <<b, c>>
         /\ <<a>> # <<>> /\ <<a, b>> # <<>> /\ <<a, b, c>> # <<>>
  OBVIOUS

LEMMA TupleTypes ==
  ASSUME NEW S, NEW a \in S, NEW b \in S, NEW c \in S
  PROVE  <<a>> \in Seq(S) /\ <<a, b>> \in Seq(S) /\ <<a, b, c>> \in Seq(S)
  OBVIOUS

LEMMA HoldsFacts ==
  ASSUME NEW q, NEW k, NEW l
  PROVE  /\ Holds(q, <<>>) <=> Len(q) = 0
         /\ Holds(q, <<k>>) <=> Len(q) = 1 /\ q[1].kind = k
         /\ Holds(q, <<k, l>>) <=> Len(q) = 2 /\ q[1].kind = k /\ q[2].kind = l
  BY DEF Holds

(* Reading from a queue, ...                                               *)
LEMMA HoldsNone == ASSUME NEW S, NEW q \in Seq(S) PROVE Holds(q, <<>>) <=> q = <<>>
  BY HoldsFacts, EmptySeq
LEMMA HoldsOne ==
  ASSUME NEW S, NEW q \in Seq(S), NEW k, Holds(q, <<k>>)
  PROVE  q # <<>> /\ Head(q) = q[1] /\ Head(q).kind = k /\ Holds(Tail(q), <<>>)
<1>1. Len(q) = 1 /\ q[1].kind = k
  BY HoldsFacts
<1>2. q # <<>> /\ Head(q) = q[1] /\ Len(Tail(q)) = 0
  BY <1>1
<1>. QED  BY <1>1, <1>2, HoldsFacts
LEMMA HoldsTwo ==
  ASSUME NEW S, NEW q \in Seq(S), NEW k, NEW l, Holds(q, <<k, l>>)
  PROVE  q # <<>> /\ Head(q) = q[1] /\ Head(q).kind = k /\ Holds(Tail(q), <<l>>)
<1>1. Len(q) = 2 /\ q[1].kind = k /\ q[2].kind = l
  BY HoldsFacts
<1>2. q # <<>> /\ Head(q) = q[1] /\ Len(Tail(q)) = 1 /\ Tail(q)[1] = q[2]
  BY <1>1
<1>. QED  BY <1>1, <1>2, HoldsFacts

(* ... and writing to an empty one.                                        *)
LEMMA SendNone == ASSUME NEW S, NEW q \in Seq(S), Holds(q, <<>>) PROVE q \o <<>> = q
  BY ConcatEmptySeq
LEMMA SendFirst ==
  ASSUME NEW q, q = <<>>, NEW k, NEW v, NEW r, r = q \o <<Item(k, v)>>
  PROVE  r[1] = Item(k, v)
  OBVIOUS
LEMMA SendOne ==
  ASSUME NEW q, q = <<>>, NEW k, NEW v, NEW r, r = q \o <<Item(k, v)>>
  PROVE  Holds(r, <<k>>)
<1>1. Len(r) = 1 /\ r[1] = Item(k, v) /\ Item(k, v).kind = k
  BY DEF Item
<1>2. Len(r) = 1 /\ r[1].kind = k
  BY <1>1
<1>. QED  BY <1>2, HoldsFacts
LEMMA SendTwo ==
  ASSUME NEW k, NEW v, NEW l, NEW w
  PROVE  /\ Holds(<<Item(k, v)>> \o <<Item(l, w)>>, <<k, l>>)
         /\ (<<Item(k, v)>> \o <<Item(l, w)>>)[1] = Item(k, v)
<1>. DEFINE a == <<Item(k, v)>>
            b == <<Item(l, w)>>
            S == {Item(k, v), Item(l, w)}
<1>1. a \in Seq(S) /\ b \in Seq(S) /\ Len(a) = 1 /\ Len(b) = 1 /\ a[1] = Item(k, v) /\ b[1] = Item(l, w)
  OBVIOUS
<1>2. Item(k, v).kind = k /\ Item(l, w).kind = l
  BY DEF Item
<1>. HIDE DEF a, b, S
<1>3. Len(a \o b) = 2 /\ (a \o b)[1] = a[1] /\ (a \o b)[2] = b[1]
  BY <1>1, ConcatProperties
<1>4. Holds(a \o b, <<k, l>>)
  <2>. DEFINE q == a \o b
  <2>1. Len(q) = 2 /\ q[1].kind = k /\ q[2].kind = l
    BY <1>1, <1>2, <1>3
  <2>. HIDE DEF q
  <2>2. Holds(q, <<k, l>>)
    BY <2>1, HoldsFacts
  <2>. QED  BY <2>2 DEF q
<1>. QED  BY <1>1, <1>3, <1>4 DEF a, b

(* The two ends of a security type.                                        *)
LEMMA AwaitsFacts ==
  /\ ServerAwaits("VeNCrypt") = <<"vencrypt", "subtype">> /\ ServerAwaits("None") = <<>>
  /\ ServerAwaits("VncAuth") = <<"response">> /\ ServerAwaits("Plain") = <<"credentials">>
  /\ ServerAwaits("TLSNone") = <<"hello">> /\ ServerAwaits("TLSVnc") = <<"hello", "response">>
  /\ ServerAwaits("TLSPlain") = <<"hello", "credentials">>
  /\ ClientAwaits("VeNCrypt") = <<"vencrypt", "subtypes">> /\ ClientAwaits("None") = <<>>
  /\ ClientAwaits("VncAuth") = <<"challenge">> /\ ClientAwaits("Plain") = <<>>
  /\ ClientAwaits("TLSNone") = <<"tls", "hello">> /\ ClientAwaits("TLSVnc") = <<"tls", "hello", "challenge">>
  /\ ClientAwaits("TLSPlain") = <<"tls", "hello">>
  BY DEF ServerAwaits, ClientAwaits

PromptKinds == {"vencrypt", "subtype", "response", "hello", "credentials"}
LEMMA PromptTuples ==
  /\ <<"vencrypt", "subtype">> \in Seq(PromptKinds) /\ <<"subtype">> \in Seq(PromptKinds)
  /\ <<"response">> \in Seq(PromptKinds) /\ <<"credentials">> \in Seq(PromptKinds)
  /\ <<"hello">> \in Seq(PromptKinds) /\ <<"hello", "response">> \in Seq(PromptKinds)
  /\ <<"hello", "credentials">> \in Seq(PromptKinds)
<1>1. "vencrypt" \in PromptKinds /\ "subtype" \in PromptKinds /\ "response" \in PromptKinds
      /\ "hello" \in PromptKinds /\ "credentials" \in PromptKinds
  BY DEF PromptKinds
<1>. QED  BY <1>1, TupleTypes

LEMMA AwaitsTypes ==
  ASSUME NEW t \in AllTypes
  PROVE  ServerAwaits(t) \in Seq(PromptKinds) /\ ClientAwaits(t) \in Seq(Kinds)
<1>1. t \in {"VeNCrypt", "None", "VncAuth", "Plain", "TLSNone", "TLSVnc", "TLSPlain"}
  BY DEF AllTypes, Types
<1>2. <<>> \in Seq(PromptKinds) /\ <<>> \in Seq(Kinds)
  OBVIOUS
<1>3. ServerAwaits(t) \in Seq(PromptKinds)
  <2>1. ServerAwaits(t) \in {<<"vencrypt", "subtype">>, <<>>, <<"response">>, <<"credentials">>, <<"hello">>,
                             <<"hello", "response">>, <<"hello", "credentials">>}
    BY <1>1, AwaitsFacts, Zenon
  <2>. QED  BY <1>2, <2>1, PromptTuples
<1>4. ClientAwaits(t) \in Seq(Kinds)
  <2>1. ClientAwaits(t) \in {<<"vencrypt", "subtypes">>, <<>>, <<"challenge">>, <<"tls", "hello">>,
                             <<"tls", "hello", "challenge">>}
    BY <1>1, AwaitsFacts, Zenon
  <2>2. {"vencrypt", "subtypes", "challenge", "tls", "hello"} \subseteq Kinds
    BY DEF Kinds
  <2>3. /\ <<"vencrypt", "subtypes">> \in Seq(Kinds) /\ <<"challenge">> \in Seq(Kinds)
        /\ <<"tls", "hello">> \in Seq(Kinds) /\ <<"tls", "hello", "challenge">> \in Seq(Kinds)
    BY <2>2, TupleTypes
  <2>. QED  BY <1>2, <2>1, <2>3
<1>. QED  BY <1>3, <1>4

LEMMA RemainingFacts ==
  ASSUME NEW t, NEW awaits, Remaining(t, awaits)
  PROVE  awaits \in Seq(PromptKinds) /\ awaits # <<>> /\ Head(awaits) \in PromptKinds
         /\ Tail(awaits) \in Seq(PromptKinds) /\ t \in AllTypes
<1>1. awaits \in {<<"vencrypt", "subtype">>, <<"subtype">>, <<"response">>, <<"credentials">>, <<"hello">>,
                  <<"hello", "response">>, <<"hello", "credentials">>}
  BY AwaitsFacts DEF Remaining
<1>2. awaits \in Seq(PromptKinds) /\ awaits # <<>>
  <2>1. awaits \in Seq(PromptKinds)
    BY <1>1, PromptTuples, Zenon
  <2>2. awaits # <<>>
    BY <1>1
  <2>. QED  BY <2>1, <2>2
<1>3. t \in AllTypes
  BY DEF Remaining, AllTypes, Types
<1>. QED  BY <1>2, <1>3

-----------------------------------------------------------------------------
(* Lists of security types.                                                *)

LEMMA ListFacts == ASSUME NEW l \in Seq(Types) PROVE l \in Lists
<1>1. l \in [1 .. Len(l) -> AllTypes] /\ 1 .. Len(l) \in SUBSET Nat
  BY DEF AllTypes
<1>. QED  BY <1>1 DEF Lists

LEMMA OfferedFacts ==
  ASSUME NEW l \in Seq(Types)
  PROVE  /\ Offered(l) \in Lists
         /\ \A t : IsIn(t, Offered(l)) => t = "VeNCrypt" \/ (t \in Types \ Extended /\ IsIn(t, l))
<1>. DEFINE old == {i \in DOMAIN l : l[i] \notin Extended}
            dom == (IF old # DOMAIN l THEN {0} ELSE {}) \cup old
<1>1. Offered(l) = [i \in dom |-> IF i = 0 THEN "VeNCrypt" ELSE l[i]]
  BY DEF Offered
<1>2. DOMAIN l \subseteq Nat \ {0} /\ \A i \in DOMAIN l : l[i] \in Types
  OBVIOUS
<1>3. old \subseteq DOMAIN l /\ \A i \in old : l[i] \notin Extended
  OBVIOUS
<1>4. dom \subseteq Nat /\ \A i \in dom : i = 0 \/ i \in old
  BY <1>2
<1>. HIDE DEF dom, old
<1>5. Offered(l) \in [dom -> AllTypes]
  BY <1>1, <1>2, <1>3, <1>4 DEF AllTypes
<1>6. ASSUME NEW t, IsIn(t, Offered(l)) PROVE t = "VeNCrypt" \/ (t \in Types \ Extended /\ IsIn(t, l))
  <2>1. PICK i \in dom : Offered(l)[i] = t
    BY <1>1, <1>6 DEF IsIn
  <2>2. CASE i = 0
    BY <1>1, <2>1, <2>2
  <2>3. CASE i # 0
    BY <1>1, <1>2, <1>3, <1>4, <2>1, <2>3 DEF IsIn
  <2>. QED  BY <2>2, <2>3
<1>. QED  BY <1>4, <1>5, <1>6 DEF Lists

LEMMA CommonFacts ==
  ASSUME NEW theirs \in Lists, NEW mine, Common(theirs, mine) # "Invalid"
  PROVE  /\ Common(theirs, mine) \in AllTypes
         /\ IsIn(Common(theirs, mine), theirs) /\ IsIn(Common(theirs, mine), mine)
<1>. DEFINE both == {i \in DOMAIN theirs : IsIn(theirs[i], mine)}
            best == CHOOSE i \in both : \A j \in both : i <= j
<1>1. PICK D \in SUBSET Nat : theirs \in [D -> AllTypes]
  BY DEF Lists
<1>2. both # {} /\ Common(theirs, mine) = theirs[best]
  BY DEF Common
<1>3. both \subseteq Nat
  BY <1>1
<1>4. \E i \in both : \A j \in both : i <= j
  <2>. HIDE DEF both
  <2>. QED  BY <1>2, <1>3, Least
<1>5. best \in both
  BY <1>4
<1>6. best \in DOMAIN theirs /\ IsIn(theirs[best], mine)
  BY <1>5
<1>. HIDE DEF best
<1>. QED  BY <1>1, <1>2, <1>6 DEF IsIn

-----------------------------------------------------------------------------
(* Where the ends go.                                                      *)

LEMMA KindTuples ==
  /\ Seq(PromptKinds) \subseteq Seq(Kinds) /\ <<>> \in Seq(Kinds) /\ <<"version">> \in Seq(Kinds)
  /\ <<"init">> \in Seq(Kinds) /\ <<"result">> \in Seq(Kinds) /\ <<"type">> \in Seq(Kinds)
  /\ <<"types">> \in Seq(Kinds)
<1>1. PromptKinds \subseteq Kinds /\ {"version", "init", "result", "type", "types"} \subseteq Kinds
  BY DEF PromptKinds, Kinds
<1>2. Seq(PromptKinds) \subseteq Seq(Kinds)
  BY <1>1
<1>. QED  BY <1>1, <1>2, TupleTypes

LEMMA ClosedFacts ==
  ASSUME NEW S, NEW e \in End(S), "closed" \in S
  PROVE  Closed(e) \in End(S) /\ Closed(e).state = "closed" /\ Closed(e).minor = e.minor
         /\ Closed(e).type = e.type
  BY KindTuples DEF Closed, End

LEMMA ItemTypes ==
  /\ Item("vencrypt", 2) \in ToClient /\ Item("hello", 0) \in ToClient /\ Item("challenge", 0) \in ToClient
  /\ Item("init", 0) \in ToClient
  /\ \A b \in BOOLEAN : Item("tls", b) \in ToClient
  /\ \A r \in {"ok", "failed"} : Item("result", r) \in ToClient
  /\ \A l \in Lists : Item("types", l) \in ToClient /\ Item("subtypes", l) \in ToClient
  /\ \A t \in AllTypes \cup {"Invalid"} : Item("type", t) \in ToClient
  /\ \A v \in {3, 8} : Item("version", v) \in ToClient
  BY DEF ToClient

LEMMA PromptType ==
  ASSUME setup \in Setup, NEW k \in PromptKinds
  PROVE  Prompt(k) \in Seq(ToClient)
<1>1. setup.serverTypes \in Lists /\ setup.tls \in BOOLEAN
  BY ListFacts DEF Setup
<1>2. /\ <<Item("vencrypt", 2)>> \in Seq(ToClient) /\ <<Item("subtypes", setup.serverTypes)>> \in Seq(ToClient)
      /\ <<Item("challenge", 0)>> \in Seq(ToClient) /\ <<Item("tls", setup.tls)>> \in Seq(ToClient)
  BY <1>1, ItemTypes, TupleTypes
<1>3. <<>> \in Seq(ToClient)
  OBVIOUS
<1>. QED  BY <1>2, <1>3 DEF Prompt, PromptKinds

LEMMA ResultsType ==
  ASSUME NEW e, NEW r \in {"ok", "failed"}
  PROVE  Results(e, r) \in Seq(ToClient) /\ <<Item("result", r)>> \in Seq(ToClient)
<1>1. <<Item("result", r)>> \in Seq(ToClient) /\ <<>> \in Seq(ToClient)
  BY ItemTypes, TupleTypes
<1>. QED  BY <1>1 DEF Results

(* What Proceed comes to.                                                  *)
Proceeded(s, awaits, items) ==
  /\ server'.minor = s.minor /\ server'.type = s.type
  /\ \/ server'.state = "closed"
     \/ /\ awaits # <<>> /\ server'.state = "security" /\ server'.awaits = awaits
        /\ toClient' = toClient \o (items \o Prompt(Head(awaits)))
     \/ /\ awaits = <<>> /\ setup.consent = "accept"
        /\ server'.state = "initialisation" /\ server'.awaits = <<"init">>
        /\ toClient' = toClient \o (items \o Results(s, "ok"))
     \/ /\ awaits = <<>> /\ setup.consent = "ask"
        /\ server'.state = "querying" /\ server'.awaits = <<>>
        /\ toClient' = toClient \o items

LEMMA ProceedFacts ==
  ASSUME setup \in Setup, NEW s \in End(ServerStates), NEW awaits \in Seq(PromptKinds),
         NEW items \in Seq(ToClient), toClient \in Seq(ToClient), Proceed(s, awaits, items)
  PROVE  server' \in End(ServerStates) /\ toClient' \in Seq(ToClient) /\ Proceeded(s, awaits, items)
<1>0. {"security", "querying", "initialisation", "closed"} \subseteq ServerStates
  BY DEF ServerStates
<1>1. CASE awaits = <<>>
  <2>. DEFINE e == [s EXCEPT !.awaits = <<>>]
  <2>1. e \in End(ServerStates) /\ e.minor = s.minor /\ e.type = s.type /\ e.awaits = <<>>
    BY KindTuples DEF End
  <2>2. Results(e, "ok") = Results(s, "ok")
    BY <2>1 DEF Results
  <2>. HIDE DEF e
  <2>3. QueryConnection(e, items)
    BY <1>1 DEF Proceed, e
  <2>4. setup.consent \in {"accept", "reject", "ask"}
    BY DEF Setup
  <2>5. CASE setup.consent = "accept"
    <3>1. server' = [e EXCEPT !.state = "initialisation", !.awaits = <<"init">>]
          /\ toClient' = toClient \o (items \o Results(s, "ok"))
      BY <2>2, <2>3, <2>5 DEF QueryConnection, Deciding, Initialising
    <3>2. /\ server' \in End(ServerStates) /\ server'.state = "initialisation" /\ server'.awaits = <<"init">>
          /\ server'.minor = s.minor /\ server'.type = s.type
      BY <1>0, <2>1, <3>1, KindTuples DEF End
    <3>3. toClient' \in Seq(ToClient)
      BY <3>1, ResultsType, ConcatProperties
    <3>. QED  BY <1>1, <2>5, <3>1, <3>2, <3>3 DEF Proceeded
  <2>6. CASE setup.consent = "reject"
    <3>1. server' = Closed(e)
          /\ toClient' = toClient \o ((items \o Results(e, "failed")) \o <<Item("result", "failed")>>)
      BY <2>3, <2>6 DEF QueryConnection, Deciding
    <3>2. server' \in End(ServerStates) /\ server'.state = "closed"
          /\ server'.minor = s.minor /\ server'.type = s.type
      BY <1>0, <2>1, <3>1, ClosedFacts
    <3>3. items \o Results(e, "failed") \in Seq(ToClient) /\ <<Item("result", "failed")>> \in Seq(ToClient)
      BY ResultsType, ConcatProperties
    <3>4. toClient' \in Seq(ToClient)
      BY <3>1, <3>3, ConcatProperties
    <3>. QED  BY <3>2, <3>4 DEF Proceeded
  <2>7. CASE setup.consent = "ask"
    <3>1. server' = [e EXCEPT !.state = "querying"] /\ toClient' = toClient \o items
      BY <2>3, <2>7 DEF QueryConnection, Deciding
    <3>2. /\ server' \in End(ServerStates) /\ server'.state = "querying" /\ server'.awaits = <<>>
          /\ server'.minor = s.minor /\ server'.type = s.type
      BY <1>0, <2>1, <3>1 DEF End
    <3>3. toClient' \in Seq(ToClient)
      BY <3>1, ConcatProperties
    <3>. QED  BY <1>1, <2>7, <3>1, <3>2, <3>3 DEF Proceeded
  <2>. QED  BY <2>4, <2>5, <2>6, <2>7
<1>2. CASE awaits # <<>> /\ Awaiting(s, awaits, items)
  <2>1. server' = [s EXCEPT !.state = "security", !.awaits = awaits]
        /\ toClient' = toClient \o (items \o Prompt(Head(awaits)))
    BY <1>2 DEF Awaiting, Sending, Deciding
  <2>2. Head(awaits) \in PromptKinds
    BY <1>2
  <2>3. /\ server' \in End(ServerStates) /\ server'.state = "security" /\ server'.awaits = awaits
        /\ server'.minor = s.minor /\ server'.type = s.type
    BY <1>0, <2>1, KindTuples DEF End
  <2>4. toClient' \in Seq(ToClient)
    BY <2>1, <2>2, PromptType, ConcatProperties
  <2>. QED  BY <1>2, <2>1, <2>3, <2>4 DEF Proceeded
<1>3. CASE AuthFailure(s, items \o Prompt("hello"))
  <2>1. server' = Closed(s) /\ toClient' = toClient \o ((items \o Prompt("hello")) \o <<Item("result", "failed")>>)
    BY <1>3 DEF AuthFailure, Sending, Deciding
  <2>2. server' \in End(ServerStates) /\ server'.state = "closed"
        /\ server'.minor = s.minor /\ server'.type = s.type
    BY <1>0, <2>1, ClosedFacts
  <2>3. items \o Prompt("hello") \in Seq(ToClient) /\ <<Item("result", "failed")>> \in Seq(ToClient)
    BY PromptType, ResultsType, ConcatProperties DEF PromptKinds
  <2>4. toClient' \in Seq(ToClient)
    BY <2>1, <2>3, ConcatProperties
  <2>. QED  BY <2>2, <2>4 DEF Proceeded
<1>. QED  BY <1>1, <1>2, <1>3 DEF Proceed, StartTls

LEMMA FailureFacts ==
  ASSUME NEW s \in End(ServerStates), toClient \in Seq(ToClient), AuthFailure(s, <<>>)
  PROVE  server' \in End(ServerStates) /\ toClient' \in Seq(ToClient) /\ server'.state = "closed"
<1>1. server' = Closed(s) /\ toClient' = toClient \o (<<>> \o <<Item("result", "failed")>>)
  BY DEF AuthFailure, Sending, Deciding
<1>2. <<>> \o <<Item("result", "failed")>> \in Seq(ToClient)
  BY ResultsType, ConcatProperties
<1>3. toClient' \in Seq(ToClient)
  BY <1>1, <1>2, ConcatProperties
<1>. QED  BY <1>1, <1>3, ClosedFacts DEF ServerStates

ReplyTypes == ToServer(setup.password)
LEMMA ReplyItems ==
  /\ Item("vencrypt", 2) \in ReplyTypes /\ Item("hello", 0) \in ReplyTypes /\ Item("init", 0) \in ReplyTypes
  /\ Item("response", setup.password) \in ReplyTypes /\ Item("credentials", setup.password) \in ReplyTypes
  /\ \A t \in AllTypes : Item("type", t) \in ReplyTypes /\ Item("subtype", t) \in ReplyTypes
  /\ \A v \in {3, 5, 7, 8} : Item("version", v) \in ReplyTypes
  BY DEF ReplyTypes, ToServer

(* What Continue comes to.                                                 *)
Continued(c, awaits, items) ==
  /\ client'.minor = c.minor /\ client'.type = c.type
  /\ \/ /\ awaits # <<>> /\ client'.state = "security" /\ client'.awaits = awaits
        /\ toServer' = toServer \o items
     \/ /\ awaits = <<>> /\ c.minor < 8 /\ c.type = "None"
        /\ client'.state = "initialisation" /\ client'.awaits = <<"init">>
        /\ toServer' = toServer \o (items \o <<Item("init", 0)>>)
     \/ /\ awaits = <<>> /\ ~(c.minor < 8 /\ c.type = "None")
        /\ client'.state = "result" /\ client'.awaits = <<"result">>
        /\ toServer' = toServer \o (items \o Unasked(c))

LEMMA ContinueFacts ==
  ASSUME NEW c \in End(ClientStates), NEW awaits \in Seq(Kinds), NEW items \in Seq(ReplyTypes),
         toServer \in Seq(ReplyTypes), Continue(c, awaits, items)
  PROVE  client' \in End(ClientStates) /\ toServer' \in Seq(ReplyTypes) /\ Continued(c, awaits, items)
<1>0. {"security", "result", "initialisation"} \subseteq ClientStates
  BY DEF ClientStates
<1>1. <<Item("init", 0)>> \in Seq(ReplyTypes) /\ <<Item("credentials", setup.password)>> \in Seq(ReplyTypes)
  BY ReplyItems, TupleTypes
<1>2. Unasked(c) \in Seq(ReplyTypes)
  BY <1>1 DEF Unasked
<1>3. CASE awaits # <<>>
  <2>1. client' = [c EXCEPT !.state = "security", !.awaits = awaits] /\ toServer' = toServer \o items
    BY <1>3 DEF Continue, Replying
  <2>2. /\ client' \in End(ClientStates) /\ client'.minor = c.minor /\ client'.type = c.type
        /\ client'.state = "security" /\ client'.awaits = awaits
    BY <1>0, <2>1 DEF End
  <2>3. toServer' \in Seq(ReplyTypes)
    BY <2>1, ConcatProperties
  <2>. QED  BY <1>3, <2>1, <2>2, <2>3 DEF Continued
<1>4. CASE awaits = <<>> /\ c.minor < 8 /\ c.type = "None"
  <2>1. client' = [c EXCEPT !.state = "initialisation", !.awaits = <<"init">>]
        /\ toServer' = toServer \o (items \o <<Item("init", 0)>>)
    BY <1>4 DEF Continue, Replying, Completed, ClientInit
  <2>2. toServer' \in Seq(ReplyTypes)
    BY <1>1, <2>1, ConcatProperties
  <2>3. /\ client' \in End(ClientStates) /\ client'.minor = c.minor /\ client'.type = c.type
        /\ client'.state = "initialisation" /\ client'.awaits = <<"init">>
    BY <1>0, <2>1, KindTuples DEF End
  <2>. QED  BY <1>4, <2>1, <2>2, <2>3 DEF Continued
<1>5. CASE awaits = <<>> /\ ~(c.minor < 8 /\ c.type = "None")
  <2>1. client' = [c EXCEPT !.state = "result", !.awaits = <<"result">>]
        /\ toServer' = toServer \o (items \o Unasked(c))
    BY <1>5 DEF Continue, Replying
  <2>2. toServer' \in Seq(ReplyTypes)
    BY <1>2, <2>1, ConcatProperties
  <2>3. /\ client' \in End(ClientStates) /\ client'.minor = c.minor /\ client'.type = c.type
        /\ client'.state = "result" /\ client'.awaits = <<"result">>
    BY <1>0, <2>1, KindTuples DEF End
  <2>. QED  BY <1>5, <2>1, <2>2, <2>3 DEF Continued
<1>. QED  BY <1>3, <1>4, <1>5

-----------------------------------------------------------------------------
(* What a kind of item carries.                                            *)

LEMMA VersionSaid ==
  ASSUME NEW p, NEW x \in ToServer(p), x.kind = "version" PROVE x.val \in {3, 5, 7, 8}
  BY DEF ToServer, Item
LEMMA PasswordSaid ==
  ASSUME NEW p, NEW x \in ToServer(p), x.kind \in {"response", "credentials"} PROVE x.val = p
  BY DEF ToServer, Item
LEMMA TypeSaid ==
  ASSUME NEW p, NEW x \in ToServer(p), x.kind \in {"type", "subtype"} PROVE x.val \in AllTypes
  BY DEF ToServer, Item
LEMMA VersionTold == ASSUME NEW x \in ToClient, x.kind = "version" PROVE x.val \in {3, 8}
  BY DEF ToClient, Item
LEMMA TypesTold == ASSUME NEW x \in ToClient, x.kind \in {"types", "subtypes"} PROVE x.val \in Lists
  BY DEF ToClient, Item
LEMMA TlsTold == ASSUME NEW x \in ToClient, x.kind = "tls" PROVE x.val \in BOOLEAN
  BY DEF ToClient, Item

LEMMA QueueFacts ==
  ASSUME NEW S, NEW q \in Seq(S), q # <<>>
  PROVE  Head(q) \in S /\ Tail(q) \in Seq(S)
  OBVIOUS

(* Writing behind what is under way.                                       *)
LEMMA SendAfter ==
  ASSUME NEW S, NEW q \in Seq(S), NEW k, Holds(q, <<k>>), NEW l, NEW v, Item(l, v) \in S
  PROVE  Holds(q \o <<Item(l, v)>>, <<k, l>>)
<1>. DEFINE b == <<Item(l, v)>>
            r == q \o b
<1>1. b \in Seq(S) /\ Len(b) = 1 /\ b[1] = Item(l, v) /\ Item(l, v).kind = l
  BY DEF Item
<1>2. Len(q) = 1 /\ q[1].kind = k
  BY HoldsFacts
<1>. HIDE DEF b
<1>3. Len(r) = 2 /\ r[1] = q[1] /\ r[2] = b[1]
  <2>1. Len(q) = 1 /\ Len(b) = 1 /\ b \in Seq(S)
    BY <1>1, <1>2
  <2>. QED  BY <2>1, ConcatProperties
<1>4. Len(r) = 2 /\ r[1].kind = k /\ r[2].kind = l
  BY <1>1, <1>2, <1>3
<1>. HIDE DEF r
<1>5. Holds(r, <<k, l>>)
  BY <1>4, HoldsFacts
<1>. QED  BY <1>5 DEF r, b

-----------------------------------------------------------------------------
(* An end that does nothing stays as sound as it was.                      *)

LEMMA ServerKept == ASSUME ServerSound, UNCHANGED <<setup, server>> PROVE ServerSound'
  BY DEF ServerSound, Authenticated, Ready
LEMMA ClientKept == ASSUME ClientSound, UNCHANGED <<setup, client>> PROVE ClientSound'
  BY DEF ClientSound, ClientRemaining
LEMMA ServerGone == ASSUME server'.state = "closed" PROVE ServerSound' /\ ~Live'
  BY DEF ServerSound, Ready, Live
LEMMA ClientGone == ASSUME client'.state = "closed" PROVE ClientSound' /\ ~Live'
  BY DEF ClientSound, Live

(* A server that gives up, ...                                             *)
LEMMA ServerEnds ==
  ASSUME IInv, server' \in End(ServerStates), server'.state = "closed",
         UNCHANGED <<setup, client>>, toServer' \in Seq(ToServer(setup.password)), toClient' \in Seq(ToClient)
  PROVE  IInv'
<1>1. Typed'
  BY DEF IInv, Typed
<1>2. ClientSound'
  BY ClientKept DEF IInv
<1>. QED  BY <1>1, <1>2, ServerGone DEF IInv

(* ... a viewer that does.                                                 *)
LEMMA ClientEnds ==
  ASSUME IInv, client' \in End(ClientStates), client'.state = "closed",
         UNCHANGED <<setup, server>>, toServer' \in Seq(ToServer(setup.password)), toClient' \in Seq(ToClient)
  PROVE  IInv'
<1>1. Typed'
  BY DEF IInv, Typed
<1>2. ServerSound'
  BY ServerKept DEF IInv
<1>. QED  BY <1>1, <1>2, ClientGone DEF IInv

LEMMA Ends ==
  ASSUME Typed
  PROVE  /\ Closed(server) \in End(ServerStates) /\ Closed(server).state = "closed"
         /\ Closed(client) \in End(ClientStates) /\ Closed(client).state = "closed"
  BY ClosedFacts DEF Typed, ServerStates, ClientStates

LEMMA LostStep == ASSUME IInv, ServerBogus \/ ServerLost \/ ClientLost \/ GiveUp PROVE IInv'
<1>1. Typed
  BY DEF IInv
<1>2. CASE ServerBogus \/ ServerLost
  <2>1. server' = Closed(server) /\ UNCHANGED <<setup, client, toServer, toClient>>
    BY <1>2 DEF ServerBogus, ServerLost
  <2>. QED  BY <1>1, <2>1, Ends, ServerEnds DEF Typed
<1>3. CASE ClientLost \/ GiveUp
  <2>1. client' = Closed(client) /\ UNCHANGED <<setup, server, toServer, toClient>>
    BY <1>3 DEF ClientLost, GiveUp
  <2>. QED  BY <1>1, <2>1, Ends, ClientEnds DEF Typed
<1>. QED  BY <1>2, <1>3

LEMMA StutterStep == ASSUME IInv, UNCHANGED <<setup, server, client, toServer, toClient>> PROVE IInv'
<1>1. Typed' /\ ServerSound' /\ ClientSound'
  BY ServerKept, ClientKept DEF IInv, Typed
<1>2. Live' => Conversation'
  BY DEF IInv, Live, Conversation, Greeting, Choice, Chosen, SubtypeChosen, Told, Layers, VeNCryptLayer, TlsLayer,
         TlsDone, VncLayer, PlainLayer, Outcome, At, Begun, Results
<1>. QED  BY <1>1, <1>2 DEF IInv

LEMMA FreshEnds ==
  /\ NewServer \in End(ServerStates) /\ NewClient \in End(ClientStates)
  /\ NewServer.state = "new" /\ NewServer.awaits = <<>>
  /\ NewClient.state = "version" /\ NewClient.awaits = <<"version">>
  BY KindTuples DEF NewServer, NewClient, End, ServerStates, ClientStates, AllTypes

LEMMA Beginning ==
  ASSUME setup \in Setup, server = NewServer, client = NewClient, toServer = <<>>, toClient = <<>>
  PROVE  IInv
<1>1. toServer \in Seq(ToServer(setup.password)) /\ toClient \in Seq(ToClient)
  OBVIOUS
<1>2. Typed
  BY <1>1, FreshEnds DEF Typed
<1>3. Holds(toServer, <<>>) /\ Holds(toClient, <<>>)
  BY <1>1, HoldsNone
<1>4. Greeting
  BY <1>3, FreshEnds DEF Greeting, At
<1>5. ServerSound /\ ClientSound
  BY FreshEnds DEF ServerSound, ClientSound, Ready
<1>. QED  BY <1>2, <1>4, <1>5 DEF IInv, Conversation

LEMMA RetryStep == ASSUME IInv, Retry PROVE IInv'
<1>1. setup' \in Setup
  <2>1. PICK right \in BOOLEAN : setup' = [setup EXCEPT !.password = right]
    BY DEF Retry
  <2>. QED  BY <2>1 DEF IInv, Typed, Setup
<1>2. server' = NewServer /\ client' = NewClient /\ toServer' = <<>> /\ toClient' = <<>>
  BY DEF Retry
<1>3. toServer' \in Seq(ToServer(setup.password)') /\ toClient' \in Seq(ToClient)
  BY <1>2
<1>4. Typed'
  BY <1>1, <1>2, <1>3, FreshEnds DEF Typed
<1>5. Holds(toServer', <<>>) /\ Holds(toClient', <<>>)
  BY <1>3, <1>2, HoldsNone
<1>6. Greeting'
  BY <1>2, <1>5, FreshEnds DEF Greeting, At
<1>7. ServerSound' /\ ClientSound'
  BY <1>2, FreshEnds DEF ServerSound, ClientSound, Ready
<1>. QED  BY <1>4, <1>6, <1>7 DEF IInv, Conversation

-----------------------------------------------------------------------------
(* The greeting.                                                           *)

(* A queue in one direction only, where there is something to read.        *)
LEMMA Empty ==
  ASSUME Typed
  PROVE  (Holds(toServer, <<>>) <=> toServer = <<>>) /\ (Holds(toClient, <<>>) <=> toClient = <<>>)
  BY HoldsNone DEF Typed

LEMMA RefuseStep == ASSUME IInv, Refuse PROVE IInv'
<1>1. Typed
  BY DEF IInv
<1>2. /\ server' = Closed(server) /\ toClient' = toClient \o <<Item("version", 3), Item("type", "Invalid")>>
      /\ UNCHANGED <<setup, client, toServer>>
  BY DEF Refuse, Deciding
<1>3. Item("version", 3) \in ToClient /\ Item("type", "Invalid") \in ToClient
  BY ItemTypes
<1>4. <<Item("version", 3), Item("type", "Invalid")>> \in Seq(ToClient)
  BY <1>3, TupleTypes
<1>5. toClient' \in Seq(ToClient)
  BY <1>1, <1>2, <1>4, ConcatProperties DEF Typed
<1>. QED  BY <1>1, <1>2, <1>5, Ends, ServerEnds DEF Typed

LEMMA AddSocketStep == ASSUME IInv, AddSocket PROVE IInv'
<1>1. Typed /\ ClientSound /\ (Live => Conversation)
  BY DEF IInv
<1>2. /\ server' = [server EXCEPT !.state = "version", !.awaits = <<"version">>]
      /\ toClient' = toClient \o <<Item("version", setup.serverMinor)>>
      /\ UNCHANGED <<setup, client, toServer>> /\ server.state = "new"
  BY DEF AddSocket, Deciding
<1>3. server' \in End(ServerStates) /\ server'.state = "version" /\ server'.awaits = <<"version">>
  BY <1>1, <1>2, KindTuples DEF Typed, End, ServerStates
<1>4. setup.serverMinor \in {3, 8}
  BY <1>1 DEF Typed, Setup
<1>5. <<Item("version", setup.serverMinor)>> \in Seq(ToClient)
  BY <1>4, ItemTypes, TupleTypes
<1>6. toClient' \in Seq(ToClient)
  BY <1>1, <1>2, <1>5, ConcatProperties DEF Typed
<1>7. Typed'
  BY <1>1, <1>2, <1>3, <1>6 DEF Typed
<1>8. ServerSound' /\ ClientSound'
  BY <1>1, <1>2, <1>3, ClientKept DEF ServerSound, Ready
<1>9. ASSUME Live' PROVE Conversation'
  <2>1. Live
    BY <1>2, <1>9 DEF Live
  <2>2. At("new", <<>>, "version", <<"version">>, <<>>, <<>>)
    BY <1>1, <1>2, <2>1 DEF Conversation, Greeting, Choice, Chosen, SubtypeChosen, Told, Layers, VeNCryptLayer,
                            TlsLayer, TlsDone, VncLayer, PlainLayer, Outcome, At
  <2>3. Holds(toClient', <<"version">>)
    <3>1. toClient = <<>>
      BY <1>1, <2>2, Empty DEF At
    <3>. QED  BY <1>2, <3>1, SendOne
  <2>4. At("version", <<"version">>, "version", <<"version">>, <<"version">>, <<>>)'
    BY <1>2, <1>3, <2>2, <2>3 DEF At
  <2>. QED  BY <2>4 DEF Conversation, Greeting
<1>. QED  BY <1>7, <1>8, <1>9 DEF IInv

LEMMA ClientVersionStep == ASSUME IInv, ClientVersion PROVE IInv'
<1>. DEFINE theirs == Head(toClient).val
            said == IF theirs < setup.clientMinor THEN theirs ELSE setup.clientMinor
            minor == Official(said)
<1>1. Typed /\ ServerSound /\ (Live => Conversation)
  BY DEF IInv
<1>2. /\ client.state = "version" /\ toClient # <<>> /\ Head(toClient).kind = "version"
      /\ toClient' = Tail(toClient) /\ UNCHANGED <<setup, server>>
      /\ client' = [client EXCEPT !.state = "types", !.minor = minor,
                                  !.awaits = <<IF minor = 3 THEN "type" ELSE "types">>]
      /\ toServer' = toServer \o <<Item("version", said)>>
  BY DEF ClientVersion, Receive, Replying
<1>3. theirs \in {3, 8}
  BY <1>1, <1>2, QueueFacts, VersionTold DEF Typed
<1>4. setup.clientMinor \in {3, 5, 7, 8}
  BY <1>1 DEF Typed, Setup
<1>5. said \in {3, 5, 7, 8} /\ minor \in {3, 7, 8}
  <2>1. said \in {3, 5, 7, 8}
    BY <1>3, <1>4
  <2>. HIDE DEF said
  <2>. QED  BY <2>1 DEF Official
<1>. HIDE DEF said, minor
<1>6. <<IF minor = 3 THEN "type" ELSE "types">> \in Seq(Kinds)
  BY KindTuples
<1>7. /\ client' \in End(ClientStates) /\ client'.state = "types" /\ client'.minor = minor
      /\ client'.awaits = <<IF client'.minor = 3 THEN "type" ELSE "types">>
  BY <1>1, <1>2, <1>5, <1>6 DEF Typed, End, ClientStates
<1>8. <<Item("version", said)>> \in Seq(ToServer(setup.password))
  BY <1>5, ReplyItems, TupleTypes DEF ReplyTypes
<1>9. toServer' \in Seq(ToServer(setup.password)) /\ toClient' \in Seq(ToClient)
  <2>1. toServer' \in Seq(ToServer(setup.password))
    BY <1>1, <1>2, <1>8, ConcatProperties DEF Typed
  <2>2. toClient' \in Seq(ToClient)
    BY <1>1, <1>2, QueueFacts DEF Typed
  <2>. QED  BY <2>1, <2>2
<1>10. Typed'
  BY <1>1, <1>2, <1>7, <1>9 DEF Typed
<1>11. ServerSound' /\ ClientSound'
  BY <1>1, <1>2, <1>7, ServerKept DEF ClientSound
<1>12. ASSUME Live' PROVE Conversation'
  <2>1. Live
    BY <1>2, <1>12 DEF Live
  <2>2. At("version", <<"version">>, "version", <<"version">>, <<"version">>, <<>>)
    BY <1>1, <1>2, <2>1, Empty DEF Conversation, Greeting, Choice, Chosen, Begun, SubtypeChosen, Told, Layers,
                                   VeNCryptLayer, TlsLayer, TlsDone, VncLayer, PlainLayer, Outcome, At
  <2>3. Holds(toServer', <<"version">>) /\ toServer'[1] = Item("version", said)
    <3>1. toServer = <<>> /\ toServer' = toServer \o <<Item("version", said)>>
      BY <1>1, <1>2, <2>2, Empty DEF At
    <3>2. Holds(toServer', <<"version">>)
      BY <3>1, SendOne
    <3>. QED  BY <3>1, <3>2, SendFirst
  <2>4. Holds(toClient', <<>>)
    BY <1>1, <1>2, <2>2, HoldsOne DEF At, Typed
  <2>5. client'.minor = Official(toServer'[1].val)
    BY <1>7, <2>3 DEF Item, minor
  <2>. QED  BY <1>2, <1>7, <2>2, <2>3, <2>4, <2>5 DEF Conversation, Greeting, At
<1>. QED  BY <1>10, <1>11, <1>12 DEF IInv

-----------------------------------------------------------------------------
(* The server goes through a security type.                                *)

(* What it needs to know to go on with the items of the list.              *)
Provided(t, awaits) ==
  IF awaits = <<>> THEN IsIn(t, setup.serverTypes) /\ Authenticated(t)
  ELSE Remaining(t, awaits) /\ (t = "VeNCrypt" \/ IsIn(t, setup.serverTypes))

LEMMA ProceedSound ==
  ASSUME NEW s, NEW awaits, NEW items, Proceeded(s, awaits, items), Provided(s.type, awaits), setup' = setup
  PROVE  ServerSound'
  BY DEF Proceeded, Provided, ServerSound, Authenticated, Ready

LEMMA FreshProvided ==
  ASSUME NEW t \in AllTypes, t = "VeNCrypt" \/ IsIn(t, setup.serverTypes)
  PROVE  Provided(t, ServerAwaits(t))
<1>1. t \in {"VeNCrypt", "None", "VncAuth", "Plain", "TLSNone", "TLSVnc", "TLSPlain"}
  BY DEF AllTypes, Types
<1>2. CASE t = "None"
  BY <1>2, AwaitsFacts DEF Provided, Authenticated
<1>3. CASE t # "None"
  <2>1. Remaining(t, ServerAwaits(t))
    BY <1>1, <1>3, AwaitsFacts DEF Remaining
  <2>2. ServerAwaits(t) # <<>>
    BY <2>1, RemainingFacts
  <2>. QED  BY <2>1, <2>2 DEF Provided
<1>. QED  BY <1>2, <1>3

LEMMA PromptFacts ==
  /\ Prompt("vencrypt") = <<Item("vencrypt", 2)>> /\ Prompt("subtype") = <<Item("subtypes", setup.serverTypes)>>
  /\ Prompt("response") = <<Item("challenge", 0)>> /\ Prompt("hello") = <<Item("tls", setup.tls)>>
  /\ Prompt("credentials") = <<>>
  BY DEF Prompt

(* Sending into an empty queue.                                            *)
LEMMA Alone ==
  ASSUME NEW q, q = <<>>, NEW k, NEW v, NEW r, r = q \o (<<>> \o <<Item(k, v)>>)
  PROVE  Holds(r, <<k>>)
<1>1. r = q \o <<Item(k, v)>>
  OBVIOUS
<1>. QED  BY <1>1, SendOne
LEMMA NothingSent ==
  ASSUME NEW q, q = <<>>, NEW r, r = q \o (<<>> \o <<>>)
  PROVE  r = <<>> /\ Holds(r, <<>>)
<1>1. r = <<>>
  OBVIOUS
<1>. QED  BY <1>1, HoldsFacts

(* The client has chosen, and may have sent more already: the server comes *)
(* to meet it.                                                             *)
LEMMA BegunProceeds ==
  ASSUME Typed, NEW k, Begun(k), toClient = <<>>, NEW s, s.minor = client.minor, s.type = client.type,
         client.type \in AllTypes, Proceeded(s, ServerAwaits(client.type), <<>>),
         toServer' = Tail(toServer), UNCHANGED <<setup, client>>, server'.state # "closed"
  PROVE  Layers'
<1>. DEFINE t == client.type
<1>0. /\ server'.minor = client'.minor /\ server'.type = client'.type /\ server'.type = t /\ server'.minor = s.minor
      /\ client.minor \in {0, 3, 7, 8} /\ toServer \in Seq(ToServer(setup.password))
  BY DEF Proceeded, Typed, End
<1>1. t \in {"VeNCrypt", "None", "VncAuth", "Plain", "TLSNone", "TLSVnc", "TLSPlain"}
  BY DEF AllTypes, Types
<1>2. CASE t = "None" /\ client.minor < 8
  <2>1. Holds(toServer', <<"init">>)
    BY <1>0, <1>2, HoldsTwo DEF Begun
  <2>2. Results(s, "ok") = <<>> /\ Results(server', "ok") = <<>>
    BY <1>0, <1>2 DEF Results
  <2>3. client'.state = "initialisation" /\ client'.awaits = <<"init">>
    BY <1>2 DEF Begun
  <2>4. \/ server'.state = "initialisation" /\ server'.awaits = <<"init">> /\ toClient' = <<>>
        \/ server'.state = "querying" /\ server'.awaits = <<>> /\ toClient' = <<>>
    BY <1>2, <2>2, AwaitsFacts DEF Proceeded
  <2>5. Holds(toClient', <<>>)
    BY <2>4, HoldsFacts
  <2>6. Outcome'
    BY <2>1, <2>2, <2>3, <2>4, <2>5 DEF Outcome, At
  <2>. QED  BY <1>0, <1>2, <2>6 DEF Layers, Types
<1>3. CASE t = "None" /\ ~(client.minor < 8)
  <2>1. Holds(toServer', <<>>) /\ client'.state = "result" /\ client'.awaits = <<"result">>
    BY <1>0, <1>3, HoldsOne DEF Begun
  <2>2. Results(s, "ok") = <<Item("result", "ok")>> /\ Results(server', "ok") # <<>>
    BY <1>0, <1>3 DEF Results
  <2>3. \/ /\ server'.state = "initialisation" /\ server'.awaits = <<"init">>
           /\ toClient' = toClient \o (<<>> \o <<Item("result", "ok")>>)
        \/ server'.state = "querying" /\ server'.awaits = <<>> /\ toClient' = <<>>
    BY <1>3, <2>2, AwaitsFacts DEF Proceeded
  <2>4. CASE server'.state = "initialisation"
    <3>1. Holds(toClient', <<"result">>)
      BY <2>3, <2>4, Alone
    <3>2. Outcome'
      BY <2>1, <2>2, <2>3, <2>4, <3>1 DEF Outcome, At
    <3>. QED  BY <1>0, <1>3, <3>2 DEF Layers, Types
  <2>5. CASE server'.state = "querying"
    <3>1. Holds(toClient', <<>>)
      BY <2>3, <2>5, HoldsFacts
    <3>2. Outcome'
      BY <2>1, <2>2, <2>3, <2>5, <3>1 DEF Outcome, At
    <3>. QED  BY <1>0, <1>3, <3>2 DEF Layers, Types
  <2>. QED  BY <2>3, <2>4, <2>5
<1>4. CASE t = "Plain"
  <2>1. Holds(toServer', <<"credentials">>) /\ client'.state = "result" /\ client'.awaits = <<"result">>
    BY <1>0, <1>4, HoldsTwo DEF Begun
  <2>2. server'.state = "security" /\ server'.awaits = <<"credentials">> /\ toClient' = <<>> \o (<<>> \o <<>>)
    BY <1>4, AwaitsFacts, PromptFacts, Tuples DEF Proceeded
  <2>3. Holds(toClient', <<>>)
    BY <2>2, NothingSent
  <2>. QED  BY <1>0, <1>4, <2>1, <2>2, <2>3 DEF Layers, PlainLayer, At
<1>5. CASE t \notin {"None", "Plain"}
  <2>1. Holds(toServer', <<>>) /\ client'.state = "security" /\ client'.awaits = ClientAwaits(t)
    BY <1>0, <1>5, HoldsOne DEF Begun
  <2>2. ServerAwaits(t) # <<>>
    BY <1>1, <1>5, AwaitsFacts, Tuples
  <2>3. /\ server'.state = "security" /\ server'.awaits = ServerAwaits(t)
        /\ toClient' = toClient \o (<<>> \o Prompt(Head(ServerAwaits(t))))
    BY <2>2 DEF Proceeded
  <2>4. CASE t = "VeNCrypt"
    <3>0. toClient' = toClient \o (<<>> \o <<Item("vencrypt", 2)>>)
      BY <2>3, <2>4, AwaitsFacts, PromptFacts, Tuples
    <3>1. Holds(toClient', <<"vencrypt">>)
      BY <3>0, Alone
    <3>. QED  BY <1>0, <2>1, <2>3, <2>4, <3>1, AwaitsFacts DEF Layers, VeNCryptLayer, At
  <2>5. CASE t = "VncAuth"
    <3>0. toClient' = toClient \o (<<>> \o <<Item("challenge", 0)>>)
      BY <2>3, <2>5, AwaitsFacts, PromptFacts, Tuples
    <3>1. Holds(toClient', <<"challenge">>)
      BY <3>0, Alone
    <3>. QED  BY <1>0, <2>1, <2>3, <2>5, <3>1, AwaitsFacts DEF Layers, VncLayer, At
  <2>6. CASE t \in {"TLSNone", "TLSVnc", "TLSPlain"}
    <3>1. Head(ServerAwaits(t)) = "hello"
      BY <2>6, AwaitsFacts, Tuples
    <3>2. Holds(toClient', <<"tls">>)
      BY <2>3, <3>1, PromptFacts, Alone
    <3>3. TlsLayer(t)'
      BY <1>0, <2>1, <2>3, <3>2 DEF TlsLayer, At
    <3>. QED  BY <1>0, <2>6, <3>3 DEF Layers
  <2>. QED  BY <1>1, <1>5, <2>4, <2>5, <2>6
<1>. QED  BY <1>1, <1>2, <1>3, <1>4, <1>5

LEMMA ServerTypeStep == ASSUME IInv, ServerType PROVE IInv'
<1>. DEFINE t == Head(toServer).val
            s == [server EXCEPT !.type = t]
<1>1. Typed /\ ClientSound /\ (Live => Conversation)
  BY DEF IInv
<1>2. /\ server.state = "type" /\ toServer # <<>> /\ Head(toServer).kind = "type" /\ toServer' = Tail(toServer)
      /\ UNCHANGED <<setup, client>>
  BY DEF ServerType, Read
<1>3. toServer' \in Seq(ToServer(setup.password)) /\ t \in AllTypes
  BY <1>1, <1>2, QueueFacts, TypeSaid DEF Typed
<1>4. CASE IsIn(t, Offered(setup.serverTypes))
  <2>1. Proceed(s, ServerAwaits(t), <<>>)
    BY <1>4 DEF ServerType
  <2>2. s \in End(ServerStates) /\ s.minor = server.minor /\ s.type = t
    BY <1>1, <1>3 DEF Typed, End
  <2>3. t = "VeNCrypt" \/ IsIn(t, setup.serverTypes)
    <3>1. setup.serverTypes \in Seq(Types)
      BY <1>1 DEF Typed, Setup
    <3>. QED  BY <1>4, <3>1, OfferedFacts
  <2>4. ServerAwaits(t) \in Seq(PromptKinds) /\ <<>> \in Seq(ToClient)
    BY <1>3, AwaitsTypes
  <2>. HIDE DEF t, s
  <2>5. server' \in End(ServerStates) /\ toClient' \in Seq(ToClient) /\ Proceeded(s, ServerAwaits(t), <<>>)
    BY <1>1, <2>1, <2>2, <2>4, ProceedFacts DEF Typed
  <2>6. Typed'
    BY <1>1, <1>2, <1>3, <2>5 DEF Typed
  <2>7. Provided(s.type, ServerAwaits(t))
    BY <1>3, <2>2, <2>3, FreshProvided
  <2>8. ServerSound' /\ ClientSound'
    BY <1>1, <1>2, <2>5, <2>7, ProceedSound, ClientKept
  <2>9. ASSUME Live' PROVE Conversation'
    <3>1. Live
      BY <1>2, <2>9 DEF Live
    <3>2. Chosen
      BY <1>1, <1>2, <3>1, Empty DEF Conversation, Greeting, Choice, SubtypeChosen, Told, Layers, VeNCryptLayer,
                                     TlsLayer, TlsDone, VncLayer, PlainLayer, Outcome, At
    <3>3. Head(toServer) = toServer[1]
      BY <1>2
    <3>4. t = client.type /\ toClient = <<>> /\ Begun("type") /\ s.minor = client.minor
      BY <1>1, <2>2, <3>2, <3>3, Empty DEF Chosen, t
    <3>5. server'.state # "closed"
      BY <2>9 DEF Live
    <3>6. Layers'
      BY <1>1, <1>2, <1>3, <2>2, <2>5, <3>4, <3>5, BegunProceeds
    <3>. QED  BY <3>6 DEF Conversation
  <2>. QED  BY <2>6, <2>8, <2>9 DEF IInv
<1>5. CASE ~IsIn(t, Offered(setup.serverTypes))
  <2>1. server' = Closed(server) /\ toClient' = toClient \o <<>>
    BY <1>5 DEF ServerType, Sending, Deciding
  <2>2. toClient' \in Seq(ToClient)
    BY <1>1, <2>1 DEF Typed
  <2>. QED  BY <1>1, <1>2, <1>3, <2>1, <2>2, Ends, ServerEnds
<1>. QED  BY <1>4, <1>5

(* A type for a 3.3 client is one of the two old ones and configured.      *)
LEMMA LegacyFacts ==
  ASSUME NEW l \in Seq(Types), Legacy(Offered(l)) # "Invalid"
  PROVE  Legacy(Offered(l)) \in {"None", "VncAuth"} /\ IsIn(Legacy(Offered(l)), l)
<1>. DEFINE t == Legacy(Offered(l))
<1>1. Offered(l) \in Lists
  BY OfferedFacts
<1>2. IsIn(t, Offered(l)) /\ IsIn(t, <<"None", "VncAuth">>)
  BY <1>1, CommonFacts DEF Legacy
<1>3. t \in {"None", "VncAuth"}
  BY <1>2 DEF IsIn
<1>4. IsIn(t, l)
  <2>. HIDE DEF t
  <2>. QED  BY <1>2, <1>3, OfferedFacts
<1>. QED  BY <1>3, <1>4

(* A 3.3 client is told its type, and what goes with it.                   *)
LEMMA ToldFacts ==
  ASSUME toClient = <<>>, NEW t \in {"None", "VncAuth"}, NEW s, s.minor = 3, s.type = t, client.minor = 3,
         client.state = "types", client.awaits = <<"type">>, Proceeded(s, ServerAwaits(t), <<Item("type", t)>>),
         toServer' = <<>>, UNCHANGED client, server'.state # "closed"
  PROVE  Told'
<1>. DEFINE a == <<Item("type", t)>>
<1>0. Holds(toServer', <<>>) /\ server'.minor = 3 /\ server'.type = t /\ Item("type", t).val = t
  BY HoldsFacts DEF Proceeded, Item
<1>1. CASE t = "None"
  <2>1. Results(s, "ok") = <<>>
    BY <1>1 DEF Results
  <2>2. \/ server'.state = "initialisation" /\ server'.awaits = <<"init">> /\ toClient' = toClient \o (a \o <<>>)
        \/ server'.state = "querying" /\ server'.awaits = <<>> /\ toClient' = toClient \o a
    BY <1>1, <2>1, AwaitsFacts DEF Proceeded
  <2>3. toClient' = toClient \o a
    BY <2>2
  <2>4. Holds(toClient', <<"type">>)
    BY <2>3, SendOne
  <2>5. toClient'[1] = Item("type", t)
    BY <2>3, SendFirst
  <2>. QED  BY <1>0, <1>1, <2>2, <2>4, <2>5 DEF Told, At
<1>2. CASE t = "VncAuth"
  <2>0. ServerAwaits(t) = <<"response">> /\ <<"response">> # <<>> /\ Head(<<"response">>) = "response"
    BY <1>2, AwaitsFacts
  <2>1. /\ server'.state = "security" /\ server'.awaits = <<"response">>
        /\ toClient' = toClient \o (a \o <<Item("challenge", 0)>>)
    BY <2>0, PromptFacts DEF Proceeded
  <2>2. toClient' = a \o <<Item("challenge", 0)>>
    BY <2>1
  <2>3. Holds(toClient', <<"type", "challenge">>) /\ toClient'[1] = Item("type", t)
    BY <2>2, SendTwo
  <2>. QED  BY <1>0, <1>2, <2>1, <2>3 DEF Told, At
<1>. QED  BY <1>1, <1>2

LEMMA ServerVersionStep == ASSUME IInv, ServerVersion PROVE IInv'
<1>. DEFINE minor == Official(Head(toServer).val)
            s == [server EXCEPT !.minor = minor]
            offers == Offered(setup.serverTypes)
            legacy == Legacy(offers)
<1>1. Typed /\ ClientSound /\ (Live => Conversation)
  BY DEF IInv
<1>2. /\ server.state = "version" /\ toServer # <<>> /\ Head(toServer).kind = "version"
      /\ toServer' = Tail(toServer) /\ UNCHANGED <<setup, client>>
  BY DEF ServerVersion, Read
<1>3. toServer' \in Seq(ToServer(setup.password)) /\ minor \in {3, 7, 8}
  <2>1. toServer' \in Seq(ToServer(setup.password)) /\ Head(toServer).val \in {3, 5, 7, 8}
    BY <1>1, <1>2, QueueFacts, VersionSaid DEF Typed
  <2>. QED  BY <2>1 DEF Official
<1>4. s \in End(ServerStates) /\ s.minor = minor
  BY <1>1, <1>3 DEF Typed, End
<1>5. setup.serverTypes \in Seq(Types) /\ offers \in Lists
  BY <1>1, OfferedFacts DEF Typed, Setup
<1>6. ASSUME Live
      PROVE  /\ At("version", <<"version">>, "types", client.awaits, <<>>, <<"version">>) /\ client.minor = minor
             /\ toServer' = <<>> /\ toClient = <<>>
             /\ client.awaits = <<IF client.minor = 3 THEN "type" ELSE "types">>
  <2>1. /\ At("version", <<"version">>, "types", client.awaits, <<>>, <<"version">>)
        /\ client.minor = Official(toServer[1].val)
    BY <1>1, <1>2, <1>6, Empty DEF Conversation, Greeting, Choice, Chosen, SubtypeChosen, Told, Layers,
                                   VeNCryptLayer, TlsLayer, TlsDone, VncLayer, PlainLayer, Outcome, At
  <2>2. toClient = <<>>
    BY <1>1, <2>1, Empty DEF At
  <2>3. Head(toServer) = toServer[1] /\ Holds(toServer', <<>>)
    BY <1>1, <1>2, <2>1, HoldsOne DEF At, Typed
  <2>4. toServer' = <<>>
    BY <1>3, <2>3, HoldsNone
  <2>5. client.awaits = <<IF client.minor = 3 THEN "type" ELSE "types">>
    BY <1>1, <2>1 DEF ClientSound, At
  <2>. QED  BY <2>1, <2>2, <2>3, <2>4, <2>5
<1>7. CASE minor = 3 /\ legacy = "Invalid"
  <2>1. server' = Closed(s) /\ toClient' = toClient \o <<Item("type", "Invalid")>>
    BY <1>7 DEF ServerVersion, Sending, Deciding
  <2>2. <<Item("type", "Invalid")>> \in Seq(ToClient)
    BY ItemTypes, TupleTypes
  <2>3. toClient' \in Seq(ToClient)
    BY <1>1, <2>1, <2>2, ConcatProperties DEF Typed
  <2>. HIDE DEF s
  <2>4. server' \in End(ServerStates) /\ server'.state = "closed"
    BY <1>4, <2>1, ClosedFacts DEF ServerStates
  <2>. QED  BY <1>2, <1>3, <2>3, <2>4, ServerEnds
<1>8. CASE minor = 3 /\ legacy # "Invalid"
  <2>. DEFINE e == [s EXCEPT !.type = legacy]
              items == <<Item("type", legacy)>>
  <2>1. Proceed(e, ServerAwaits(legacy), items)
    BY <1>8 DEF ServerVersion
  <2>2. legacy \in {"None", "VncAuth"} /\ IsIn(legacy, setup.serverTypes)
    BY <1>5, <1>8, LegacyFacts
  <2>. HIDE DEF legacy, s
  <2>3. legacy \in AllTypes
    BY <2>2 DEF AllTypes, Types
  <2>4. e \in End(ServerStates) /\ e.minor = minor /\ e.type = legacy
    BY <1>4, <2>3 DEF End
  <2>5. items \in Seq(ToClient) /\ ServerAwaits(legacy) \in Seq(PromptKinds)
    BY <2>3, ItemTypes, TupleTypes, AwaitsTypes
  <2>. HIDE DEF e, items
  <2>6. server' \in End(ServerStates) /\ toClient' \in Seq(ToClient) /\ Proceeded(e, ServerAwaits(legacy), items)
    BY <1>1, <2>1, <2>4, <2>5, ProceedFacts DEF Typed
  <2>7. Typed'
    BY <1>1, <1>2, <1>3, <2>6 DEF Typed
  <2>8. Provided(e.type, ServerAwaits(legacy))
    BY <2>2, <2>3, <2>4, FreshProvided
  <2>9. ServerSound' /\ ClientSound'
    BY <1>1, <1>2, <2>6, <2>8, ProceedSound, ClientKept
  <2>10. ASSUME Live' PROVE Conversation'
    <3>1. Live /\ server'.state # "closed"
      BY <1>2, <2>10 DEF Live
    <3>2. client.minor = 3 /\ client.state = "types" /\ client.awaits = <<"type">> /\ toServer' = <<>> /\ toClient = <<>>
      BY <1>6, <1>8, <3>1 DEF At
    <3>3. Proceeded(e, ServerAwaits(legacy), <<Item("type", legacy)>>) /\ e.minor = 3
      BY <1>8, <2>4, <2>6 DEF items
    <3>4. Told'
      BY <1>2, <2>2, <2>4, <3>1, <3>2, <3>3, ToldFacts
    <3>. QED  BY <3>4 DEF Conversation
  <2>. QED  BY <2>7, <2>9, <2>10 DEF IInv
<1>9. CASE minor # 3
  <2>1. toClient' = toClient \o <<Item("types", offers)>>
    BY <1>9 DEF ServerVersion, Sending, Deciding
  <2>2. <<Item("types", offers)>> \in Seq(ToClient)
    BY <1>5, ItemTypes, TupleTypes
  <2>3. toClient' \in Seq(ToClient)
    BY <1>1, <2>1, <2>2, ConcatProperties DEF Typed
  <2>4. CASE DOMAIN offers = {}
    <3>1. server' = Closed(s)
      BY <1>9, <2>4 DEF ServerVersion, Sending, Deciding
    <3>. HIDE DEF s
    <3>2. server' \in End(ServerStates) /\ server'.state = "closed"
      BY <1>4, <3>1, ClosedFacts DEF ServerStates
    <3>. QED  BY <1>2, <1>3, <2>3, <3>2, ServerEnds
  <2>5. CASE DOMAIN offers # {}
    <3>1. server' = [s EXCEPT !.state = "type", !.awaits = <<"type">>]
      BY <1>9, <2>5 DEF ServerVersion, Sending, Deciding
    <3>. HIDE DEF s, offers
    <3>2. /\ server' \in End(ServerStates) /\ server'.state = "type" /\ server'.awaits = <<"type">>
          /\ server'.minor = minor
      BY <1>4, <3>1, KindTuples DEF End, ServerStates
    <3>3. Typed'
      BY <1>1, <1>2, <1>3, <2>3, <3>2 DEF Typed
    <3>4. ServerSound' /\ ClientSound'
      BY <1>1, <1>2, <3>2, ClientKept DEF ServerSound, Ready
    <3>5. ASSUME Live' PROVE Conversation'
      <4>1. Live
        BY <1>2, <3>5 DEF Live
      <4>2. client.minor = minor /\ client.state = "types" /\ client.awaits = <<"types">> /\ toServer' = <<>> /\ toClient = <<>>
        BY <1>6, <1>9, <4>1 DEF At
      <4>3. Holds(toClient', <<"types">>)
        BY <2>1, <4>2, SendOne
      <4>4. Holds(toServer', <<>>)
        BY <4>2, HoldsFacts
      <4>5. Choice'
        BY <1>2, <1>9, <3>2, <4>2, <4>3, <4>4 DEF Choice, At
      <4>. QED  BY <4>5 DEF Conversation
    <3>. QED  BY <3>3, <3>4, <3>5 DEF IInv
  <2>. QED  BY <2>4, <2>5
<1>. QED  BY <1>7, <1>8, <1>9

-----------------------------------------------------------------------------
(* One step of the security type at the server.                            *)

LEMMA RemainingOf ==
  ASSUME NEW t, NEW awaits, Remaining(t, awaits)
  PROVE  /\ Head(awaits) = "vencrypt" => t = "VeNCrypt" /\ awaits = <<"vencrypt", "subtype">>
         /\ Head(awaits) = "subtype" => t = "VeNCrypt" /\ awaits = <<"subtype">>
         /\ Head(awaits) = "response" => t \in {"VncAuth", "TLSVnc"} /\ awaits = <<"response">>
         /\ Head(awaits) = "credentials" => t \in {"Plain", "TLSPlain"} /\ awaits = <<"credentials">>
         /\ Head(awaits) = "hello" => t \in {"TLSNone", "TLSVnc", "TLSPlain"} /\ awaits = ServerAwaits(t)
  BY AwaitsFacts, Tuples DEF Remaining

(* What each of the following lemmas begins with.                          *)
AtSecurity(k) ==
  /\ server.state = "security" /\ Head(server.awaits) = k /\ Remaining(server.type, server.awaits)
  /\ server.type = "VeNCrypt" \/ IsIn(server.type, setup.serverTypes)
  /\ toServer # <<>> /\ Head(toServer).kind = k /\ toServer' = Tail(toServer)
  /\ Head(toServer) = toServer[1] /\ Head(toServer) \in ToServer(setup.password)
  /\ toServer' \in Seq(ToServer(setup.password)) /\ UNCHANGED <<setup, client>>

LEMMA SecurityFacts ==
  ASSUME IInv, ServerSecurity
  PROVE  AtSecurity(Head(server.awaits)) /\ Head(server.awaits) \in PromptKinds
<1>1. Typed /\ ServerSound
  BY DEF IInv
<1>2. /\ server.state = "security" /\ toServer # <<>> /\ Head(toServer).kind = Head(server.awaits)
      /\ toServer' = Tail(toServer) /\ UNCHANGED <<setup, client>>
  BY DEF ServerSecurity, Read
<1>3. Remaining(server.type, server.awaits) /\ (server.type = "VeNCrypt" \/ IsIn(server.type, setup.serverTypes))
  BY <1>1, <1>2 DEF ServerSound
<1>4. Head(toServer) \in ToServer(setup.password) /\ toServer' \in Seq(ToServer(setup.password))
      /\ Head(toServer) = toServer[1]
  BY <1>1, <1>2, QueueFacts DEF Typed
<1>5. Head(server.awaits) \in PromptKinds
  BY <1>3, RemainingFacts
<1>. QED  BY <1>2, <1>3, <1>4, <1>5 DEF AtSecurity

(* Where Proceed gets to, in general.                                      *)
LEMMA ProceedStep ==
  ASSUME IInv, NEW s \in End(ServerStates), NEW awaits \in Seq(PromptKinds), NEW items \in Seq(ToClient),
         Proceed(s, awaits, items), Provided(s.type, awaits), UNCHANGED <<setup, client>>,
         toServer' \in Seq(ToServer(setup.password)),
         Proceeded(s, awaits, items) /\ Live' => Conversation'
  PROVE  IInv'
<1>1. Typed /\ ClientSound
  BY DEF IInv
<1>2. server' \in End(ServerStates) /\ toClient' \in Seq(ToClient) /\ Proceeded(s, awaits, items)
  BY <1>1, ProceedFacts DEF Typed
<1>3. Typed'
  BY <1>1, <1>2 DEF Typed
<1>4. ServerSound' /\ ClientSound'
  BY <1>1, <1>2, ProceedSound, ClientKept
<1>. QED  BY <1>2, <1>3, <1>4 DEF IInv

LEMMA SubtypeStep == ASSUME IInv, ServerSecurity, AtSecurity("subtype") PROVE IInv'
<1>. DEFINE t == Head(toServer).val
            s == [server EXCEPT !.type = t]
<1>1. Typed /\ (Live => Conversation) /\ server.type = "VeNCrypt" /\ server.awaits = <<"subtype">>
  BY RemainingOf DEF IInv, AtSecurity
<1>2. setup.serverTypes \in Seq(Types)
  BY <1>1 DEF Typed, Setup
<1>3. CASE IsIn(t, setup.serverTypes)
  <2>1. Proceed(s, ServerAwaits(t), <<>>)
    BY <1>3 DEF ServerSecurity, AtSecurity
  <2>2. t \in AllTypes
    BY <1>2, <1>3 DEF IsIn, AllTypes
  <2>3. s \in End(ServerStates) /\ s.minor = server.minor /\ s.type = t
    BY <1>1, <2>2 DEF Typed, End
  <2>4. ServerAwaits(t) \in Seq(PromptKinds) /\ <<>> \in Seq(ToClient)
    BY <2>2, AwaitsTypes
  <2>5. Provided(s.type, ServerAwaits(t))
    BY <1>3, <2>2, <2>3, FreshProvided
  <2>. HIDE DEF t, s
  <2>6. ASSUME Proceeded(s, ServerAwaits(t), <<>>), Live' PROVE Conversation'
    <3>1. Live
      BY <2>6 DEF Live, AtSecurity
    <3>2. SubtypeChosen
      BY <1>1, <3>1, Empty, Tuples DEF AtSecurity, Conversation, Greeting, Choice, Chosen, Told, Layers, VeNCryptLayer,
                                     TlsLayer, TlsDone, VncLayer, PlainLayer, Outcome, At
    <3>3. t = client.type /\ toClient = <<>> /\ Begun("subtype") /\ s.minor = client.minor
      BY <1>1, <2>3, <3>2, Empty DEF SubtypeChosen, t, AtSecurity
    <3>4. server'.state # "closed"
      BY <2>6 DEF Live
    <3>5. Layers'
      BY <1>1, <2>2, <2>3, <2>6, <3>3, <3>4, BegunProceeds DEF AtSecurity
    <3>. QED  BY <3>5 DEF Conversation
  <2>. QED  BY <2>1, <2>3, <2>4, <2>5, <2>6, ProceedStep DEF AtSecurity
<1>4. CASE ~IsIn(t, setup.serverTypes)
  <2>1. AuthFailure(server, <<>>)
    BY <1>4 DEF ServerSecurity, AtSecurity
  <2>2. server' \in End(ServerStates) /\ toClient' \in Seq(ToClient) /\ server'.state = "closed"
    BY <1>1, <2>1, FailureFacts DEF Typed
  <2>. QED  BY <2>2, ServerEnds DEF AtSecurity
<1>. QED  BY <1>3, <1>4

LEMMA VencryptStep == ASSUME IInv, ServerSecurity, AtSecurity("vencrypt") PROVE IInv'
<1>1. Typed /\ (Live => Conversation) /\ server.type = "VeNCrypt" /\ server.awaits = <<"vencrypt", "subtype">>
  BY RemainingOf DEF IInv, AtSecurity
<1>2. Tail(server.awaits) = <<"subtype">> /\ <<"subtype">> # <<>> /\ Head(<<"subtype">>) = "subtype"
  BY <1>1
<1>3. Proceed(server, <<"subtype">>, <<>>)
  BY <1>2 DEF ServerSecurity, AtSecurity
<1>4. server \in End(ServerStates) /\ <<"subtype">> \in Seq(PromptKinds) /\ <<>> \in Seq(ToClient)
  BY <1>1, PromptTuples DEF Typed
<1>5. Provided(server.type, <<"subtype">>)
  BY <1>1, <1>2 DEF Provided, Remaining
<1>6. ASSUME Proceeded(server, <<"subtype">>, <<>>), Live' PROVE Conversation'
  <2>1. Live /\ server'.state # "closed"
    BY <1>6 DEF Live, AtSecurity
  <2>2. At("security", <<"vencrypt", "subtype">>, "security", <<"subtypes">>, <<>>, <<"vencrypt">>)
        /\ server.minor = client.minor /\ server.type = client.type
    BY <1>1, <2>1, Empty, Tuples DEF AtSecurity, Conversation, Greeting, Choice, Chosen, SubtypeChosen, Told, Layers,
                                   VeNCryptLayer, TlsLayer, TlsDone, VncLayer, PlainLayer, Outcome, At
  <2>3. /\ server'.state = "security" /\ server'.awaits = <<"subtype">>
        /\ toClient' = toClient \o (<<>> \o <<Item("subtypes", setup.serverTypes)>>)
    BY <1>2, <1>6, <2>1, PromptFacts DEF Proceeded
  <2>4. toClient = <<>>
    BY <1>1, <2>2, Empty DEF At
  <2>5. Holds(toClient', <<"subtypes">>)
    BY <2>3, <2>4, Alone
  <2>6. Holds(toServer', <<>>)
    BY <1>1, <2>2, HoldsOne DEF At, Typed, AtSecurity
  <2>7. server'.minor = client'.minor /\ server'.type = client'.type /\ server'.type = "VeNCrypt"
    BY <1>1, <1>6, <2>2 DEF Proceeded, AtSecurity
  <2>8. VeNCryptLayer'
    BY <2>2, <2>3, <2>5, <2>6 DEF VeNCryptLayer, At, AtSecurity
  <2>. QED  BY <2>7, <2>8 DEF Conversation, Layers
<1>. QED  BY <1>3, <1>4, <1>5, <1>6, ProceedStep DEF AtSecurity

LEMMA TlsAwaits ==
  /\ Tail(ServerAwaits("TLSNone")) = <<>> /\ Tail(ServerAwaits("TLSVnc")) = <<"response">>
  /\ Tail(ServerAwaits("TLSPlain")) = <<"credentials">>
  /\ Tail(ClientAwaits("TLSNone")) = <<"hello">> /\ Tail(ClientAwaits("TLSVnc")) = <<"hello", "challenge">>
  /\ Tail(ClientAwaits("TLSPlain")) = <<"hello">>
<1>1. ServerAwaits("TLSNone") = <<"hello">> /\ ServerAwaits("TLSVnc") = <<"hello", "response">>
      /\ ServerAwaits("TLSPlain") = <<"hello", "credentials">>
  BY AwaitsFacts
<1>2. ClientAwaits("TLSNone") = <<"tls", "hello">> /\ ClientAwaits("TLSVnc") = <<"tls", "hello", "challenge">>
      /\ ClientAwaits("TLSPlain") = <<"tls", "hello">>
  BY AwaitsFacts
<1>3. /\ Tail(<<"hello">>) = <<>> /\ Tail(<<"hello", "response">>) = <<"response">>
      /\ Tail(<<"hello", "credentials">>) = <<"credentials">> /\ Tail(<<"tls", "hello">>) = <<"hello">>
      /\ Tail(<<"tls", "hello", "challenge">>) = <<"hello", "challenge">>
  OBVIOUS
<1>. QED  BY <1>1, <1>2, <1>3, Zenon
LEMMA TlsHeads ==
  ASSUME NEW t \in {"TLSNone", "TLSVnc", "TLSPlain"}
  PROVE  Head(ServerAwaits(t)) = "hello" /\ Head(ClientAwaits(t)) = "tls"
  BY AwaitsFacts, Tuples

(* A response or credentials.                                              *)
LEMMA VerifyStep ==
  ASSUME IInv, ServerSecurity, NEW k \in {"response", "credentials"}, AtSecurity(k)
  PROVE  IInv'
<1>1. Typed /\ (Live => Conversation)
  BY DEF IInv
<1>2. /\ server.type \in {"VncAuth", "TLSVnc", "Plain", "TLSPlain"} /\ server.awaits = <<k>>
      /\ IsIn(server.type, setup.serverTypes) /\ Head(server.awaits) = k
  BY RemainingOf DEF AtSecurity
<1>3. Tail(server.awaits) = <<>>
  BY <1>2
<1>4. Head(toServer).val = setup.password /\ setup.password \in BOOLEAN
  BY <1>1, PasswordSaid DEF AtSecurity, Typed, Setup
<1>5. Verified(server, Head(toServer).val, <<>>)
  BY <1>2, <1>3 DEF ServerSecurity
<1>6. CASE setup.password
  <2>1. Proceed(server, <<>>, <<>>)
    BY <1>4, <1>5, <1>6 DEF Verified
  <2>2. server \in End(ServerStates) /\ <<>> \in Seq(PromptKinds) /\ <<>> \in Seq(ToClient)
    BY <1>1 DEF Typed
  <2>3. Provided(server.type, <<>>)
    BY <1>2, <1>6 DEF Provided, Authenticated
  <2>4. ASSUME Proceeded(server, <<>>, <<>>), Live' PROVE Conversation'
    <3>1. Live /\ server'.state # "closed"
      BY <2>4 DEF Live, AtSecurity
    <3>2. At("security", <<k>>, "result", <<"result">>, <<>>, <<k>>)
          /\ server.minor = client.minor /\ server.type = client.type
      <4>1. CASE k = "response"
        <5>1. server.type \in {"VncAuth", "TLSVnc"}
          BY <4>1, RemainingOf DEF AtSecurity
        <5>. QED  BY <1>1, <1>2, <3>1, <4>1, <5>1, Empty, TlsHeads
           DEF AtSecurity, Conversation, Greeting, Choice, Chosen, SubtypeChosen, Told, Layers, VeNCryptLayer,
               TlsLayer, TlsDone, VncLayer, PlainLayer, Outcome, At
      <4>2. CASE k = "credentials"
        <5>1. server.type \in {"Plain", "TLSPlain"}
          BY <4>2, RemainingOf DEF AtSecurity
        <5>. QED  BY <1>1, <1>2, <3>1, <4>2, <5>1, Empty, TlsHeads
           DEF AtSecurity, Conversation, Greeting, Choice, Chosen, SubtypeChosen, Told, Layers, VeNCryptLayer,
               TlsLayer, TlsDone, VncLayer, PlainLayer, Outcome, At
      <4>. QED  BY <4>1, <4>2
    <3>3. toClient = <<>> /\ Holds(toServer', <<>>)
      BY <1>1, <3>2, Empty, HoldsOne DEF At, Typed, AtSecurity
    <3>4. server'.minor = client'.minor /\ server'.type = client'.type /\ server'.type = server.type
      BY <2>4, <3>2 DEF Proceeded, AtSecurity
    <3>5. Results(server, "ok") = <<Item("result", "ok")>> /\ Results(server', "ok") # <<>>
      BY <1>2, <3>4 DEF Results
    <3>6. \/ /\ server'.state = "initialisation" /\ server'.awaits = <<"init">>
             /\ toClient' = toClient \o (<<>> \o <<Item("result", "ok")>>)
          \/ server'.state = "querying" /\ server'.awaits = <<>> /\ toClient' = <<>>
      BY <2>4, <3>1, <3>3, <3>5 DEF Proceeded
    <3>7. CASE server'.state = "initialisation"
      <4>1. Holds(toClient', <<"result">>)
        BY <3>3, <3>6, <3>7, Alone
      <4>2. Outcome'
        BY <3>2, <3>3, <3>5, <3>6, <3>7, <4>1 DEF Outcome, At, AtSecurity
      <4>. QED  BY <1>2, <3>4, <4>2 DEF Conversation, Layers, Types
    <3>8. CASE server'.state = "querying"
      <4>1. Holds(toClient', <<>>)
        BY <3>6, <3>8, HoldsFacts
      <4>2. Outcome'
        BY <3>2, <3>3, <3>5, <3>6, <3>8, <4>1 DEF Outcome, At, AtSecurity
      <4>. QED  BY <1>2, <3>4, <4>2 DEF Conversation, Layers, Types
    <3>. QED  BY <3>6, <3>7, <3>8
  <2>. QED  BY <2>1, <2>2, <2>3, <2>4, ProceedStep DEF AtSecurity
<1>7. CASE ~setup.password
  <2>1. AuthFailure(server, <<>>)
    BY <1>4, <1>5, <1>7 DEF Verified
  <2>2. server' \in End(ServerStates) /\ toClient' \in Seq(ToClient) /\ server'.state = "closed"
    BY <1>1, <2>1, FailureFacts DEF Typed
  <2>. QED  BY <2>2, ServerEnds DEF AtSecurity
<1>. QED  BY <1>4, <1>6, <1>7

(* The hello of TLS, answered with what comes next.                        *)
LEMMA HelloStep == ASSUME IInv, ServerSecurity, AtSecurity("hello") PROVE IInv'
<1>. DEFINE t == server.type
            rest == Tail(ServerAwaits(t))
            hello == <<Item("hello", 0)>>
<1>1. Typed /\ (Live => Conversation)
  BY DEF IInv
<1>2. t \in {"TLSNone", "TLSVnc", "TLSPlain"} /\ server.awaits = ServerAwaits(t) /\ IsIn(t, setup.serverTypes)
  BY RemainingOf DEF AtSecurity
<1>3. Proceed(server, rest, hello)
  BY <1>2 DEF ServerSecurity, AtSecurity
<1>4. /\ t = "TLSNone" => rest = <<>>
      /\ t = "TLSVnc" => rest = <<"response">>
      /\ t = "TLSPlain" => rest = <<"credentials">>
  BY TlsAwaits
<1>. HIDE DEF rest
<1>5. server \in End(ServerStates) /\ rest \in Seq(PromptKinds) /\ hello \in Seq(ToClient)
  <2>1. <<>> \in Seq(PromptKinds)
    OBVIOUS
  <2>2. rest \in Seq(PromptKinds)
    BY <1>2, <1>4, <2>1, PromptTuples
  <2>3. hello \in Seq(ToClient)
    BY ItemTypes, TupleTypes
  <2>. QED  BY <1>1, <2>2, <2>3 DEF Typed
<1>6. Provided(server.type, rest)
  BY <1>2, <1>4, Tuples DEF Provided, Remaining, Authenticated
<1>7. ASSUME Proceeded(server, rest, hello), Live' PROVE Conversation'
  <2>1. Live /\ server'.state # "closed"
    BY <1>7 DEF Live, AtSecurity
  <2>2. /\ At("security", ServerAwaits(t), "security", Tail(ClientAwaits(t)), <<>>, <<"hello">>)
        /\ server.minor = client.minor /\ server.type = client.type
    BY <1>1, <1>2, <2>1, Empty, Tuples, AwaitsFacts
       DEF AtSecurity, Conversation, Greeting, Choice, Chosen, SubtypeChosen, Told, Layers, VeNCryptLayer,
           TlsLayer, TlsDone, VncLayer, PlainLayer, Outcome, At
  <2>3. toClient = <<>> /\ Holds(toServer', <<>>)
    BY <1>1, <2>2, Empty, HoldsOne DEF At, Typed, AtSecurity
  <2>4. server'.minor = client'.minor /\ server'.type = client'.type /\ server'.type = t
    BY <1>7, <2>2 DEF Proceeded, AtSecurity
  <2>5. client'.state = "security" /\ client'.awaits = Tail(ClientAwaits(t))
    BY <2>2 DEF At, AtSecurity
  <2>6. TlsDone(t)'
    <3>1. CASE t = "TLSNone"
      <4>1. client'.awaits = <<"hello">> /\ Results(server, "ok") = <<Item("result", "ok")>>
        BY <2>5, <3>1, TlsAwaits DEF Results
      <4>2. \/ /\ server'.state = "initialisation" /\ server'.awaits = <<"init">>
               /\ toClient' = toClient \o (hello \o <<Item("result", "ok")>>)
            \/ server'.state = "querying" /\ server'.awaits = <<>> /\ toClient' = toClient \o hello
        BY <1>4, <1>7, <2>1, <3>1, <4>1 DEF Proceeded
      <4>3. CASE server'.state = "initialisation"
        <5>1. toClient' = hello \o <<Item("result", "ok")>>
          BY <2>3, <4>2, <4>3
        <5>2. Holds(toClient', <<"hello", "result">>)
          BY <5>1, SendTwo
        <5>. QED  BY <2>3, <2>4, <2>5, <3>1, <4>1, <4>2, <4>3, <5>2 DEF TlsDone, At
      <4>4. CASE server'.state = "querying"
        <5>1. Holds(toClient', <<"hello">>)
          BY <2>3, <4>2, <4>4, SendOne
        <5>. QED  BY <2>3, <2>4, <2>5, <3>1, <4>1, <4>2, <4>4, <5>1 DEF TlsDone, At
      <4>. QED  BY <4>2, <4>3, <4>4
    <3>2. CASE t = "TLSVnc"
      <4>1. client'.awaits = <<"hello", "challenge">>
        BY <2>5, <3>2, TlsAwaits
      <4>2. rest = <<"response">> /\ <<"response">> # <<>> /\ Head(<<"response">>) = "response"
        BY <1>4, <3>2
      <4>3. /\ server'.state = "security" /\ server'.awaits = <<"response">>
            /\ toClient' = toClient \o (hello \o <<Item("challenge", 0)>>)
        BY <1>7, <2>1, <4>2, PromptFacts DEF Proceeded
      <4>4. toClient' = hello \o <<Item("challenge", 0)>>
        BY <2>3, <4>3
      <4>5. Holds(toClient', <<"hello", "challenge">>)
        BY <4>4, SendTwo
      <4>. QED  BY <2>3, <2>4, <2>5, <3>2, <4>1, <4>3, <4>5 DEF TlsDone, At
    <3>3. CASE t = "TLSPlain"
      <4>1. client'.awaits = <<"hello">>
        BY <2>5, <3>3, TlsAwaits
      <4>2. rest = <<"credentials">> /\ <<"credentials">> # <<>> /\ Head(<<"credentials">>) = "credentials"
        BY <1>4, <3>3
      <4>3. server'.state = "security" /\ server'.awaits = <<"credentials">> /\ toClient' = toClient \o (hello \o <<>>)
        BY <1>7, <2>1, <4>2, PromptFacts DEF Proceeded
      <4>4. toClient' = toClient \o hello
        BY <4>3
      <4>5. Holds(toClient', <<"hello">>)
        BY <2>3, <4>4, SendOne
      <4>. QED  BY <2>3, <2>4, <2>5, <3>3, <4>1, <4>3, <4>5 DEF TlsDone, At
    <3>. QED  BY <1>2, <3>1, <3>2, <3>3
  <2>. QED  BY <1>2, <2>4, <2>6 DEF Conversation, Layers
<1>. QED  BY <1>3, <1>5, <1>6, <1>7, ProceedStep DEF AtSecurity

LEMMA ServerSecurityStep == ASSUME IInv, ServerSecurity PROVE IInv'
  BY SecurityFacts, SubtypeStep, VencryptStep, VerifyStep, HelloStep DEF PromptKinds

-----------------------------------------------------------------------------
(* The user's answer, and the end at the server.                           *)

LEMMA ApproveStep == ASSUME IInv, ApproveConnection PROVE IInv'
<1>1. Typed /\ ServerSound /\ ClientSound /\ (Live => Conversation)
  BY DEF IInv
<1>2. server.state = "querying" /\ UNCHANGED <<setup, client, toServer>> /\ setup.answer \in BOOLEAN
  BY <1>1 DEF ApproveConnection, Typed, Setup
<1>3. CASE setup.answer
  <2>1. server' = Initialising(server) /\ toClient' = toClient \o Results(server, "ok")
    BY <1>3 DEF ApproveConnection, Sending, Deciding
  <2>2. /\ server' \in End(ServerStates) /\ server'.state = "initialisation" /\ server'.awaits = <<"init">>
        /\ server'.minor = server.minor /\ server'.type = server.type
    BY <1>1, <2>1, KindTuples DEF Initialising, Typed, End, ServerStates
  <2>3. toClient' \in Seq(ToClient)
    BY <1>1, <2>1, ResultsType, ConcatProperties DEF Typed
  <2>4. Typed'
    BY <1>1, <1>2, <2>2, <2>3 DEF Typed
  <2>5. ServerSound' /\ ClientSound'
    BY <1>1, <1>2, <1>3, <2>2, ClientKept DEF ServerSound, Ready, Authenticated
  <2>6. ASSUME Live' PROVE Conversation'
    <3>1. Live
      BY <1>2, <2>6 DEF Live
    <3>2. \/ Told /\ server.type = "None" /\ At("querying", <<>>, "types", <<"type">>, <<"type">>, <<>>)
          \/ Layers /\ server.type = "TLSNone" /\ At("querying", <<>>, "security", <<"hello">>, <<"hello">>, <<>>)
          \/ Layers /\ server.type \in Types /\ Results(server, "ok") # <<>>
                    /\ At("querying", <<>>, "result", <<"result">>, <<>>, <<>>)
          \/ Layers /\ server.type \in Types /\ Results(server, "ok") = <<>>
                    /\ At("querying", <<>>, "initialisation", <<"init">>, <<>>, <<"init">>)
      BY <1>1, <1>2, <3>1 DEF Conversation, Greeting, Choice, Chosen, SubtypeChosen, Told, Layers,
                              VeNCryptLayer, TlsLayer, TlsDone, VncLayer, PlainLayer, Outcome, At
    <3>3. Results(server, "ok") = <<>> \/ Results(server, "ok") = <<Item("result", "ok")>>
      BY DEF Results
    <3>4. toClient \in Seq(ToClient) /\ Item("result", "ok") \in ToClient
      BY <1>1, ItemTypes DEF Typed
    <3>5. CASE Told /\ server.type = "None" /\ At("querying", <<>>, "types", <<"type">>, <<"type">>, <<>>)
      <4>1. Results(server, "ok") = <<>>
        BY <3>5 DEF Told, Results
      <4>2. toClient' = toClient
        BY <2>1, <3>4, <4>1
      <4>3. Told'
        BY <1>2, <2>2, <3>5, <4>2 DEF Told, At
      <4>. QED  BY <4>3 DEF Conversation
    <3>6. CASE Layers /\ server.type = "TLSNone" /\ At("querying", <<>>, "security", <<"hello">>, <<"hello">>, <<>>)
      <4>1. Results(server, "ok") = <<Item("result", "ok")>>
        BY <3>6 DEF Results
      <4>2. Holds(toClient, <<"hello">>)
        BY <3>6 DEF At
      <4>3. Holds(toClient', <<"hello", "result">>)
        BY <2>1, <3>4, <4>1, <4>2, SendAfter
      <4>4. TlsDone("TLSNone")'
        BY <1>2, <2>2, <3>6, <4>3 DEF TlsDone, At
      <4>. QED  BY <1>2, <2>2, <3>6, <4>4 DEF Conversation, Layers
    <3>7. CASE Layers /\ server.type \in Types /\ Results(server, "ok") # <<>>
                      /\ At("querying", <<>>, "result", <<"result">>, <<>>, <<>>)
      <4>1. toClient = <<>> /\ toClient' = toClient \o <<Item("result", "ok")>>
        BY <1>1, <2>1, <3>3, <3>7, Empty DEF At
      <4>2. Holds(toClient', <<"result">>)
        BY <4>1, SendOne
      <4>3. Results(server', "ok") # <<>>
        BY <2>2, <3>7 DEF Results
      <4>4. Outcome'
        BY <1>2, <2>2, <3>7, <4>2, <4>3 DEF Outcome, At
      <4>. QED  BY <1>2, <2>2, <3>7, <4>4 DEF Conversation, Layers
    <3>8. CASE Layers /\ server.type \in Types /\ Results(server, "ok") = <<>>
                      /\ At("querying", <<>>, "initialisation", <<"init">>, <<>>, <<"init">>)
      <4>1. toClient' = toClient
        BY <2>1, <3>4, <3>8
      <4>2. Outcome'
        BY <1>2, <2>2, <3>8, <4>1 DEF Outcome, At
      <4>. QED  BY <1>2, <2>2, <3>8, <4>2 DEF Conversation, Layers
    <3>. QED  BY <3>2, <3>5, <3>6, <3>7, <3>8
  <2>. QED  BY <2>4, <2>5, <2>6 DEF IInv
<1>4. CASE ~setup.answer
  <2>1. server' = Closed(server) /\ toClient' = toClient \o Results(server, "failed")
    BY <1>4 DEF ApproveConnection, Sending, Deciding
  <2>2. toClient' \in Seq(ToClient)
    BY <1>1, <2>1, ResultsType, ConcatProperties DEF Typed
  <2>. QED  BY <1>1, <1>2, <2>1, <2>2, Ends, ServerEnds DEF Typed
<1>. QED  BY <1>2, <1>3, <1>4

LEMMA ServerInitStep == ASSUME IInv, ServerInit PROVE IInv'
<1>1. Typed /\ ServerSound /\ ClientSound /\ (Live => Conversation)
  BY DEF IInv
<1>2. /\ server.state = "initialisation" /\ toServer # <<>> /\ toServer' = Tail(toServer)
      /\ server' = [server EXCEPT !.state = "normal", !.awaits = <<>>]
      /\ toClient' = toClient \o <<Item("init", 0)>> /\ UNCHANGED <<setup, client>>
  BY DEF ServerInit, Read, Sending, Deciding
<1>3. /\ server' \in End(ServerStates) /\ server'.state = "normal" /\ server'.awaits = <<>>
      /\ server'.minor = server.minor /\ server'.type = server.type
  BY <1>1, <1>2, KindTuples DEF Typed, End, ServerStates
<1>4. toServer' \in Seq(ToServer(setup.password))
  BY <1>1, <1>2, QueueFacts DEF Typed
<1>5. <<Item("init", 0)>> \in Seq(ToClient)
  BY ItemTypes, TupleTypes
<1>6. toClient' \in Seq(ToClient)
  BY <1>1, <1>2, <1>5, ConcatProperties DEF Typed
<1>7. Typed'
  BY <1>1, <1>2, <1>3, <1>4, <1>6 DEF Typed
<1>8. ServerSound' /\ ClientSound'
  BY <1>1, <1>2, <1>3, ClientKept DEF ServerSound, Ready, Authenticated
<1>9. ASSUME Live' PROVE Conversation'
  <2>1. Live
    BY <1>2, <1>9 DEF Live
  <2>2. /\ Layers /\ server.type \in Types
        /\ At("initialisation", <<"init">>, "initialisation", <<"init">>, <<>>, <<"init">>)
    BY <1>1, <1>2, <2>1, Empty DEF Conversation, Greeting, Choice, Chosen, SubtypeChosen, Told, Layers,
                                   VeNCryptLayer, TlsLayer, TlsDone, VncLayer, PlainLayer, Outcome, At
  <2>3. toClient = <<>>
    BY <1>1, <2>2, Empty DEF At
  <2>4. Holds(toClient', <<"init">>)
    BY <1>2, <2>3, SendOne
  <2>5. Holds(toServer', <<>>)
    BY <1>1, <1>2, <2>2, HoldsOne DEF At, Typed
  <2>6. Outcome'
    BY <1>2, <1>3, <2>2, <2>4, <2>5 DEF Outcome, At
  <2>. QED  BY <1>2, <1>3, <2>2, <2>6 DEF Conversation, Layers
<1>. QED  BY <1>7, <1>8, <1>9 DEF IInv

-----------------------------------------------------------------------------
(* The viewer goes through a security type.                                *)

ClientProvided(t, awaits) ==
  IF awaits = <<>> THEN IsIn(t, setup.clientTypes) ELSE ClientRemaining(t, awaits)

LEMMA ContinueSound ==
  ASSUME NEW c, NEW awaits, NEW items, Continued(c, awaits, items), ClientProvided(c.type, awaits), setup' = setup
  PROVE  ClientSound'
  BY DEF Continued, ClientProvided, ClientSound, ClientRemaining

LEMMA ContinueStep ==
  ASSUME IInv, NEW c \in End(ClientStates), NEW awaits \in Seq(Kinds), NEW items \in Seq(ReplyTypes),
         Continue(c, awaits, items), ClientProvided(c.type, awaits), UNCHANGED <<setup, server>>,
         toClient' \in Seq(ToClient),
         Continued(c, awaits, items) /\ Live' => Conversation'
  PROVE  IInv'
<1>1. Typed /\ ServerSound
  BY DEF IInv
<1>2. client' \in End(ClientStates) /\ toServer' \in Seq(ReplyTypes) /\ Continued(c, awaits, items)
  <2>1. toServer \in Seq(ReplyTypes)
    BY <1>1 DEF Typed, ReplyTypes
  <2>. QED  BY <2>1, ContinueFacts
<1>3. Typed'
  BY <1>1, <1>2 DEF Typed, ReplyTypes
<1>4. ServerSound' /\ ClientSound'
  BY <1>1, <1>2, ContinueSound, ServerKept
<1>. QED  BY <1>2, <1>3, <1>4 DEF IInv

LEMMA FreshContinues ==
  ASSUME NEW t \in AllTypes, t = "VeNCrypt" \/ IsIn(t, setup.clientTypes)
  PROVE  ClientProvided(t, ClientAwaits(t))
<1>1. t \in {"VeNCrypt", "None", "VncAuth", "Plain", "TLSNone", "TLSVnc", "TLSPlain"}
  BY DEF AllTypes, Types
<1>2. CASE t \in {"None", "Plain"}
  BY <1>2, AwaitsFacts DEF ClientProvided
<1>3. CASE t \notin {"None", "Plain"}
  <2>1. ClientRemaining(t, ClientAwaits(t))
    BY <1>1, <1>3, AwaitsFacts DEF ClientRemaining
  <2>2. ClientAwaits(t) # <<>>
    BY <1>1, <1>3, AwaitsFacts, Tuples
  <2>. QED  BY <2>1, <2>2 DEF ClientProvided
<1>. QED  BY <1>2, <1>3

(* A choice, and what the viewer may send with it.                         *)
LEMMA ContinueBegins ==
  ASSUME toServer = <<>>, NEW k, NEW t \in AllTypes, NEW c, c.type = t, c.minor \in {0, 3, 7, 8},
         Continued(c, ClientAwaits(t), <<Item(k, t)>>)
  PROVE  Begun(k)' /\ toServer'[1].val = t
<1>. DEFINE a == <<Item(k, t)>>
<1>0. client'.type = t /\ client'.minor = c.minor /\ Item(k, t).val = t
  BY DEF Continued, Item
<1>1. t \in {"VeNCrypt", "None", "VncAuth", "Plain", "TLSNone", "TLSVnc", "TLSPlain"}
  BY DEF AllTypes, Types
<1>2. CASE t = "None" /\ c.minor < 8
  <2>1. /\ client'.state = "initialisation" /\ client'.awaits = <<"init">>
        /\ toServer' = toServer \o (a \o <<Item("init", 0)>>)
    BY <1>2, AwaitsFacts DEF Continued
  <2>2. toServer' = a \o <<Item("init", 0)>>
    BY <2>1
  <2>3. Holds(toServer', <<k, "init">>) /\ toServer'[1] = Item(k, t)
    BY <2>2, SendTwo
  <2>. QED  BY <1>0, <1>2, <2>1, <2>3 DEF Begun
<1>3. CASE t = "None" /\ ~(c.minor < 8)
  <2>1. Unasked(c) = <<>>
    BY <1>3 DEF Unasked
  <2>2. client'.state = "result" /\ client'.awaits = <<"result">> /\ toServer' = toServer \o (a \o <<>>)
    BY <1>3, <2>1, AwaitsFacts DEF Continued
  <2>3. toServer' = toServer \o a
    BY <2>2
  <2>4. Holds(toServer', <<k>>)
    BY <2>3, SendOne
  <2>5. toServer'[1] = Item(k, t)
    BY <2>3, SendFirst
  <2>. QED  BY <1>0, <1>3, <2>2, <2>4, <2>5 DEF Begun
<1>4. CASE t = "Plain"
  <2>1. Unasked(c) = <<Item("credentials", setup.password)>>
    BY <1>4 DEF Unasked
  <2>2. /\ client'.state = "result" /\ client'.awaits = <<"result">>
        /\ toServer' = toServer \o (a \o <<Item("credentials", setup.password)>>)
    BY <1>4, <2>1, AwaitsFacts DEF Continued
  <2>3. toServer' = a \o <<Item("credentials", setup.password)>>
    BY <2>2
  <2>4. Holds(toServer', <<k, "credentials">>) /\ toServer'[1] = Item(k, t)
    BY <2>3, SendTwo
  <2>. QED  BY <1>0, <1>4, <2>2, <2>4 DEF Begun
<1>5. CASE t \notin {"None", "Plain"}
  <2>1. ClientAwaits(t) # <<>>
    BY <1>1, <1>5, AwaitsFacts, Tuples
  <2>2. client'.state = "security" /\ client'.awaits = ClientAwaits(t) /\ toServer' = toServer \o a
    BY <2>1 DEF Continued
  <2>3. Holds(toServer', <<k>>)
    BY <2>2, SendOne
  <2>4. toServer'[1] = Item(k, t)
    BY <2>2, SendFirst
  <2>. QED  BY <1>0, <1>5, <2>2, <2>3, <2>4 DEF Begun
<1>. QED  BY <1>2, <1>3, <1>4, <1>5

(* A type that the viewer is told.                                         *)
LEMMA ContinueTold ==
  ASSUME Typed, Told, NEW c, c.type = server.type, c.minor = 3, Continued(c, ClientAwaits(server.type), <<>>),
         toClient' = Tail(toClient), UNCHANGED <<setup, server>>
  PROVE  Layers'
<1>0. /\ server.minor = 3 /\ server.type \in {"None", "VncAuth"}
      /\ server'.minor = client'.minor /\ server'.type = client'.type /\ toServer = <<>>
  BY Empty DEF Told, Continued, At
<1>1. CASE server.type = "None"
  <2>1. /\ client'.state = "initialisation" /\ client'.awaits = <<"init">>
        /\ toServer' = toServer \o (<<>> \o <<Item("init", 0)>>)
    BY <1>1, AwaitsFacts DEF Continued
  <2>2. Holds(toServer', <<"init">>)
    BY <1>0, <2>1, Alone
  <2>3. Holds(toClient, <<"type">>)
    BY <1>1 DEF Told, At
  <2>4. Holds(toClient', <<>>)
    BY <2>3, HoldsOne DEF Typed
  <2>5. Results(server', "ok") = <<>>
    BY <1>0, <1>1 DEF Results
  <2>6. Outcome'
    BY <1>1, <2>1, <2>2, <2>4, <2>5 DEF Told, Outcome, At
  <2>. QED  BY <1>0, <1>1, <2>6 DEF Layers, Types
<1>2. CASE server.type = "VncAuth"
  <2>1. ClientAwaits(server.type) = <<"challenge">> /\ <<"challenge">> # <<>>
    BY <1>2, AwaitsFacts
  <2>2. client'.state = "security" /\ client'.awaits = <<"challenge">> /\ toServer' = toServer \o <<>>
    BY <2>1 DEF Continued
  <2>3. Holds(toServer', <<>>)
    <3>1. toServer' = <<>>
      BY <1>0, <2>2
    <3>. QED  BY <3>1, HoldsFacts
  <2>4. Holds(toClient, <<"type", "challenge">>)
    BY <1>2 DEF Told, At
  <2>5. Holds(toClient', <<"challenge">>)
    BY <2>4, HoldsTwo DEF Typed
  <2>6. VncLayer'
    BY <1>2, <2>2, <2>3, <2>5 DEF Told, VncLayer, At
  <2>. QED  BY <1>0, <1>2, <2>6 DEF Layers
<1>. QED  BY <1>0, <1>1, <1>2

LEMMA ClientTypeStep == ASSUME IInv, ClientType PROVE IInv'
<1>. DEFINE v == Head(toClient).val
            mine == Offered(setup.clientTypes)
<1>1. Typed /\ ClientSound /\ (Live => Conversation)
  BY DEF IInv
<1>2. /\ client.state = "types" /\ toClient # <<>> /\ Head(toClient).kind = Head(client.awaits)
      /\ toClient' = Tail(toClient) /\ UNCHANGED <<setup, server>>
  BY DEF ClientType, Receive
<1>3. /\ toClient' \in Seq(ToClient) /\ Head(toClient) \in ToClient /\ Head(toClient) = toClient[1]
      /\ client \in End(ClientStates) /\ client.minor \in {0, 3, 7, 8}
  BY <1>1, <1>2, QueueFacts DEF Typed, End
<1>4. setup.clientTypes \in Seq(Types)
  BY <1>1 DEF Typed, Setup
<1>5. client.awaits = <<IF client.minor = 3 THEN "type" ELSE "types">>
  BY <1>1, <1>2 DEF ClientSound
<1>6. ASSUME Live
      PROVE  IF client.minor = 3 THEN Told ELSE Choice
  BY <1>1, <1>2, <1>6, Empty DEF Conversation, Greeting, Choice, Chosen, Begun, SubtypeChosen, Told, Layers,
                                 VeNCryptLayer, TlsLayer, TlsDone, VncLayer, PlainLayer, Outcome, At
<1>7. CASE Replying(Closed(client), <<>>)
  <2>1. client' = Closed(client) /\ toServer' = toServer \o <<>>
    BY <1>7 DEF Replying
  <2>2. toServer' \in Seq(ToServer(setup.password))
    BY <1>1, <2>1 DEF Typed
  <2>. QED  BY <1>1, <1>2, <1>3, <2>1, <2>2, Ends, ClientEnds
<1>8. CASE client.minor = 3 /\ IsIn(v, mine) /\ v \in {"None", "VncAuth"}
  <2>. DEFINE c == [client EXCEPT !.type = v]
  <2>1. Continue(c, ClientAwaits(v), <<>>)
    BY <1>8 DEF ClientType
  <2>2. v \in AllTypes
    BY <1>8 DEF AllTypes, Types
  <2>3. c \in End(ClientStates) /\ c.type = v /\ c.minor = 3
    BY <1>3, <1>8, <2>2 DEF End
  <2>4. IsIn(v, setup.clientTypes)
    BY <1>4, <1>8, OfferedFacts
  <2>5. ClientAwaits(v) \in Seq(Kinds) /\ <<>> \in Seq(ReplyTypes)
    BY <2>2, AwaitsTypes
  <2>6. ClientProvided(c.type, ClientAwaits(v))
    BY <2>2, <2>3, <2>4, FreshContinues
  <2>. HIDE DEF c, v
  <2>7. ASSUME Continued(c, ClientAwaits(v), <<>>), Live' PROVE Conversation'
    <3>1. Live
      BY <1>2, <2>7 DEF Live
    <3>2. Told
      BY <1>6, <1>8, <3>1
    <3>3. v = server.type
      BY <1>3, <3>2 DEF Told, v
    <3>4. Layers'
      BY <1>1, <1>2, <2>3, <2>7, <3>2, <3>3, ContinueTold
    <3>. QED  BY <3>4 DEF Conversation
  <2>. QED  BY <1>2, <1>3, <2>1, <2>3, <2>5, <2>6, <2>7, ContinueStep
<1>9. CASE client.minor # 3 /\ Common(v, mine) # "Invalid"
  <2>. DEFINE t == Common(v, mine)
              c == [client EXCEPT !.type = t]
              items == <<Item("type", t)>>
  <2>1. Continue(c, ClientAwaits(t), items)
    BY <1>9 DEF ClientType
  <2>2. v \in Lists
    <3>1. Head(toClient).kind = "types"
      BY <1>2, <1>5, <1>9, Tuples
    <3>. QED  BY <1>3, <3>1, TypesTold
  <2>3. t \in AllTypes /\ IsIn(t, mine)
    BY <1>9, <2>2, CommonFacts
  <2>. HIDE DEF t
  <2>4. t = "VeNCrypt" \/ (t \in Types \ Extended /\ IsIn(t, setup.clientTypes))
    BY <1>4, <2>3, OfferedFacts
  <2>5. c \in End(ClientStates) /\ c.type = t /\ c.minor = client.minor
    BY <1>3, <2>3 DEF End
  <2>6. ClientAwaits(t) \in Seq(Kinds) /\ items \in Seq(ReplyTypes)
    BY <2>3, AwaitsTypes, ReplyItems, TupleTypes
  <2>7. ClientProvided(c.type, ClientAwaits(t))
    BY <2>3, <2>4, <2>5, FreshContinues
  <2>. HIDE DEF c
  <2>8. ASSUME Continued(c, ClientAwaits(t), items), Live' PROVE Conversation'
    <3>1. Live
      BY <1>2, <2>8 DEF Live
    <3>2. Choice
      BY <1>6, <1>9, <3>1
    <3>3. toServer = <<>> /\ c.minor \in {0, 3, 7, 8}
      BY <1>1, <1>3, <2>5, <3>2, Empty DEF Choice, At
    <3>4. Begun("type")' /\ toServer'[1].val = t
      BY <2>3, <2>5, <2>8, <3>3, ContinueBegins
    <3>5. Holds(toClient', <<>>)
      BY <1>1, <1>2, <3>2, HoldsOne DEF Choice, At, Typed
    <3>6. client'.type = t /\ client'.minor = client.minor
      BY <2>5, <2>8 DEF Continued
    <3>7. t \notin Extended
      BY <2>4 DEF Extended
    <3>8. Chosen'
      BY <1>2, <3>2, <3>4, <3>5, <3>6, <3>7 DEF Chosen, Choice, At
    <3>. QED  BY <3>8 DEF Conversation
  <2>. HIDE DEF items
  <2>. QED  BY <1>2, <1>3, <2>1, <2>5, <2>6, <2>7, <2>8, ContinueStep
<1>10. \/ Replying(Closed(client), <<>>)
       \/ client.minor = 3 /\ IsIn(v, mine) /\ v \in {"None", "VncAuth"}
       \/ client.minor # 3 /\ Common(v, mine) # "Invalid"
  BY DEF ClientType
<1>. QED  BY <1>7, <1>8, <1>9, <1>10

(* One step of the security type at the viewer.                            *)
ClientAtSecurity(k) ==
  /\ client.state = "security" /\ Head(client.awaits) = k /\ ClientRemaining(client.type, client.awaits)
  /\ toClient # <<>> /\ Head(toClient).kind = k /\ toClient' = Tail(toClient)
  /\ Head(toClient) \in ToClient /\ toClient' \in Seq(ToClient) /\ UNCHANGED <<setup, server>>

LEMMA ClientSecurityFacts ==
  ASSUME IInv, ClientSecurity
  PROVE  /\ ClientAtSecurity(Head(client.awaits))
         /\ Head(client.awaits) \in {"vencrypt", "subtypes", "challenge", "tls", "hello"}
<1>1. Typed /\ ClientSound
  BY DEF IInv
<1>2. /\ client.state = "security" /\ toClient # <<>> /\ Head(toClient).kind = Head(client.awaits)
      /\ toClient' = Tail(toClient) /\ UNCHANGED <<setup, server>>
  BY DEF ClientSecurity, Receive
<1>3. ClientRemaining(client.type, client.awaits)
  BY <1>1, <1>2 DEF ClientSound
<1>4. Head(toClient) \in ToClient /\ toClient' \in Seq(ToClient)
  BY <1>1, <1>2, QueueFacts DEF Typed
<1>5. Head(client.awaits) \in {"vencrypt", "subtypes", "challenge", "tls", "hello"}
  BY <1>3, Tuples DEF ClientRemaining
<1>. QED  BY <1>2, <1>3, <1>4, <1>5 DEF ClientAtSecurity

(* Every layer but VeNCrypt leaves the type alone.                         *)
LEMMA ClientRest ==
  ASSUME NEW t, NEW awaits, ClientRemaining(t, awaits), Head(awaits) \in {"challenge", "tls", "hello", "vencrypt"}
  PROVE  Tail(awaits) \in Seq(Kinds) /\ ClientProvided(t, Tail(awaits))
<1>1. \/ t = "VeNCrypt" /\ awaits = <<"vencrypt", "subtypes">>
      \/ IsIn(t, setup.clientTypes)
         /\ awaits \in {<<"challenge">>, <<"hello">>, <<"tls", "hello">>, <<"hello", "challenge">>,
                        <<"tls", "hello", "challenge">>}
  BY Tuples DEF ClientRemaining
<1>2. \/ t = "VeNCrypt" /\ Tail(awaits) = <<"subtypes">>
      \/ IsIn(t, setup.clientTypes) /\ Tail(awaits) \in {<<>>, <<"hello">>, <<"challenge">>, <<"hello", "challenge">>}
  <2>1. /\ Tail(<<"vencrypt", "subtypes">>) = <<"subtypes">> /\ Tail(<<"challenge">>) = <<>>
        /\ Tail(<<"hello">>) = <<>> /\ Tail(<<"tls", "hello">>) = <<"hello">>
        /\ Tail(<<"hello", "challenge">>) = <<"challenge">>
        /\ Tail(<<"tls", "hello", "challenge">>) = <<"hello", "challenge">>
    OBVIOUS
  <2>. QED  BY <1>1, <2>1, Zenon
<1>3. {"subtypes", "hello", "challenge"} \subseteq Kinds /\ <<>> \in Seq(Kinds)
  BY DEF Kinds
<1>4. /\ <<"subtypes">> \in Seq(Kinds) /\ <<"hello">> \in Seq(Kinds) /\ <<"challenge">> \in Seq(Kinds)
      /\ <<"hello", "challenge">> \in Seq(Kinds)
  BY <1>3, TupleTypes
<1>5. Tail(awaits) \in Seq(Kinds)
  BY <1>2, <1>3, <1>4
<1>6. ClientProvided(t, Tail(awaits))
  BY <1>2, Tuples DEF ClientProvided, ClientRemaining
<1>. QED  BY <1>5, <1>6

(* The VeNCrypt layer.                                                     *)
LEMMA ClientVencryptStep == ASSUME IInv, ClientSecurity, ClientAtSecurity("vencrypt") PROVE IInv'
<1>. DEFINE items == <<Item("vencrypt", 2)>>
            rest == Tail(client.awaits)
<1>1. Typed /\ (Live => Conversation) /\ client \in End(ClientStates)
  BY DEF IInv, Typed
<1>2. Continue(client, rest, items)
  BY DEF ClientSecurity, ClientAtSecurity
<1>3. rest \in Seq(Kinds) /\ ClientProvided(client.type, rest)
  BY ClientRest DEF ClientAtSecurity
<1>4. items \in Seq(ReplyTypes)
  BY ReplyItems, TupleTypes
<1>. HIDE DEF rest
<1>5. ASSUME Continued(client, rest, items), Live' PROVE Conversation'
  <2>1. Live
    BY <1>5 DEF Live, ClientAtSecurity
  <2>2. client.type = "VeNCrypt" /\ client.awaits = <<"vencrypt", "subtypes">>
    BY Tuples DEF ClientAtSecurity, ClientRemaining
  <2>3. /\ At("security", <<"vencrypt", "subtype">>, "security", <<"vencrypt", "subtypes">>, <<"vencrypt">>, <<>>)
        /\ server.type = "VeNCrypt" /\ server.minor = client.minor
    BY <1>1, <2>1, <2>2, Empty, Tuples
       DEF ClientAtSecurity, Conversation, Greeting, Choice, Chosen, Begun, SubtypeChosen, Told, Layers, VeNCryptLayer,
           TlsLayer, TlsDone, VncLayer, PlainLayer, Outcome, At
  <2>4. rest = <<"subtypes">> /\ <<"subtypes">> # <<>>
    BY <2>2 DEF rest
  <2>5. /\ client'.state = "security" /\ client'.awaits = <<"subtypes">> /\ toServer' = toServer \o items
        /\ client'.type = "VeNCrypt" /\ client'.minor = client.minor
    BY <1>5, <2>2, <2>4 DEF Continued
  <2>6. toServer = <<>> /\ Holds(toClient', <<>>)
    BY <1>1, <2>3, Empty, HoldsOne DEF At, Typed, ClientAtSecurity
  <2>7. Holds(toServer', <<"vencrypt">>)
    BY <2>5, <2>6, SendOne
  <2>8. VeNCryptLayer'
    BY <2>3, <2>5, <2>6, <2>7 DEF VeNCryptLayer, At, ClientAtSecurity
  <2>. QED  BY <2>3, <2>5, <2>8 DEF Conversation, Layers, ClientAtSecurity
<1>. HIDE DEF items
<1>. QED  BY <1>1, <1>2, <1>3, <1>4, <1>5, ContinueStep DEF ClientAtSecurity

LEMMA ClientSubtypesStep == ASSUME IInv, ClientSecurity, ClientAtSecurity("subtypes") PROVE IInv'
<1>. DEFINE t == Common(Head(toClient).val, setup.clientTypes)
            c == [client EXCEPT !.type = t]
            items == <<Item("subtype", t)>>
<1>1. Typed /\ (Live => Conversation) /\ client \in End(ClientStates) /\ client.minor \in {0, 3, 7, 8}
  BY DEF IInv, Typed, End
<1>2. CASE t = "Invalid"
  <2>1. client' = Closed(client) /\ toServer' = toServer \o <<>>
    BY <1>2 DEF ClientSecurity, ClientAtSecurity, Replying
  <2>2. toServer' \in Seq(ToServer(setup.password))
    BY <1>1, <2>1 DEF Typed
  <2>. QED  BY <1>1, <2>1, <2>2, Ends, ClientEnds DEF ClientAtSecurity
<1>3. CASE t # "Invalid"
  <2>1. Continue(c, ClientAwaits(t), items)
    BY <1>3 DEF ClientSecurity, ClientAtSecurity
  <2>2. Head(toClient).val \in Lists /\ setup.clientTypes \in Seq(Types)
    BY <1>1, TypesTold DEF ClientAtSecurity, Typed, Setup
  <2>3. t \in AllTypes /\ IsIn(t, setup.clientTypes)
    BY <1>3, <2>2, CommonFacts
  <2>. HIDE DEF t
  <2>4. t \in Types
    BY <2>2, <2>3 DEF IsIn
  <2>5. c \in End(ClientStates) /\ c.type = t /\ c.minor = client.minor
    BY <1>1, <2>3 DEF End
  <2>6. ClientAwaits(t) \in Seq(Kinds) /\ items \in Seq(ReplyTypes)
    BY <2>3, AwaitsTypes, ReplyItems, TupleTypes
  <2>7. ClientProvided(c.type, ClientAwaits(t))
    BY <2>3, <2>5, FreshContinues
  <2>. HIDE DEF c
  <2>8. ASSUME Continued(c, ClientAwaits(t), items), Live' PROVE Conversation'
    <3>1. Live
      BY <2>8 DEF Live, ClientAtSecurity
    <3>2. /\ At("security", <<"subtype">>, "security", <<"subtypes">>, <<"subtypes">>, <<>>)
          /\ server.type = "VeNCrypt" /\ server.minor = client.minor
      BY <1>1, <3>1, Empty, Tuples, TlsHeads
         DEF ClientAtSecurity, Conversation, Greeting, Choice, Chosen, Begun, SubtypeChosen, Told, Layers,
             VeNCryptLayer, TlsLayer, TlsDone, VncLayer, PlainLayer, Outcome, At
    <3>3. toServer = <<>> /\ c.minor \in {0, 3, 7, 8} /\ Holds(toClient', <<>>)
      BY <1>1, <2>5, <3>2, Empty, HoldsOne DEF At, Typed, ClientAtSecurity
    <3>4. Begun("subtype")' /\ toServer'[1].val = t
      BY <2>3, <2>5, <2>8, <3>3, ContinueBegins
    <3>5. client'.type = t /\ client'.minor = client.minor
      BY <2>5, <2>8 DEF Continued
    <3>6. t # "VeNCrypt"
      BY <2>4 DEF Types
    <3>7. SubtypeChosen'
      BY <3>2, <3>3, <3>4, <3>5, <3>6 DEF SubtypeChosen, At, ClientAtSecurity
    <3>. QED  BY <3>7 DEF Conversation
  <2>. HIDE DEF items
  <2>. QED  BY <2>1, <2>5, <2>6, <2>7, <2>8, ContinueStep DEF ClientAtSecurity
<1>. QED  BY <1>2, <1>3

LEMMA ChallengeStep == ASSUME IInv, ClientSecurity, ClientAtSecurity("challenge") PROVE IInv'
<1>. DEFINE items == <<Item("response", setup.password)>>
            rest == Tail(client.awaits)
<1>1. Typed /\ (Live => Conversation) /\ client \in End(ClientStates)
  BY DEF IInv, Typed
<1>2. Continue(client, rest, items)
  BY DEF ClientSecurity, ClientAtSecurity
<1>3. rest \in Seq(Kinds) /\ ClientProvided(client.type, rest)
  BY ClientRest DEF ClientAtSecurity
<1>4. items \in Seq(ReplyTypes)
  BY ReplyItems, TupleTypes
<1>5. client.awaits = <<"challenge">>
  BY Tuples DEF ClientAtSecurity, ClientRemaining
<1>6. rest = <<>>
  BY <1>5
<1>. HIDE DEF rest
<1>7. ASSUME Continued(client, rest, items), Live' PROVE Conversation'
  <2>1. Live
    BY <1>7 DEF Live, ClientAtSecurity
  <2>2. /\ At("security", <<"response">>, "security", <<"challenge">>, <<"challenge">>, <<>>)
        /\ server.type \in {"VncAuth", "TLSVnc"} /\ server.type = client.type /\ server.minor = client.minor
    BY <1>1, <1>5, <2>1, Empty, Tuples, TlsHeads
       DEF ClientAtSecurity, Conversation, Greeting, Choice, Chosen, Begun, SubtypeChosen, Told, Layers, VeNCryptLayer,
           TlsLayer, TlsDone, VncLayer, PlainLayer, Outcome, At
  <2>3. Unasked(client) = <<>>
    BY <2>2 DEF Unasked
  <2>4. /\ client'.state = "result" /\ client'.awaits = <<"result">> /\ toServer' = toServer \o (items \o <<>>)
        /\ client'.type = client.type /\ client'.minor = client.minor
    BY <1>6, <1>7, <2>2, <2>3 DEF Continued
  <2>5. toServer' = toServer \o items
    BY <2>4
  <2>6. toServer = <<>> /\ Holds(toClient', <<>>)
    BY <1>1, <2>2, Empty, HoldsOne DEF At, Typed, ClientAtSecurity
  <2>7. Holds(toServer', <<"response">>)
    BY <2>5, <2>6, SendOne
  <2>8. VncLayer'
    BY <2>2, <2>4, <2>6, <2>7 DEF VncLayer, At, ClientAtSecurity
  <2>. QED  BY <2>2, <2>4, <2>8 DEF Conversation, Layers, ClientAtSecurity
<1>. HIDE DEF items
<1>. QED  BY <1>1, <1>2, <1>3, <1>4, <1>7, ContinueStep DEF ClientAtSecurity

(* The TLS layer.                                                          *)
LEMMA TlsStep == ASSUME IInv, ClientSecurity, ClientAtSecurity("tls") PROVE IInv'
<1>. DEFINE items == <<Item("hello", 0)>>
            rest == Tail(client.awaits)
<1>1. Typed /\ (Live => Conversation) /\ client \in End(ClientStates)
  BY DEF IInv, Typed
<1>2. JoinTls(client, Head(toClient).val, rest) /\ Head(toClient).val \in BOOLEAN
  BY TlsTold DEF ClientSecurity, ClientAtSecurity
<1>3. rest \in Seq(Kinds) /\ ClientProvided(client.type, rest)
  BY ClientRest DEF ClientAtSecurity
<1>4. items \in Seq(ReplyTypes)
  BY ReplyItems, TupleTypes
<1>5. CASE Head(toClient).val
  <2>1. Continue(client, rest, items)
    BY <1>2, <1>5 DEF JoinTls
  <2>2. client.awaits \in {<<"tls", "hello">>, <<"tls", "hello", "challenge">>}
    BY Tuples DEF ClientAtSecurity, ClientRemaining
  <2>3. rest # <<>>
    <3>1. Tail(<<"tls", "hello">>) # <<>> /\ Tail(<<"tls", "hello", "challenge">>) # <<>>
      OBVIOUS
    <3>. QED  BY <2>2, <3>1, Zenon
  <2>4. ASSUME Continued(client, rest, items), Live' PROVE Conversation'
    <3>1. Live
      BY <2>4 DEF Live, ClientAtSecurity
    <3>2. /\ server.type = client.type /\ server.minor = client.minor
          /\ server.type \in {"TLSNone", "TLSVnc", "TLSPlain"}
          /\ At("security", ServerAwaits(server.type), "security", ClientAwaits(server.type), <<"tls">>, <<>>)
      BY <1>1, <3>1, Empty, Tuples
         DEF ClientAtSecurity, Conversation, Greeting, Choice, Chosen, Begun, SubtypeChosen, Told, Layers,
             VeNCryptLayer, TlsLayer, TlsDone, VncLayer, PlainLayer, Outcome, At
    <3>3. rest = Tail(ClientAwaits(server.type))
      BY <3>2 DEF At
    <3>4. /\ client'.state = "security" /\ client'.awaits = Tail(ClientAwaits(server.type))
          /\ toServer' = toServer \o items /\ client'.type = client.type /\ client'.minor = client.minor
      <4>. HIDE DEF rest
      <4>. QED  BY <2>3, <2>4, <3>3 DEF Continued
    <3>5. toServer = <<>> /\ Holds(toClient', <<>>)
      BY <1>1, <3>2, Empty, HoldsOne DEF At, Typed, ClientAtSecurity
    <3>6. Holds(toServer', <<"hello">>)
      BY <3>4, <3>5, SendOne
    <3>7. server' = server
      BY DEF ClientAtSecurity
    <3>8. TlsLayer(server.type)'
      BY <3>2, <3>4, <3>5, <3>6, <3>7 DEF TlsLayer, At
    <3>. QED  BY <3>2, <3>4, <3>7, <3>8 DEF Conversation, Layers
  <2>. HIDE DEF items, rest
  <2>. QED  BY <1>1, <1>3, <1>4, <2>1, <2>4, ContinueStep DEF ClientAtSecurity
<1>6. CASE ~Head(toClient).val
  <2>1. client' = Closed(client) /\ toServer' = toServer \o <<>>
    BY <1>2, <1>6 DEF JoinTls, Replying
  <2>2. toServer' \in Seq(ToServer(setup.password))
    BY <1>1, <2>1 DEF Typed
  <2>. QED  BY <1>1, <2>1, <2>2, Ends, ClientEnds DEF ClientAtSecurity
<1>. QED  BY <1>2, <1>5, <1>6

(* What follows the hello.                                                 *)
LEMMA HelloContinues ==
  ASSUME Typed, Layers, TlsDone(server.type), server.type \in {"TLSNone", "TLSVnc", "TLSPlain"},
         Continued(client, Tail(client.awaits), <<>>), toClient' = Tail(toClient), UNCHANGED <<setup, server>>
  PROVE  Layers'
<1>. DEFINE rest == Tail(client.awaits)
<1>0. /\ server.minor = client.minor /\ server.type = client.type /\ toServer = <<>> /\ toClient \in Seq(ToClient)
      /\ server'.minor = client'.minor /\ server'.type = client'.type /\ server' = server
  BY Empty DEF Layers, Continued, TlsDone, At, Typed
<1>1. CASE server.type = "TLSNone"
  <2>1. rest = <<>> /\ Unasked(client) = <<>>
    BY <1>0, <1>1, Tuples DEF TlsDone, At, Unasked
  <2>2. client'.state = "result" /\ client'.awaits = <<"result">> /\ toServer' = toServer \o (<<>> \o <<>>)
    BY <1>0, <1>1, <2>1 DEF Continued
  <2>3. Holds(toServer', <<>>)
    BY <1>0, <2>2, NothingSent
  <2>4. Results(server', "ok") # <<>>
    BY <1>0, <1>1 DEF Results
  <2>5. CASE At("querying", <<>>, "security", <<"hello">>, <<"hello">>, <<>>)
    <3>1. Holds(toClient', <<>>)
      BY <1>0, <2>5, HoldsOne DEF At
    <3>2. Outcome'
      BY <1>0, <2>2, <2>3, <2>4, <2>5, <3>1 DEF Outcome, At
    <3>. QED  BY <1>0, <1>1, <3>2 DEF Layers, Types
  <2>6. CASE At("initialisation", <<"init">>, "security", <<"hello">>, <<"hello", "result">>, <<>>)
    <3>1. Holds(toClient', <<"result">>)
      BY <1>0, <2>6, HoldsTwo DEF At
    <3>2. Outcome'
      BY <1>0, <2>2, <2>3, <2>4, <2>6, <3>1 DEF Outcome, At
    <3>. QED  BY <1>0, <1>1, <3>2 DEF Layers, Types
  <2>. QED  BY <1>1, <2>5, <2>6 DEF TlsDone
<1>2. CASE server.type = "TLSVnc"
  <2>1. At("security", <<"response">>, "security", <<"hello", "challenge">>, <<"hello", "challenge">>, <<>>)
    BY <1>2 DEF TlsDone
  <2>2. rest = <<"challenge">> /\ rest # <<>>
    BY <2>1 DEF At
  <2>3. client'.state = "security" /\ client'.awaits = <<"challenge">> /\ toServer' = toServer \o <<>>
    BY <2>2 DEF Continued
  <2>4. toServer' = <<>>
    BY <1>0, <2>3
  <2>5. Holds(toServer', <<>>)
    BY <2>4, HoldsFacts
  <2>6. Holds(toClient', <<"challenge">>)
    BY <1>0, <2>1, HoldsTwo DEF At
  <2>7. VncLayer'
    BY <1>0, <2>1, <2>3, <2>5, <2>6 DEF VncLayer, At
  <2>. QED  BY <1>0, <1>2, <2>7 DEF Layers
<1>3. CASE server.type = "TLSPlain"
  <2>1. At("security", <<"credentials">>, "security", <<"hello">>, <<"hello">>, <<>>)
    BY <1>3 DEF TlsDone
  <2>2. rest = <<>> /\ Unasked(client) = <<Item("credentials", setup.password)>>
    BY <1>0, <1>3, <2>1 DEF At, Unasked
  <2>3. /\ client'.state = "result" /\ client'.awaits = <<"result">>
        /\ toServer' = toServer \o (<<>> \o <<Item("credentials", setup.password)>>)
    BY <1>0, <1>3, <2>2 DEF Continued
  <2>4. Holds(toServer', <<"credentials">>)
    BY <1>0, <2>3, Alone
  <2>5. Holds(toClient', <<>>)
    BY <1>0, <2>1, HoldsOne DEF At
  <2>6. PlainLayer'
    BY <1>0, <2>1, <2>3, <2>4, <2>5 DEF PlainLayer, At
  <2>. QED  BY <1>0, <1>3, <2>6 DEF Layers
<1>. QED  BY <1>1, <1>2, <1>3

LEMMA ClientHelloStep == ASSUME IInv, ClientSecurity, ClientAtSecurity("hello") PROVE IInv'
<1>. DEFINE rest == Tail(client.awaits)
<1>1. Typed /\ (Live => Conversation) /\ client \in End(ClientStates) /\ <<>> \in Seq(ReplyTypes)
  BY DEF IInv, Typed
<1>2. Continue(client, rest, <<>>)
  BY DEF ClientSecurity, ClientAtSecurity
<1>3. rest \in Seq(Kinds) /\ ClientProvided(client.type, rest)
  BY ClientRest DEF ClientAtSecurity
<1>4. ASSUME Continued(client, rest, <<>>), Live' PROVE Conversation'
  <2>1. Live
    BY <1>4 DEF Live, ClientAtSecurity
  <2>2. Layers /\ TlsDone(server.type) /\ server.type \in {"TLSNone", "TLSVnc", "TLSPlain"}
    BY <1>1, <2>1, Empty, Tuples, TlsHeads
       DEF ClientAtSecurity, Conversation, Greeting, Choice, Chosen, Begun, SubtypeChosen, Told, Layers,
           VeNCryptLayer, TlsLayer, TlsDone, VncLayer, PlainLayer, Outcome, At
  <2>3. Layers'
    BY <1>1, <1>4, <2>2, HelloContinues DEF ClientAtSecurity
  <2>. QED  BY <2>3 DEF Conversation
<1>. HIDE DEF rest
<1>. QED  BY <1>1, <1>2, <1>3, <1>4, ContinueStep DEF ClientAtSecurity

LEMMA ClientSecurityStep == ASSUME IInv, ClientSecurity PROVE IInv'
  BY ClientSecurityFacts, ClientVencryptStep, ClientSubtypesStep, ChallengeStep, TlsStep, ClientHelloStep

-----------------------------------------------------------------------------
(* The end at the viewer.                                                  *)

LEMMA ClientResultStep == ASSUME IInv, ClientResult PROVE IInv'
<1>1. Typed /\ ServerSound /\ ClientSound /\ (Live => Conversation)
  BY DEF IInv
<1>2. /\ client.state = "result" /\ toClient # <<>> /\ toClient' = Tail(toClient) /\ UNCHANGED <<setup, server>>
  BY DEF ClientResult, Receive
<1>3. toClient' \in Seq(ToClient)
  BY <1>1, <1>2, QueueFacts DEF Typed
<1>4. CASE Head(toClient).val = "ok"
  <2>1. client' = Completed(client) /\ toServer' = toServer \o <<Item("init", 0)>>
    BY <1>4 DEF ClientResult, Replying, ClientInit
  <2>2. /\ client' \in End(ClientStates) /\ client'.state = "initialisation" /\ client'.awaits = <<"init">>
        /\ client'.minor = client.minor /\ client'.type = client.type
    BY <1>1, <2>1, KindTuples DEF Completed, Typed, End, ClientStates
  <2>3. <<Item("init", 0)>> \in Seq(ToServer(setup.password))
    BY ReplyItems, TupleTypes DEF ReplyTypes
  <2>4. toServer' \in Seq(ToServer(setup.password))
    BY <1>1, <2>1, <2>3, ConcatProperties DEF Typed
  <2>5. Typed'
    BY <1>1, <1>2, <1>3, <2>2, <2>4 DEF Typed
  <2>6. ServerSound' /\ ClientSound'
    BY <1>1, <1>2, <2>2, ServerKept DEF ClientSound
  <2>7. ASSUME Live' PROVE Conversation'
    <3>1. Live
      BY <1>2, <2>7 DEF Live
    <3>2. /\ Layers /\ server.type \in Types
          /\ At("initialisation", <<"init">>, "result", <<"result">>, <<"result">>, <<>>)
      BY <1>1, <1>2, <3>1, Empty DEF Conversation, Greeting, Choice, Chosen, Begun, SubtypeChosen, Told, Layers,
                                     VeNCryptLayer, TlsLayer, TlsDone, VncLayer, PlainLayer, Outcome, At
    <3>3. toServer = <<>> /\ Holds(toClient', <<>>)
      BY <1>1, <1>2, <3>2, Empty, HoldsOne DEF At, Typed
    <3>4. Holds(toServer', <<"init">>)
      BY <2>1, <3>3, SendOne
    <3>5. Outcome'
      BY <1>2, <2>2, <3>2, <3>3, <3>4 DEF Outcome, At
    <3>. QED  BY <1>2, <2>2, <3>2, <3>5 DEF Conversation, Layers
  <2>. QED  BY <2>5, <2>6, <2>7 DEF IInv
<1>5. CASE Head(toClient).val # "ok"
  <2>1. client' = Closed(client) /\ toServer' = toServer \o <<>>
    BY <1>5 DEF ClientResult, Replying
  <2>2. toServer' \in Seq(ToServer(setup.password))
    BY <1>1, <2>1 DEF Typed
  <2>. QED  BY <1>1, <1>2, <1>3, <2>1, <2>2, Ends, ClientEnds
<1>. QED  BY <1>4, <1>5

LEMMA ClientServerInitStep == ASSUME IInv, ClientServerInit PROVE IInv'
<1>1. Typed /\ ServerSound /\ ClientSound /\ (Live => Conversation)
  BY DEF IInv
<1>2. /\ client.state = "initialisation" /\ toClient # <<>> /\ toClient' = Tail(toClient)
      /\ client' = [client EXCEPT !.state = "normal", !.awaits = <<>>] /\ UNCHANGED <<setup, server, toServer>>
  BY DEF ClientServerInit, Receive
<1>3. /\ client' \in End(ClientStates) /\ client'.state = "normal" /\ client'.awaits = <<>>
      /\ client'.minor = client.minor /\ client'.type = client.type
  BY <1>1, <1>2, KindTuples DEF Typed, End, ClientStates
<1>4. toClient' \in Seq(ToClient)
  BY <1>1, <1>2, QueueFacts DEF Typed
<1>5. Typed'
  BY <1>1, <1>2, <1>3, <1>4 DEF Typed
<1>6. ServerSound' /\ ClientSound'
  BY <1>1, <1>2, <1>3, ServerKept DEF ClientSound
<1>7. ASSUME Live' PROVE Conversation'
  <2>1. Live
    BY <1>2, <1>7 DEF Live
  <2>2. Layers /\ server.type \in Types /\ At("normal", <<>>, "initialisation", <<"init">>, <<"init">>, <<>>)
    BY <1>1, <1>2, <2>1, Empty DEF Conversation, Greeting, Choice, Chosen, Begun, SubtypeChosen, Told, Layers,
                                   VeNCryptLayer, TlsLayer, TlsDone, VncLayer, PlainLayer, Outcome, At
  <2>3. Holds(toClient', <<>>)
    BY <1>1, <1>2, <2>2, HoldsOne DEF At, Typed
  <2>4. Outcome'
    BY <1>2, <1>3, <2>2, <2>3 DEF Outcome, At
  <2>. QED  BY <1>2, <1>3, <2>2, <2>4 DEF Conversation, Layers
<1>. QED  BY <1>5, <1>6, <1>7 DEF IInv

-----------------------------------------------------------------------------
(* The invariant is one: ServerSound and ClientSound carry what an end has *)
(* checked over the loss of the other, Conversation what both are at.      *)
THEOREM Invariant == Spec => []IInv
<1>1. Init => IInv
  BY HandshakeAssumption, Beginning DEF Init
<1>2. IInv /\ [Next]_vars => IInv'
  <2>. SUFFICES ASSUME IInv, [Next]_vars PROVE IInv'
    OBVIOUS
  <2>1. CASE ServerStep
    BY <2>1, RefuseStep, AddSocketStep, ServerVersionStep, ServerTypeStep, ServerSecurityStep, ApproveStep,
       ServerInitStep, LostStep DEF ServerStep
  <2>2. CASE ClientStep
    BY <2>2, ClientVersionStep, ClientTypeStep, ClientSecurityStep, ClientResultStep, ClientServerInitStep, LostStep
       DEF ClientStep
  <2>3. CASE GiveUp
    BY <2>3, LostStep
  <2>4. CASE Retry
    BY <2>4, RetryStep
  <2>5. CASE Tick
    BY <2>5, StutterStep DEF Tick
  <2>6. CASE UNCHANGED vars
    BY <2>6, StutterStep DEF vars
  <2>. QED  BY <2>1, <2>2, <2>3, <2>4, <2>5, <2>6 DEF Next
<1>. QED  BY <1>1, <1>2, PTL DEF Spec

(* The fields of both ends keep their types: versions are official ones    *)
(* and security types known ones, through every message and restart.       *)
THEOREM TypeCorrect == Spec => []TypeOK
<1>1. IInv => TypeOK
  BY DEF IInv, Typed, End, ServerStates, ClientStates, AllTypes, TypeOK
<1>. QED  BY <1>1, Invariant, PTL

(* Neither end ever finds an item it does not expect while the other is    *)
(* there, in any configuration: processMsg of SConnection and CConnection  *)
(* and of every security type read what the other has written.             *)
THEOREM EndsUnderstand == Spec => []Understood
<1>1. IInv => Understood
  <2>. SUFFICES ASSUME IInv, Live PROVE Understood
    BY DEF Understood, Live
  <2>. DEFINE C == client.awaits # <<>> /\ toClient # <<>> => Head(toClient).kind = Head(client.awaits)
              S == server.awaits # <<>> /\ toServer # <<>> => Head(toServer).kind = Head(server.awaits)
              Q == server.state = "querying" /\ toServer # <<>> => server.minor < 8 /\ server.type = "None"
  <2>. SUFFICES C /\ S /\ Q
    BY DEF Understood
  <2>1. Typed /\ Conversation
    BY DEF IInv
  <2>2. \A k : Holds(toClient, <<k>>) => Head(toClient).kind = k
    BY <2>1, HoldsOne DEF Typed
  <2>3. \A k, l : Holds(toClient, <<k, l>>) => Head(toClient).kind = k
    BY <2>1, HoldsTwo DEF Typed
  <2>4. \A k : Holds(toServer, <<k>>) => Head(toServer).kind = k
    BY <2>1, HoldsOne DEF Typed
  <2>5. \A k, l : Holds(toServer, <<k, l>>) => Head(toServer).kind = k
    BY <2>1, HoldsTwo DEF Typed
  <2>6. (Holds(toServer, <<>>) <=> toServer = <<>>) /\ (Holds(toClient, <<>>) <=> toClient = <<>>)
    BY <2>1, Empty
  <2>7. CASE Greeting
    BY <2>2, <2>4, <2>6, <2>7, Tuples DEF Greeting, At
  <2>8. CASE Choice
    BY <2>2, <2>6, <2>8, Tuples DEF Choice, At
  <2>9. CASE Chosen \/ SubtypeChosen
    BY <2>4, <2>5, <2>6, <2>9, Tuples DEF Chosen, SubtypeChosen, Begun
  <2>10. CASE Told
    BY <2>2, <2>3, <2>6, <2>10, Tuples DEF Told, At
  <2>11. CASE Layers
    <3>1. CASE server.type = "VeNCrypt" /\ VeNCryptLayer
      BY <2>2, <2>4, <2>6, <3>1, Tuples DEF VeNCryptLayer, At
    <3>2. CASE server.type \in {"TLSNone", "TLSVnc", "TLSPlain"} /\ TlsLayer(server.type)
      BY <2>2, <2>4, <2>6, <3>2, TlsHeads DEF TlsLayer, At
    <3>3. CASE TlsDone(server.type)
      BY <2>2, <2>3, <2>6, <3>3, Tuples DEF TlsDone, At
    <3>4. CASE VncLayer
      BY <2>2, <2>4, <2>6, <3>4, Tuples DEF VncLayer, At
    <3>5. CASE PlainLayer
      BY <2>4, <2>6, <3>5, Tuples DEF PlainLayer, At
    <3>6. CASE Outcome
      BY <2>2, <2>4, <2>6, <3>6, Tuples DEF Outcome, At, Results
    <3>. QED  BY <2>11, <3>1, <3>2, <3>3, <3>4, <3>5, <3>6 DEF Layers
  <2>. HIDE DEF C, S, Q
  <2>. QED  BY <2>1, <2>7, <2>8, <2>9, <2>10, <2>11 DEF Conversation
<1>. QED  BY <1>1, Invariant, PTL

(* The ends never wait for each other: as long as both are there and not   *)
(* both in session, one finds what it awaits, or it is the turn of the     *)
(* server, which has not been called yet or awaits the user's answer.      *)
Finds(e, q) == e.awaits # <<>> /\ q # <<>> /\ Head(q).kind = Head(e.awaits)
SomeoneGoesOn ==
  Live /\ ~Both("normal") =>
    server.state \in {"new", "querying"} \/ Finds(client, toClient) \/ Finds(server, toServer)

(* No configuration of lists and versions leads into a deadlock: what      *)
(* processMsg of one end waits for, the other has sent or is to send.      *)
THEOREM NeverBothWait == Spec => []SomeoneGoesOn
<1>1. IInv => SomeoneGoesOn
  <2>. SUFFICES ASSUME IInv, Live, ~Both("normal"), server.state \notin {"new", "querying"}
                PROVE  Finds(client, toClient) \/ Finds(server, toServer)
    BY DEF SomeoneGoesOn
  <2>1. Typed /\ Conversation
    BY DEF IInv
  <2>2. \A k, l : Holds(toClient, <<k>>) \/ Holds(toClient, <<k, l>>) => toClient # <<>> /\ Head(toClient).kind = k
    BY <2>1, HoldsOne, HoldsTwo DEF Typed
  <2>3. \A k, l : Holds(toServer, <<k>>) \/ Holds(toServer, <<k, l>>) => toServer # <<>> /\ Head(toServer).kind = k
    BY <2>1, HoldsOne, HoldsTwo DEF Typed
  <2>4. ASSUME NEW k, NEW l, client.awaits \in {<<k>>, <<k, l>>} \/ (client.awaits # <<>> /\ Head(client.awaits) = k),
               NEW m, Holds(toClient, <<k>>) \/ Holds(toClient, <<k, m>>)
        PROVE  Finds(client, toClient)
    BY <2>2, <2>4, Tuples DEF Finds
  <2>5. ASSUME NEW k, NEW l, server.awaits \in {<<k>>, <<k, l>>} \/ (server.awaits # <<>> /\ Head(server.awaits) = k),
               NEW m, Holds(toServer, <<k>>) \/ Holds(toServer, <<k, m>>)
        PROVE  Finds(server, toServer)
    BY <2>3, <2>5, Tuples DEF Finds
  <2>6. CASE Greeting
    BY <2>4, <2>5, <2>6 DEF Greeting, At
  <2>7. CASE Choice
    BY <2>4, <2>7 DEF Choice, At
  <2>8. CASE Chosen \/ SubtypeChosen
    BY <2>5, <2>8 DEF Chosen, SubtypeChosen, Begun
  <2>9. CASE Told
    BY <2>4, <2>9 DEF Told, At
  <2>10. CASE Layers
    <3>1. CASE VeNCryptLayer
      BY <2>4, <2>5, <3>1 DEF VeNCryptLayer, At
    <3>2. CASE server.type \in {"TLSNone", "TLSVnc", "TLSPlain"} /\ TlsLayer(server.type)
      <4>1. /\ ServerAwaits(server.type) # <<>> /\ Head(ServerAwaits(server.type)) = "hello"
            /\ ClientAwaits(server.type) # <<>> /\ Head(ClientAwaits(server.type)) = "tls"
        BY <3>2, AwaitsFacts, Tuples, TlsHeads
      <4>. QED  BY <2>4, <2>5, <3>2, <4>1 DEF TlsLayer, At
    <3>3. CASE TlsDone(server.type)
      BY <2>4, <3>3, Tuples, <2>2 DEF TlsDone, At, Finds
    <3>4. CASE VncLayer
      BY <2>4, <2>5, <3>4 DEF VncLayer, At
    <3>5. CASE PlainLayer
      BY <2>5, <3>5 DEF PlainLayer, At
    <3>6. CASE Outcome
      BY <2>4, <2>5, <3>6 DEF Outcome, At, Both
    <3>. QED  BY <2>10, <3>1, <3>2, <3>3, <3>4, <3>5, <3>6 DEF Layers
  <2>. QED  BY <2>1, <2>6, <2>7, <2>8, <2>9, <2>10 DEF Conversation
<1>. QED  BY <1>1, Invariant, PTL

(* Whatever the configurations and however often a host tries, the server  *)
(* starts no session without the password, the consent and a type that     *)
(* both ends are configured for: no downgrade leads into one.              *)
THEOREM SessionsAdmitted == Spec => []Admitted
<1>1. IInv => Admitted
  <2>. SUFFICES ASSUME IInv PROVE Admitted
    OBVIOUS
  <2>1. ServerSound /\ ClientSound /\ (Live => Conversation)
    BY DEF IInv
  <2>2. Ready(server) => /\ IsIn(server.type, setup.serverTypes) /\ Authenticated(server.type)
                         /\ setup.consent = "accept" \/ (setup.consent = "ask" /\ setup.answer)
    BY <2>1 DEF ServerSound, Ready
  <2>3. Ready(client) => IsIn(client.type, setup.clientTypes)
    BY <2>1 DEF ClientSound, Ready
  <2>4. ASSUME Ready(server), Ready(client) PROVE server.minor = client.minor /\ server.type = client.type
    <3>1. Conversation
      BY <2>1, <2>4 DEF Ready, Live
    <3>. QED  BY <2>4, <3>1 DEF Ready, Conversation, Greeting, Choice, Chosen, SubtypeChosen, Told, Layers, At
  <2>. QED  BY <2>2, <2>3, <2>4 DEF Admitted
<1>. QED  BY <1>1, Invariant, PTL

-----------------------------------------------------------------------------
(* Powers of two: the function that its equation describes exists, since   *)
(* there is one on every 0 .. n.                                           *)

Doubling(f, n) == f \in [0 .. n -> Nat] /\ f[0] = 1 /\ \A i \in 0 .. n - 1 : f[i + 1] = 2 * f[i]

LEMMA DoublingExists == ASSUME NEW n \in Nat PROVE \E f : Doubling(f, n)
<1>. DEFINE Bad == {m \in Nat : ~ \E f : Doubling(f, m)}
<1>1. SUFFICES ASSUME Bad # {} PROVE FALSE
  OBVIOUS
<1>2. PICK m \in Bad : \A y \in Bad : m <= y
  BY <1>1, Least
<1>3. CASE m = 0
  <2>. DEFINE f == [i \in 0 .. 0 |-> 1]
  <2>1. Doubling(f, m)
    BY <1>3 DEF Doubling
  <2>. QED  BY <1>2, <2>1
<1>4. CASE m # 0
  <2>1. m - 1 \in Nat /\ m - 1 \notin Bad
    BY <1>2, <1>4
  <2>2. PICK f : Doubling(f, m - 1)
    BY <2>1
  <2>. DEFINE g == [i \in 0 .. m |-> IF i = m THEN 2 * f[m - 1] ELSE f[i]]
  <2>3. /\ \A i \in 0 .. m - 1 : f[i] \in Nat
        /\ f[0] = 1 /\ \A i \in 0 .. m - 2 : f[i + 1] = 2 * f[i]
    BY <2>1, <2>2 DEF Doubling
  <2>4. g \in [0 .. m -> Nat]
    BY <1>2, <1>4, <2>3
  <2>5. g[0] = 1
    BY <1>2, <1>4, <2>3
  <2>6. ASSUME NEW i \in 0 .. m - 1 PROVE g[i + 1] = 2 * g[i]
    <3>1. i \in 0 .. m /\ i + 1 \in 0 .. m /\ i # m
      BY <1>2
    <3>2. g[i] = f[i]
      BY <3>1
    <3>3. CASE i + 1 = m
      <4>1. g[i + 1] = 2 * f[m - 1] /\ m - 1 = i
        BY <1>2, <3>1, <3>3
      <4>. QED  BY <3>2, <4>1
    <3>4. CASE i + 1 # m
      <4>1. g[i + 1] = f[i + 1] /\ i \in 0 .. m - 2
        BY <1>2, <3>1, <3>4
      <4>. QED  BY <2>3, <3>2, <4>1
    <3>. QED  BY <3>3, <3>4
  <2>7. Doubling(g, m)
    BY <2>4, <2>5, <2>6 DEF Doubling
  <2>. QED  BY <1>2, <2>7
<1>. QED  BY <1>3, <1>4

LEMMA DoublingUnique ==
  ASSUME NEW m \in Nat, NEW n \in Nat, NEW f, NEW g, Doubling(f, m), Doubling(g, n), NEW i \in Nat, i <= m, i <= n
  PROVE  f[i] = g[i]
<1>. DEFINE Bad == {j \in 0 .. i : f[j] # g[j]}
<1>1. SUFFICES ASSUME Bad # {} PROVE FALSE
  OBVIOUS
<1>2. PICK j \in Bad : \A y \in Bad : j <= y
  <2>. HIDE DEF Bad
  <2>1. Bad \subseteq Nat
    BY DEF Bad
  <2>. QED  BY <1>1, <2>1, Least
<1>3. j # 0
  BY <1>2 DEF Doubling
<1>4. j - 1 \in 0 .. i /\ j - 1 \notin Bad
  BY <1>2, <1>3
<1>5. f[j - 1] = g[j - 1]
  BY <1>4
<1>6. f[(j - 1) + 1] = 2 * f[j - 1] /\ g[(j - 1) + 1] = 2 * g[j - 1]
  BY <1>2, <1>3 DEF Doubling
<1>. QED  BY <1>2, <1>3, <1>5, <1>6

LEMMA Pow2Equation == Pow2 = [n \in Nat |-> IF n = 0 THEN 1 ELSE 2 * Pow2[n - 1]]
<1>. DEFINE On(n) == CHOOSE f : Doubling(f, n)
            F == [n \in Nat |-> On(n)[n]]
<1>1. \A n \in Nat : Doubling(On(n), n)
  BY DoublingExists
<1>2. F[0] = 1
  BY <1>1 DEF Doubling
<1>3. ASSUME NEW n \in Nat, n # 0 PROVE F[n] = 2 * F[n - 1]
  <2>1. n - 1 \in Nat /\ Doubling(On(n), n) /\ Doubling(On(n - 1), n - 1)
    BY <1>1, <1>3
  <2>. HIDE DEF On
  <2>2. On(n)[(n - 1) + 1] = 2 * On(n)[n - 1]
    BY <2>1 DEF Doubling
  <2>3. On(n)[n - 1] = On(n - 1)[n - 1]
    BY <2>1, DoublingUnique
  <2>. QED  BY <2>1, <2>2, <2>3
<1>. HIDE DEF F
<1>4. F = [n \in Nat |-> IF n = 0 THEN 1 ELSE 2 * F[n - 1]]
  <2>1. F = [n \in Nat |-> F[n]]
    BY DEF F
  <2>. QED  BY <1>2, <1>3, <2>1
<1>. QED  BY <1>4 DEF Pow2

LEMMA Pow2Facts ==
  ASSUME NEW n \in Nat
  PROVE  Pow2[0] = 1 /\ Pow2[n] \in Nat \ {0} /\ Pow2[n + 1] = 2 * Pow2[n]
<1>1. Pow2[0] = 1
  BY Pow2Equation
<1>2. \A m \in Nat : Pow2[m + 1] = 2 * Pow2[m]
  <2>. TAKE m \in Nat
  <2>1. m + 1 \in Nat /\ m + 1 # 0 /\ (m + 1) - 1 = m
    OBVIOUS
  <2>. QED  BY <2>1, Pow2Equation
<1>. DEFINE Bad == {m \in Nat : Pow2[m] \notin Nat \ {0}}
<1>3. ASSUME Bad # {} PROVE FALSE
  <2>1. PICK m \in Bad : \A y \in Bad : m <= y
    BY <1>3, Least
  <2>2. m # 0
    BY <1>1, <2>1
  <2>3. m - 1 \in Nat /\ m - 1 \notin Bad /\ (m - 1) + 1 = m
    BY <2>1, <2>2
  <2>4. Pow2[m] = 2 * Pow2[m - 1] /\ Pow2[m - 1] \in Nat \ {0}
    BY <1>2, <2>3
  <2>. QED  BY <2>1, <2>4
<1>. QED  BY <1>1, <1>2, <1>3

-----------------------------------------------------------------------------
(* The wait.                                                               *)

(* How long a host has to wait that has been let through n times: the      *)
(* value of its timeout doubled once for each time from the threshold on.  *)
Wait(n) == InitialTimeout * Pow2[n - Threshold]
Fits(n) == Wait(n) < Pow2[Width]

Marked ==
  /\ let \in Seq(Nat) /\ now \in Nat /\ blacklist \in [marks : Nat, until : Nat, timeout : Nat]
  /\ let = <<>> => blacklist = NoMarks
  /\ let # <<>> /\ Len(let) < Threshold => blacklist.marks = Len(let) + 1 /\ blacklist.timeout = InitialTimeout
  /\ Len(let) >= Threshold =>
       /\ blacklist.marks = Threshold
       /\ Fits(Len(let)) => blacklist.until = let[Len(let)] + Wait(Len(let))
       /\ Fits(Len(let) + 1) => blacklist.timeout = Wait(Len(let) + 1)

LEMMA WaitFacts ==
  ASSUME NEW n \in Nat, n >= Threshold
  PROVE  /\ Wait(n) \in Nat /\ Wait(n + 1) = 2 * Wait(n) /\ Wait(Threshold) = InitialTimeout
         /\ Pow2[Width] \in Nat \ {0}
         /\ Fits(n + 1) => Fits(n)
<1>1. Threshold \in Nat /\ InitialTimeout \in Nat /\ Width \in Nat
  BY HandshakeAssumption
<1>2. n - Threshold \in Nat /\ (n + 1) - Threshold = (n - Threshold) + 1 /\ Threshold - Threshold = 0
  BY <1>1
<1>3. Pow2[0] = 1 /\ Pow2[n - Threshold] \in Nat /\ Pow2[(n - Threshold) + 1] = 2 * Pow2[n - Threshold]
      /\ Pow2[Width] \in Nat \ {0}
  BY <1>1, <1>2, Pow2Facts
<1>4. Wait(n) \in Nat /\ Wait(Threshold) = InitialTimeout
  BY <1>1, <1>2, <1>3 DEF Wait
<1>5. Wait(n + 1) = 2 * Wait(n)
  <2>1. ASSUME NEW x \in Nat, NEW y \in Nat PROVE x * (2 * y) = 2 * (x * y)
    OBVIOUS
  <2>2. Wait(n + 1) = InitialTimeout * (2 * Pow2[n - Threshold])
    BY <1>2, <1>3 DEF Wait
  <2>. QED  BY <1>1, <1>3, <2>1, <2>2 DEF Wait
<1>. QED  BY <1>3, <1>4, <1>5 DEF Fits

(* The entry is made with the first attempt and kept until then.           *)
LEMMA EntryFacts ==
  ASSUME Marked
  PROVE  /\ Entry \in [marks : Nat, until : Nat, timeout : Nat]
         /\ Len(let) < Threshold => Entry.marks = Len(let) + 1 /\ Entry.timeout = InitialTimeout
         /\ Len(let) >= Threshold => Entry = blacklist
<1>1. Threshold \in Nat \ {0} /\ InitialTimeout \in Nat
  BY HandshakeAssumption
<1>2. Len(let) \in Nat /\ (let = <<>> <=> Len(let) = 0)
  BY DEF Marked
<1>3. CASE let = <<>>
  BY <1>1, <1>2, <1>3 DEF Marked, Entry
<1>4. CASE let # <<>>
  <2>1. blacklist.marks > 0
    BY <1>1, <1>2, <1>4 DEF Marked
  <2>2. blacklist # NoMarks
    BY <2>1 DEF NoMarks
  <2>. QED  BY <1>1, <1>2, <1>4, <2>2 DEF Marked, Entry
<1>. QED  BY <1>3, <1>4

LEMMA RetryFacts ==
  ASSUME NEW b \in [marks : Nat, until : Nat, timeout : Nat], now \in Nat, (2 * b.timeout) % Pow2[Width] \in Nat
  PROVE  /\ RetryTimeout(b) \in [marks : Nat, until : Nat, timeout : Nat] /\ RetryTimeout(b).marks = b.marks
         /\ RetryTimeout(b).until = now + b.timeout /\ RetryTimeout(b).timeout = (2 * b.timeout) % Pow2[Width]
<1>1. now + b.timeout \in Nat
  OBVIOUS
<1>. QED  BY <1>1 DEF RetryTimeout

(* A host that is let through.                                             *)
LEMMA LetThrough == ASSUME Marked, BackOff, AddSocket PROVE Marked' /\ BackOff'
<1>. DEFINE n == Len(let)
<1>1. Threshold \in Nat \ {0} /\ InitialTimeout \in Nat
  BY HandshakeAssumption
<1>2. let \in Seq(Nat) /\ now \in Nat /\ n \in Nat
  BY DEF Marked
<1>3. /\ Entry.marks < Threshold \/ now >= Entry.until
      /\ blacklist' = IF Entry.marks >= Threshold THEN RetryTimeout(Entry) ELSE [Entry EXCEPT !.marks = @ + 1]
      /\ let' = Append(let, now) /\ now' = now
  <2>1. Entry.marks \in Nat /\ Entry.until \in Nat
    BY EntryFacts
  <2>. QED  BY <1>1, <1>2, <2>1 DEF AddSocket, IsBlackmarked
<1>4. /\ let' \in Seq(Nat) /\ Len(let') = n + 1 /\ let'[n + 1] = now
      /\ \A i \in 1 .. n : let'[i] = let[i]
      /\ let' # <<>>
  BY <1>2, <1>3
<1>5. CASE n + 1 < Threshold
  <2>1. Entry.marks = n + 1 /\ Entry.timeout = InitialTimeout /\ Entry \in [marks : Nat, until : Nat, timeout : Nat]
    BY <1>1, <1>2, <1>5, EntryFacts
  <2>2. blacklist' = [Entry EXCEPT !.marks = @ + 1]
    BY <1>1, <1>2, <1>3, <1>5, <2>1
  <2>3. blacklist' \in [marks : Nat, until : Nat, timeout : Nat] /\ blacklist'.marks = n + 2
        /\ blacklist'.timeout = InitialTimeout
    BY <1>2, <2>1, <2>2
  <2>4. Marked'
    BY <1>1, <1>2, <1>3, <1>4, <1>5, <2>3 DEF Marked
  <2>5. BackOff'
    BY <1>1, <1>2, <1>4, <1>5 DEF BackOff
  <2>. QED  BY <2>4, <2>5
<1>6. CASE n + 1 >= Threshold
  <2>1. Entry \in [marks : Nat, until : Nat, timeout : Nat] /\ Entry.marks = Threshold
    <3>1. CASE n + 1 = Threshold
      BY <1>1, <1>2, <3>1, EntryFacts
    <3>2. CASE n >= Threshold
      BY <3>2, EntryFacts DEF Marked
    <3>. QED  BY <1>1, <1>2, <1>6, <3>1, <3>2
  <2>2. Fits(n + 1) => Entry.timeout = Wait(n + 1)
    <3>1. CASE n + 1 = Threshold
      BY <1>1, <1>2, <3>1, EntryFacts, WaitFacts
    <3>2. CASE n >= Threshold
      BY <3>2, EntryFacts DEF Marked
    <3>. QED  BY <1>1, <1>2, <1>6, <3>1, <3>2
  <2>3. blacklist' = RetryTimeout(Entry) /\ now >= Entry.until
    BY <1>1, <1>3, <2>1
  <2>4. Pow2[Width] \in Nat \ {0} /\ n + 1 \in Nat /\ Wait(n + 1) \in Nat /\ Wait(n + 2) = 2 * Wait(n + 1)
        /\ (Fits(n + 2) => Fits(n + 1))
    <3>1. n + 1 \in Nat /\ (n + 1) + 1 = n + 2
      BY <1>2
    <3>. QED  BY <1>6, <3>1, WaitFacts
  <2>5. (2 * Entry.timeout) % Pow2[Width] \in Nat
    BY <2>1, <2>4
  <2>6. /\ blacklist' \in [marks : Nat, until : Nat, timeout : Nat] /\ blacklist'.marks = Threshold
        /\ blacklist'.until = now + Entry.timeout /\ blacklist'.timeout = (2 * Entry.timeout) % Pow2[Width]
    BY <1>2, <2>1, <2>3, <2>5, RetryFacts
  <2>7. ASSUME Fits(n + 2) PROVE blacklist'.timeout = Wait(n + 2)
    <3>1. Entry.timeout = Wait(n + 1) /\ 2 * Entry.timeout \in Nat /\ 2 * Entry.timeout < Pow2[Width]
      BY <2>2, <2>4, <2>7 DEF Fits
    <3>2. ASSUME NEW x \in Nat, NEW y \in Nat \ {0}, x < y PROVE x % y = x
      BY <3>2
    <3>. QED  BY <2>4, <2>6, <3>1, <3>2
  <2>8. Fits(n + 1) => blacklist'.until = let'[n + 1] + Wait(n + 1)
    BY <1>4, <2>2, <2>6
  <2>9. Marked'
    <3>1. (n + 1) + 1 = n + 2 /\ Len(let') = n + 1
      BY <1>2, <1>4
    <3>2. Fits(Len(let))' => Fits(n + 1) /\ Wait(Len(let))' = Wait(n + 1)
      BY <3>1 DEF Fits, Wait
    <3>3. Fits(Len(let) + 1)' => Fits(n + 2) /\ Wait(Len(let) + 1)' = Wait(n + 2)
      BY <3>1 DEF Fits, Wait
    <3>4. Len(let') >= Threshold /\ let' # <<>> /\ ~(Len(let') < Threshold)
      BY <1>1, <1>2, <1>4, <1>6, <3>1
    <3>5. blacklist'.marks = Threshold
          /\ (Fits(Len(let))' => blacklist'.until = let'[Len(let')] + Wait(Len(let))')
          /\ (Fits(Len(let) + 1)' => blacklist'.timeout = Wait(Len(let) + 1)')
      BY <2>6, <2>7, <2>8, <3>1, <3>2, <3>3
    <3>6. let' \in Seq(Nat) /\ now' \in Nat /\ blacklist' \in [marks : Nat, until : Nat, timeout : Nat]
      BY <1>2, <1>3, <1>4, <2>6
    <3>. QED  BY <3>4, <3>5, <3>6 DEF Marked
  <2>10. ASSUME NEW k \in Threshold + 1 .. n + 1, Wait(k - 1) < Pow2[Width] PROVE let'[k] >= let'[k - 1] + Wait(k - 1)
    <3>1. CASE k = n + 1
      <4>1. n >= Threshold /\ Fits(n) /\ k - 1 = n
        BY <1>1, <1>2, <2>10, <3>1 DEF Fits
      <4>2. Entry.until = let[n] + Wait(n)
        BY <4>1, EntryFacts DEF Marked
      <4>3. let'[k] = now /\ let'[k - 1] = let[n]
        BY <1>1, <1>2, <1>4, <3>1, <4>1
      <4>. QED  BY <2>3, <4>1, <4>2, <4>3
    <3>2. CASE k \in Threshold + 1 .. n
      <4>1. let[k] >= let[k - 1] + Wait(k - 1)
        <5>1. k - Threshold - 1 = (k - 1) - Threshold
          BY <1>1, <3>2
        <5>. QED  BY <2>10, <3>2, <5>1 DEF BackOff, Wait
      <4>2. k \in 1 .. n /\ k - 1 \in 1 .. n
        BY <1>1, <1>2, <3>2
      <4>3. let'[k] = let[k] /\ let'[k - 1] = let[k - 1]
        BY <1>4, <4>2
      <4>. QED  BY <4>1, <4>3
    <3>. QED  BY <1>1, <1>2, <3>1, <3>2
  <2>11. BackOff'
    <3>1. \A k \in Threshold + 1 .. n + 1 : k - Threshold - 1 = (k - 1) - Threshold
      BY <1>1
    <3>. QED  BY <1>4, <2>10, <3>1 DEF BackOff, Wait
  <2>. QED  BY <2>9, <2>11
<1>. QED  BY <1>1, <1>2, <1>5, <1>6

(* A host that has authenticated starts again.                             *)
Forgotten == blacklist' = NoMarks /\ let' = <<>>

LEMMA Forgets == ASSUME Marked, Forgotten, now' = now PROVE Marked' /\ BackOff'
<1>1. Threshold \in Nat \ {0}
  BY HandshakeAssumption
<1>2. NoMarks \in [marks : Nat, until : Nat, timeout : Nat] /\ Len(<<>>) = 0
  BY DEF NoMarks
<1>. QED  BY <1>1, <1>2 DEF Forgotten, Marked, BackOff

LEMMA Keeps == ASSUME Marked, BackOff, now' \in Nat, UNCHANGED host PROVE Marked' /\ BackOff'
  BY DEF Marked, BackOff, Fits, Wait, host

LEMMA ProceedHost ==
  ASSUME NEW s, NEW awaits, NEW items, Proceed(s, awaits, items)
  PROVE  Forgotten \/ UNCHANGED host
  BY DEF Proceed, QueryConnection, Forgotten, StartTls, Awaiting, AuthFailure, Sending

LEMMA ServerStepHost ==
  ASSUME IInv, ServerStep, ~AddSocket
  PROVE  (Forgotten \/ UNCHANGED host) /\ now' = now
<1>1. CASE Refuse \/ ServerBogus \/ ServerLost
  BY <1>1 DEF Refuse, ServerBogus, ServerLost, outside
<1>2. CASE ServerVersion
  BY <1>2, ProceedHost DEF ServerVersion, Sending
<1>3. CASE ServerType
  BY <1>3, ProceedHost DEF ServerType, Sending
<1>4. CASE ServerSecurity
  <2>1. Head(server.awaits) \in PromptKinds
    BY <1>4, SecurityFacts
  <2>. QED  BY <1>4, <2>1, ProceedHost DEF PromptKinds, ServerSecurity, Verified, AuthFailure, Sending
<1>5. CASE ApproveConnection \/ ServerInit
  BY <1>5 DEF ApproveConnection, ServerInit, Sending
<1>. QED  BY <1>1, <1>2, <1>3, <1>4, <1>5 DEF ServerStep

(* A host that does not authenticate waits longer and longer: isBlackmarked *)
(* lets it through only when its block is over, and doubles the next one,   *)
(* for every threshold, initial timeout and width, and until clearBlackmark *)
(* forgets the host.                                                        *)
THEOREM AttemptsBackOff == Spec => []BackOff
<1>1. Init => Marked /\ BackOff
  <2>. SUFFICES ASSUME Init PROVE Marked /\ BackOff
    OBVIOUS
  <2>1. Threshold \in Nat \ {0} /\ Len(<<>>) = 0
    BY HandshakeAssumption
  <2>2. NoMarks \in [marks : Nat, until : Nat, timeout : Nat]
    BY DEF NoMarks
  <2>. QED  BY <2>1, <2>2 DEF Init, Marked, BackOff
<1>2. IInv /\ Marked /\ BackOff /\ [Next]_vars => Marked' /\ BackOff'
  <2>. SUFFICES ASSUME IInv, Marked, BackOff, [Next]_vars PROVE Marked' /\ BackOff'
    OBVIOUS
  <2>1. now \in Nat
    BY DEF Marked
  <2>2. CASE AddSocket
    BY <2>2, LetThrough
  <2>3. CASE ServerStep /\ ~AddSocket
    BY <2>1, <2>3, ServerStepHost, Forgets, Keeps
  <2>4. CASE ClientStep
    <3>1. UNCHANGED <<host, now>>
      BY <2>4 DEF ClientStep, ClientVersion, ClientType, ClientSecurity, ClientResult, ClientServerInit, ClientLost, outside
    <3>. QED  BY <2>1, <3>1, Keeps
  <2>5. CASE GiveUp \/ Retry \/ UNCHANGED vars
    <3>1. UNCHANGED <<host, now>>
      BY <2>5 DEF GiveUp, Retry, outside, vars
    <3>. QED  BY <2>1, <3>1, Keeps
  <2>6. CASE Tick
    <3>1. UNCHANGED host /\ now' = now + 1
      BY <2>6 DEF Tick
    <3>. QED  BY <2>1, <3>1, Keeps
  <2>. QED  BY <2>2, <2>3, <2>4, <2>5, <2>6 DEF Next
<1>. QED  BY <1>1, <1>2, Invariant, PTL DEF Spec

=============================================================================
