--------------------------- MODULE ClipboardProofs --------------------------
(***************************************************************************)
(* Theorems about Clipboard, for any number of connections, applications   *)
(* and copies.  Those about CLIPBOARD are about a server that does not     *)
(* send PRIMARY: with SendPrimary, a copy to PRIMARY takes the place of    *)
(* what CLIPBOARD has brought to the clients.                              *)
(***************************************************************************)
EXTENDS Clipboard, SequenceTheorems, TLAPS

Request == [selection : Selections, target : Targets]

-----------------------------------------------------------------------------
(* The operators.                                                          *)

LEMMA SelectionFacts == Selections \subseteq {"CLIPBOARD", "PRIMARY"} /\ "CLIPBOARD" \in Selections
  BY DEF Selections

(* The types that are asked for are those that there are, each once.       *)
LEMMA WantedFacts ==
  ASSUME NEW types \in SUBSET Mimes
  PROVE  /\ Wanted(types) \in Seq(Mimes)
         /\ \A t \in types : \E i \in DOMAIN Wanted(types) : Wanted(types)[i] = t
         /\ \A i \in DOMAIN Wanted(types) : Wanted(types)[i] \in types
         /\ \A i, j \in DOMAIN Wanted(types) : Wanted(types)[i] = Wanted(types)[j] => i = j
<1>1. CASE "text" \in types /\ "image" \in types
  <2>1. Wanted(types) = <<"text">> \o <<"image">>
    BY <1>1 DEF Wanted
  <2>2. <<"text">> \in Seq(Mimes) /\ <<"image">> \in Seq(Mimes)
    BY DEF Mimes
  <2>3. Wanted(types) \in Seq(Mimes) /\ Len(Wanted(types)) = 2
        /\ Wanted(types)[1] = "text" /\ Wanted(types)[2] = "image"
    BY <2>1, <2>2, ConcatProperties
  <2>4. DOMAIN Wanted(types) = {1, 2}
    BY <2>3
  <2>. QED  BY <1>1, <2>3, <2>4 DEF Mimes
<1>2. CASE "text" \in types /\ "image" \notin types
  <2>1. Wanted(types) = <<"text">>
    BY <1>2 DEF Wanted
  <2>. QED  BY <1>2, <2>1 DEF Mimes
<1>3. CASE "text" \notin types /\ "image" \in types
  <2>1. Wanted(types) = <<"image">>
    BY <1>3 DEF Wanted
  <2>. QED  BY <1>3, <2>1 DEF Mimes
<1>4. CASE "text" \notin types /\ "image" \notin types
  <2>1. Wanted(types) = <<>>
    BY <1>4 DEF Wanted
  <2>. QED  BY <1>4, <2>1 DEF Mimes
<1>. QED  BY <1>1, <1>2, <1>3, <1>4

(* Asking appends to the queue of the one asked and to no other.           *)
LEMMA RequestFacts ==
  ASSUME NEW q \in [Apps -> Seq(Request)], NEW w, NEW s \in Selections, NEW ts \in Seq(Targets)
  PROVE  /\ SelectionRequest(q, w, s, ts) \in [Apps -> Seq(Request)]
         /\ \A a \in Apps \ {w} : SelectionRequest(q, w, s, ts)[a] = q[a]
         /\ w \in Apps =>
              /\ Len(SelectionRequest(q, w, s, ts)[w]) = Len(q[w]) + Len(ts)
              /\ \A i \in DOMAIN q[w] : SelectionRequest(q, w, s, ts)[w][i] = q[w][i]
              /\ \A i \in DOMAIN ts : SelectionRequest(q, w, s, ts)[w][Len(q[w]) + i]
                                        = [selection |-> s, target |-> ts[i]]
<1>. DEFINE new == [i \in DOMAIN ts |-> [selection |-> s, target |-> ts[i]]]
<1>1. new \in Seq(Request) /\ Len(new) = Len(ts)
      /\ \A i \in DOMAIN ts : new[i] = [selection |-> s, target |-> ts[i]]
  <2>1. \A i \in DOMAIN ts : [selection |-> s, target |-> ts[i]] \in Request
    BY DEF Request
  <2>2. new \in [1 .. Len(ts) -> Request] /\ Len(ts) \in Nat
    BY <2>1
  <2>. QED  BY <2>2
<1>. HIDE DEF new
<1>2. SelectionRequest(q, w, s, ts) = IF w \in Apps THEN [q EXCEPT ![w] = @ \o new] ELSE q
  BY DEF SelectionRequest, new
<1>3. CASE w \in Apps
  <2>1. q[w] \in Seq(Request) /\ Len(q[w]) \in Nat /\ Len(ts) \in Nat
        /\ DOMAIN q[w] = 1 .. Len(q[w]) /\ DOMAIN ts = 1 .. Len(ts)
    BY <1>3
  <2>2. /\ q[w] \o new \in Seq(Request) /\ Len(q[w] \o new) = Len(q[w]) + Len(ts)
        /\ \A i \in 1 .. Len(q[w]) + Len(ts) :
             (q[w] \o new)[i] = IF i <= Len(q[w]) THEN q[w][i] ELSE new[i - Len(q[w])]
    <3>1. /\ q[w] \o new \in Seq(Request) /\ Len(q[w] \o new) = Len(q[w]) + Len(new)
          /\ \A i \in 1 .. Len(q[w]) + Len(new) :
               (q[w] \o new)[i] = IF i <= Len(q[w]) THEN q[w][i] ELSE new[i - Len(q[w])]
      BY <2>1, <1>1, ConcatProperties, Zenon
    <3>. QED  BY <1>1, <3>1, Zenon
  <2>4. \A i \in DOMAIN q[w] : (q[w] \o new)[i] = q[w][i]
    BY <2>1, <2>2
  <2>5. \A i \in DOMAIN ts : (q[w] \o new)[Len(q[w]) + i] = new[i]
    BY <2>1, <2>2
  <2>3. SelectionRequest(q, w, s, ts) = [q EXCEPT ![w] = q[w] \o new]
    BY <1>2, <1>3
  <2>6. SelectionRequest(q, w, s, ts) \in [Apps -> Seq(Request)]
    BY <1>3, <2>2, <2>3
  <2>7. SelectionRequest(q, w, s, ts)[w] = q[w] \o new
        /\ \A a \in Apps \ {w} : SelectionRequest(q, w, s, ts)[a] = q[a]
    BY <1>3, <2>3
  <2>. QED  BY <1>1, <2>2, <2>4, <2>5, <2>6, <2>7
<1>4. CASE w \notin Apps
  BY <1>2, <1>4
<1>. QED  BY <1>3, <1>4

LEMMA EntryFacts ==
  ASSUME NEW t \in Mimes, NEW w \in Clients \cup Apps \cup {Vnc}, NEW n \in 0 .. MaxCopies
  PROVE  /\ Entry(t, w, n) \in Entries
         /\ Entry(t, w, n).mime = t /\ Entry(t, w, n).from = w /\ Entry(t, w, n).data = n
  BY DEF Entry, Entries

LEMMA CollectFacts ==
  ASSUME NEW old \in [Clients -> Seq(Entries)], NEW e \in Entries
  PROVE  /\ Collect(old, e) \in [Clients -> Seq(Entries)]
         /\ \A c \in MayCut \cap Connected : Collect(old, e)[c] = Append(old[c], e)
         /\ \A c \in Clients \ (MayCut \cap Connected) : Collect(old, e)[c] = old[c]
  BY ClipboardAssumption DEF Collect, Connected

-----------------------------------------------------------------------------
(* Types.                                                                  *)

LEMMA InitType == Init => TypeOK
<1>. SUFFICES ASSUME Init PROVE TypeOK
  OBVIOUS
<1>1. joined \in [Clients -> 0 .. MaxCopies + 1]
  BY ClipboardAssumption DEF Init
<1>2. /\ binaryClipboard \in [Clients -> Seq(Entries)] /\ binclipTimer \subseteq Connected
      /\ shown \in [Clients -> SUBSET Entries]
      /\ requests \in [Apps -> Seq([selection : Selections, target : Targets])]
  BY DEF Init
<1>3. holds \in [Apps -> [Selections -> [types : SUBSET Mimes, data : 0 .. MaxCopies]]]
  <2>1. [types |-> {}, data |-> 0] \in [types : SUBSET Mimes, data : 0 .. MaxCopies]
    BY ClipboardAssumption
  <2>. QED  BY <2>1 DEF Init
<1>4. owner \in [Selections -> Apps \cup {Vnc, Nobody}] /\ copies \in 0 .. MaxCopies
  BY ClipboardAssumption DEF Init
<1>6. answering \in [Apps -> Replies \cup {Nobody}] /\ spoilt \subseteq 0 .. MaxCopies
  BY DEF Init
<1>5. /\ clipboardClient \in Connected \cup {Nobody} /\ activeSelection \in Selections \cup {Nobody} /\ probing \in BOOLEAN
      /\ mimesFromClient \subseteq Mimes \ {"text"} /\ textFromClient \in BOOLEAN
  BY DEF Init
<1>. QED  BY <1>1, <1>2, <1>3, <1>4, <1>5, <1>6 DEF TypeOK

LEMMA CopyType == ASSUME TypeOK, NEW a \in Apps, NEW s \in Selections, Copy(a, s) PROVE TypeOK'
<1>1. copies' \in 0 .. MaxCopies /\ copies' = copies + 1
  BY ClipboardAssumption DEF TypeOK, Copy
<1>2. PICK types \in Offers \ {{}} : holds' = [holds EXCEPT ![a][s] = [types |-> types, data |-> copies']]
  BY DEF Copy
<1>3. holds' \in [Apps -> [Selections -> [types : SUBSET Mimes, data : 0 .. MaxCopies]]]
  <2>1. [types |-> types, data |-> copies'] \in [types : SUBSET Mimes, data : 0 .. MaxCopies]
    BY <1>1, ClipboardAssumption
  <2>. QED  BY <1>2, <2>1 DEF TypeOK
<1>4. <<"TARGETS">> \in Seq(Targets)
  BY DEF Targets
<1>5. requests' \in [Apps -> Seq([selection : Selections, target : Targets])]
  BY <1>4, RequestFacts DEF TypeOK, Copy, Request
<1>6. owner' \in [Selections -> Apps \cup {Vnc, Nobody}] /\ activeSelection' \in Selections \cup {Nobody}
      /\ probing' \in BOOLEAN
  BY DEF TypeOK, Copy
<1>7. UNCHANGED <<joined, binaryClipboard, binclipTimer, shown, clipboardClient, mimesFromClient, textFromClient,
                answering, spoilt>>
  BY DEF Copy, connections
<1>. QED  BY <1>1, <1>3, <1>5, <1>6, <1>7 DEF TypeOK, Connected

LEMMA QuitType == ASSUME TypeOK, NEW a \in Apps, Quit(a) PROVE TypeOK'
<1>1. requests' \in [Apps -> Seq(Request)]
  <2>1. requests \in [Apps -> Seq(Request)]
    BY DEF TypeOK, Request
  <2>. QED  BY <2>1 DEF Quit
<1>2. owner' \in [Selections -> Apps \cup {Vnc, Nobody}] /\ activeSelection' \in Selections \cup {Nobody}
  BY DEF TypeOK, Quit
<1>3. answering' \in [Apps -> Replies \cup {Nobody}]
  BY DEF TypeOK, Quit
<1>. QED  BY <1>1, <1>2, <1>3 DEF TypeOK, Quit, connections, Connected, Request

(* What an application is asked for next.                                  *)
LEMMA HeadFacts ==
  ASSUME TypeOK, NEW a \in Apps, requests[a] # <<>>
  PROVE  /\ requests[a] \in Seq(Request) /\ Head(requests[a]) \in Request
         /\ Head(requests[a]).selection \in Selections /\ Head(requests[a]).target \in Targets
         /\ [requests EXCEPT ![a] = Tail(@)] \in [Apps -> Seq(Request)]
         /\ holds[a][Head(requests[a]).selection].types \in SUBSET Mimes
         /\ holds[a][Head(requests[a]).selection].data \in 0 .. MaxCopies
<1>1. requests[a] \in Seq(Request) /\ requests \in [Apps -> Seq(Request)]
  BY DEF TypeOK, Request
<1>2. Head(requests[a]) \in Request /\ Tail(requests[a]) \in Seq(Request)
  BY <1>1
<1>3. Head(requests[a]).selection \in Selections /\ Head(requests[a]).target \in Targets
  BY <1>2 DEF Request
<1>4. holds[a][Head(requests[a]).selection] \in [types : SUBSET Mimes, data : 0 .. MaxCopies]
  BY <1>3 DEF TypeOK
<1>. QED  BY <1>1, <1>2, <1>3, <1>4

LEMMA ReplyFacts ==
  ASSUME NEW a \in Apps, NEW contents \in [types : SUBSET Mimes, data : 0 .. MaxCopies], NEW incr \in BOOLEAN
  PROVE  Reply(a, contents, incr) \in Replies /\ Reply(a, contents, incr).from = a
         /\ Reply(a, contents, incr).data = contents.data
  BY DEF Reply, Replies

(* What an answer brings.                                                  *)
LEMMA FoundFacts ==
  ASSUME TypeOK, NEW a \in Apps, answering[a] # Nobody
  PROVE  /\ answering[a].from \in Apps /\ answering[a].types \in SUBSET Mimes
         /\ answering[a].data \in 0 .. MaxCopies /\ answering[a].incr \in BOOLEAN
<1>1. answering[a] \in Replies
  BY DEF TypeOK
<1>. QED  BY <1>1 DEF Replies

LEMMA SetPropertyFacts ==
  ASSUME TypeOK, NEW a \in Apps, SetProperty(a)
  PROVE  \E x \in Replies :
           /\ x.from = a /\ x.data = holds[a][Head(requests[a]).selection].data
           /\ answering' \in [Apps -> Replies \cup {Nobody}]
           /\ \A b \in Apps : answering'[b] = x \/ (b # a /\ answering'[b] = answering[b])
<1>. DEFINE r == Head(requests[a])
            contents == holds[a][r.selection]
<1>1. contents \in [types : SUBSET Mimes, data : 0 .. MaxCopies]
  <2>1. r.selection \in Selections
    BY HeadFacts DEF SetProperty
  <2>. QED  BY <2>1 DEF TypeOK
<1>2. PICK incr \in BOOLEAN :
        answering' = [b \in Apps |->
          IF b = a \/ (answering[b] # Nobody /\ Head(requests[b]).target = r.target)
          THEN Reply(a, contents, incr) ELSE answering[b]]
  BY DEF SetProperty
<1>3. /\ Reply(a, contents, incr) \in Replies /\ Reply(a, contents, incr).from = a
      /\ Reply(a, contents, incr).data = contents.data
  BY <1>1, ReplyFacts
<1>4. answering' \in [Apps -> Replies \cup {Nobody}]
  BY <1>2, <1>3 DEF TypeOK
<1>5. \A b \in Apps : answering'[b] = Reply(a, contents, incr) \/ (b # a /\ answering'[b] = answering[b])
  BY <1>2
<1>. QED  BY <1>3, <1>4, <1>5

LEMMA SetPropertyType == ASSUME TypeOK, NEW a \in Apps, SetProperty(a) PROVE TypeOK'
<1>1. answering' \in [Apps -> Replies \cup {Nobody}]
  BY SetPropertyFacts
<1>. QED  BY <1>1 DEF TypeOK, SetProperty, connections, selections, Connected

LEMMA NotifyType == ASSUME TypeOK, NEW a \in Apps, Notify(a) PROVE TypeOK'
<1>. DEFINE r == Head(requests[a])
            rest == [requests EXCEPT ![a] = Tail(@)]
            found == answering[a]
<1>1. /\ r.selection \in Selections /\ r.target \in Targets /\ rest \in [Apps -> Seq(Request)]
      /\ holds[a][r.selection].data \in 0 .. MaxCopies
      /\ found.from \in Apps /\ found.types \in SUBSET Mimes /\ found.data \in 0 .. MaxCopies
  BY HeadFacts, FoundFacts DEF Notify
<1>2. UNCHANGED <<joined, shown, owner, mimesFromClient, textFromClient, holds, copies>>
  BY DEF Notify
<1>6. answering' \in [Apps -> Replies \cup {Nobody}]
  BY DEF TypeOK, Notify
<1>7. spoilt' \subseteq 0 .. MaxCopies
  <2>1. spoilt' = spoilt \/ spoilt' = spoilt \cup {holds[a][r.selection].data}
    BY DEF Notify
  <2>. QED  BY <1>1, <2>1 DEF TypeOK
<1>3. CASE ProbeAnswered(a, r.selection)
  <2>1. <<"TARGETS">> \in Seq(Targets)
    BY DEF Targets
  <2>2. requests' \in [Apps -> Seq(Request)]
    <3>. HIDE DEF r
    <3>1. requests' = SelectionRequest(rest, owner[r.selection], r.selection, <<"TARGETS">>)
      BY <1>3 DEF ProbeAnswered
    <3>. HIDE DEF rest
    <3>. QED  BY <1>1, <2>1, <3>1, RequestFacts
  <2>3. binaryClipboard' \in [Clients -> Seq(Entries)]
    BY <1>3 DEF ProbeAnswered
  <2>. HIDE DEF r, rest, found
  <2>. QED  BY <1>1, <1>2, <1>3, <1>6, <1>7, <2>2, <2>3 DEF TypeOK, ProbeAnswered, Connected, Request
<1>4. CASE TypesAnswered(a, r.selection, found.types)
  <2>1. Wanted(found.types) \in Seq(Targets)
    BY <1>1, WantedFacts DEF Targets
  <2>2. requests' \in [Apps -> Seq(Request)]
    <3>1. requests' = SelectionRequest(rest, owner[r.selection], r.selection, Wanted(found.types))
      BY <1>4 DEF TypesAnswered
    <3>. HIDE DEF r, rest, found
    <3>. QED  BY <1>1, <2>1, <3>1, RequestFacts
  <2>. HIDE DEF r, rest, found
  <2>. QED  BY <1>1, <1>2, <1>4, <1>6, <1>7, <2>2 DEF TypeOK, TypesAnswered, Connected, Request
<1>5. CASE r.target # "TARGETS" /\ DataAnswered(a, Entry(r.target, found.from, found.data))
  <2>1. r.target \in Mimes
    BY <1>1, <1>5 DEF Targets
  <2>2. Entry(r.target, found.from, found.data) \in Entries
    BY <1>1, <2>1, EntryFacts
  <2>3. binaryClipboard' \in [Clients -> Seq(Entries)]
    BY <1>5, <2>2, CollectFacts DEF DataAnswered, TypeOK
  <2>. HIDE DEF r, found
  <2>. QED  BY <1>1, <1>2, <1>5, <1>6, <1>7, <2>3 DEF TypeOK, DataAnswered, Connected, Request
<1>8. CASE Ignored(a)
  <2>1. requests' \in [Apps -> Seq(Request)]
    BY <1>1, <1>8 DEF Ignored
  <2>. HIDE DEF r, rest, found
  <2>. QED  BY <1>2, <1>6, <1>7, <1>8, <2>1 DEF TypeOK, Ignored, Connected, Request
<1>. QED  BY <1>3, <1>4, <1>5, <1>8 DEF Notify

LEMMA RefuseType == ASSUME TypeOK, NEW a \in Apps, Refuse(a) PROVE TypeOK'
<1>1. requests' \in [Apps -> Seq(Request)]
  BY HeadFacts DEF Refuse, Ignored
<1>. QED  BY <1>1 DEF TypeOK, Refuse, Ignored, Connected, Request

LEMMA ConnectType == ASSUME TypeOK, NEW c \in Clients, Connect(c) PROVE TypeOK'
<1>1. joined' \in [Clients -> 0 .. MaxCopies + 1]
  BY ClipboardAssumption DEF TypeOK, Connect
<1>2. Connected \subseteq Connected'
  BY <1>1, ClipboardAssumption DEF TypeOK, Connect, Connected
<1>. QED  BY <1>1, <1>2 DEF TypeOK, Connect, selections, apps

LEMMA DropType ==
  ASSUME TypeOK, DropSelections
  PROVE  owner' \in [Selections -> Apps \cup {Vnc, Nobody}] /\ activeSelection' \in Selections \cup {Nobody}
  BY DEF TypeOK, DropSelections

LEMMA DisconnectType == ASSUME TypeOK, NEW c \in Clients, Disconnect(c) PROVE TypeOK'
<1>1. joined' \in [Clients -> 0 .. MaxCopies + 1] /\ joined' = [joined EXCEPT ![c] = MaxCopies + 1]
  BY ClipboardAssumption DEF TypeOK, Disconnect
<1>2. Connected' = Connected \ {c}
  BY <1>1, ClipboardAssumption DEF TypeOK, Connected
<1>3. binaryClipboard' \in [Clients -> Seq(Entries)]
  BY DEF TypeOK, Disconnect
<1>4. shown' \in [Clients -> SUBSET Entries]
  BY DEF TypeOK, Disconnect
<1>5. binclipTimer' \subseteq Connected' /\ clipboardClient' \in Connected' \cup {Nobody}
  BY <1>2 DEF TypeOK, Disconnect
<1>6. owner' \in [Selections -> Apps \cup {Vnc, Nobody}] /\ activeSelection' \in Selections \cup {Nobody}
  BY DropType DEF TypeOK, Disconnect
<1>. QED  BY <1>1, <1>3, <1>4, <1>5, <1>6 DEF TypeOK, Disconnect, apps

(* The clipboard a client sends.                                           *)
Sent(c, types, n) == [i \in DOMAIN Wanted(types) |-> Entry(Wanted(types)[i], c, n)]
LEMMA SentFacts ==
  ASSUME NEW c \in Clients, NEW types \in SUBSET Mimes, NEW n \in 0 .. MaxCopies
  PROVE  /\ Sent(c, types, n) \in Seq(Entries)
         /\ DOMAIN Sent(c, types, n) = DOMAIN Wanted(types)
         /\ \A i \in DOMAIN Wanted(types) :
              Sent(c, types, n)[i].mime = Wanted(types)[i] /\ Sent(c, types, n)[i].from = c
<1>1. Wanted(types) \in Seq(Mimes)
  BY WantedFacts
<1>2. \A i \in DOMAIN Wanted(types) :
        /\ Entry(Wanted(types)[i], c, n) \in Entries
        /\ Entry(Wanted(types)[i], c, n).mime = Wanted(types)[i] /\ Entry(Wanted(types)[i], c, n).from = c
  <2>. TAKE i \in DOMAIN Wanted(types)
  <2>1. Wanted(types)[i] \in Mimes
    BY <1>1
  <2>. QED  BY <2>1, EntryFacts
<1>. QED  BY <1>1, <1>2 DEF Sent

LEMMA ClientCopiesFacts ==
  ASSUME TypeOK, NEW c \in Clients, ClientCopies(c)
  PROVE  /\ copies' = copies + 1 /\ copies' \in 0 .. MaxCopies
         /\ joined' = [joined EXCEPT ![c] = copies'] /\ Connected' = Connected /\ c \in Connected
         /\ joined' \in [Clients -> 0 .. MaxCopies + 1]
         /\ UNCHANGED <<binclipTimer, shown, requests, answering, holds, spoilt, probing>>
         /\ \E types \in SUBSET Mimes :
              /\ binaryClipboard' = [binaryClipboard EXCEPT ![c] = Sent(c, types, copies')]
              /\ IF c \in MayCut THEN AnnounceBinary(c, types) ELSE UNCHANGED <<clipboardClient, selections>>
<1>1. /\ copies' = copies + 1 /\ copies' \in 0 .. MaxCopies
      /\ joined' = [joined EXCEPT ![c] = copies'] /\ c \in Connected
  BY ClipboardAssumption DEF TypeOK, ClientCopies
<1>2. joined' \in [Clients -> 0 .. MaxCopies + 1]
  BY <1>1, ClipboardAssumption DEF TypeOK
<1>3. Connected' = Connected
  BY <1>1, <1>2, ClipboardAssumption DEF TypeOK, Connected
<1>4. \E types \in SUBSET Mimes :
        /\ binaryClipboard' = [binaryClipboard EXCEPT ![c] = Sent(c, types, copies')]
        /\ IF c \in MayCut THEN AnnounceBinary(c, types) ELSE UNCHANGED <<clipboardClient, selections>>
  BY ClipboardAssumption DEF ClientCopies, Sent
<1>5. UNCHANGED <<binclipTimer, shown, requests, answering, holds, spoilt, probing>>
  BY <1>4 DEF ClientCopies, apps, AnnounceBinary, selections
<1>. QED  BY <1>1, <1>2, <1>3, <1>4, <1>5

LEMMA ClientCopiesType == ASSUME TypeOK, NEW c \in Clients, ClientCopies(c) PROVE TypeOK'
<1>1. PICK types \in SUBSET Mimes :
        /\ binaryClipboard' = [binaryClipboard EXCEPT ![c] = Sent(c, types, copies')]
        /\ IF c \in MayCut THEN AnnounceBinary(c, types) ELSE UNCHANGED <<clipboardClient, selections>>
  BY ClientCopiesFacts
<1>2. binaryClipboard' \in [Clients -> Seq(Entries)]
  BY <1>1, ClientCopiesFacts, SentFacts DEF TypeOK
<1>3. /\ owner' \in [Selections -> Apps \cup {Vnc, Nobody}] /\ activeSelection' \in Selections \cup {Nobody}
      /\ mimesFromClient' \subseteq Mimes \ {"text"} /\ textFromClient' \in BOOLEAN
      /\ clipboardClient' \in Connected \cup {Nobody}
  <2>1. CASE c \in MayCut /\ types = {}
    BY <1>1, <2>1, DropType, ClientCopiesFacts DEF AnnounceBinary
  <2>2. CASE c \in MayCut /\ types # {}
    <3>1. owner' \in [Selections -> Apps \cup {Vnc, Nobody}]
      BY <1>1, <2>2 DEF AnnounceBinary, TypeOK
    <3>2. activeSelection' \in Selections \cup {Nobody}
      BY <1>1, <2>2 DEF AnnounceBinary, TypeOK
    <3>3. mimesFromClient' = types \ {"text"} /\ textFromClient' = (textFromClient \/ "text" \in types)
          /\ clipboardClient' = c
      BY <1>1, <2>2 DEF AnnounceBinary
    <3>4. textFromClient' \in BOOLEAN
      BY <3>3
    <3>. QED  BY <3>1, <3>2, <3>3, <3>4, ClientCopiesFacts
  <2>3. CASE c \notin MayCut
    BY <1>1, <2>3 DEF selections, TypeOK
  <2>. QED  BY <2>1, <2>2, <2>3
<1>4. /\ copies' \in 0 .. MaxCopies /\ Connected' = Connected
      /\ joined' \in [Clients -> 0 .. MaxCopies + 1]
      /\ UNCHANGED <<binclipTimer, shown, requests, answering, holds, spoilt, probing>>
  BY ClientCopiesFacts
<1>. QED  BY <1>2, <1>3, <1>4 DEF TypeOK

LEMMA WriteType == ASSUME TypeOK, NEW c \in Clients, WriteBinaryClipboard(c) PROVE TypeOK'
<1>1. Range(binaryClipboard[c]) \subseteq Entries
  BY DEF TypeOK, Range
<1>2. shown' \in [Clients -> SUBSET Entries]
  BY <1>1 DEF TypeOK, WriteBinaryClipboard
<1>. QED  BY <1>2 DEF TypeOK, WriteBinaryClipboard, selections, apps, Connected

LEMMA ClearType == ASSUME TypeOK, ClearClipboard PROVE TypeOK'
<1>1. Entry("text", Vnc, 0) \in Entries
  BY EntryFacts, ClipboardAssumption DEF Mimes
<1>2. binaryClipboard' \in [Clients -> Seq(Entries)]
  <2>. DEFINE none == [c \in Clients |-> <<>>]
  <2>1. none \in [Clients -> Seq(Entries)]
    OBVIOUS
  <2>2. binaryClipboard' = Collect(none, Entry("text", Vnc, 0))
    BY DEF ClearClipboard
  <2>. HIDE DEF none
  <2>. QED  BY <1>1, <2>1, <2>2, CollectFacts
<1>3. owner' \in [Selections -> Apps \cup {Vnc, Nobody}] /\ mimesFromClient' = {} /\ textFromClient' = FALSE
  BY DEF ClearClipboard
<1>. QED  BY <1>2, <1>3 DEF TypeOK, ClearClipboard, apps, Connected

LEMMA TypeStep == ASSUME TypeOK, [Next]_vars PROVE TypeOK'
<1>1. CASE UNCHANGED vars
  BY <1>1 DEF vars, connections, selections, apps, TypeOK, Connected
<1>2. ASSUME NEW a \in Apps, (\E s \in Selections : Copy(a, s)) \/ Quit(a) \/ SetProperty(a) \/ Notify(a) \/ Refuse(a)
      PROVE  TypeOK'
  BY <1>2, CopyType, QuitType, SetPropertyType, NotifyType, RefuseType
<1>3. ASSUME NEW c \in Clients, Connect(c) \/ Disconnect(c) \/ ClientCopies(c) \/ WriteBinaryClipboard(c)
      PROVE  TypeOK'
  BY <1>3, ConnectType, DisconnectType, ClientCopiesType, WriteType
<1>. QED  BY <1>1, <1>2, <1>3, ClearType DEF Next

(* Every variable keeps its type, and what is kept for connections, timers *)
(* and the client behind the clipboard, is kept for live ones only.        *)
THEOREM TypeCorrect == Spec => []TypeOK
  BY InitType, TypeStep, PTL DEF Spec

-----------------------------------------------------------------------------
(* The inductive invariant.                                                *)

Ask(t) == [selection |-> "CLIPBOARD", target |-> t]
SelectionOf(r) == r.selection

(* Without SendPrimary, applications are asked for CLIPBOARD only.         *)
OnlyClipboard == \A a \in Apps : \A r \in Range(requests[a]) : SelectionOf(r) = "CLIPBOARD"

(* The first entry of the type t is one that the connection has sent.      *)
FirstFrom(c, t, sent) ==
  \E i \in DOMAIN sent : /\ sent[i].mime = t /\ sent[i].from = c
                         /\ \A j \in DOMAIN sent : sent[j].mime = t => i <= j
Behind ==
  owner["CLIPBOARD"] = Vnc /\ activeSelection # "CLIPBOARD" =>
    /\ clipboardClient \in Connected \cap MayCut
    /\ \A t \in mimesFromClient : FirstFrom(clipboardClient, t, binaryClipboard[clipboardClient])

(* An answer of its own brings what an application holds now.              *)
OwnAnswer ==
  \A a \in Apps : answering[a] # Nobody /\ answering[a].from = a =>
                  answering[a].data = holds[a]["CLIPBOARD"].data

(* What is owed to a connection is yet to be asked for, or to be answered  *)
(* with nothing in between that drops it, or collected and sent or about   *)
(* to be.                                                                  *)
Delivered(a, c, n) ==
  \/ Ask("TARGETS") \in Range(requests[a])
  \/ ~probing /\ Ask("text") \in Range(requests[a])
  \/ /\ ~probing /\ Entry("text", a, n) \in Range(binaryClipboard[c])
     /\ c \in binclipTimer \/ Entry("text", a, n) \in shown[c]
OnTheWay ==
  \A a \in Apps, c \in Clients, n \in (1 .. MaxCopies) \ spoilt : Owes(a, c, n) => Delivered(a, c, n)

(* Nobody holds what has not been copied yet.                              *)
PastOnly == \A a \in Apps : holds[a]["CLIPBOARD"].data <= copies

IInv == TypeOK /\ OnlyClipboard /\ Behind /\ OwnAnswer /\ OnTheWay /\ PastOnly

-----------------------------------------------------------------------------
(* Queues as sets of requests.                                             *)

LEMMA TailRange ==
  ASSUME NEW S, NEW q \in Seq(S), q # <<>>
  PROVE  Range(q) = {Head(q)} \cup Range(Tail(q))
<1>1. Tail(q) \in Seq(S) /\ Len(Tail(q)) = Len(q) - 1 /\ Len(q) \in Nat \ {0}
      /\ \A i \in 1 .. Len(Tail(q)) : Tail(q)[i] = q[i + 1]
  BY HeadTailProperties
<1>2. Head(q) = q[1] /\ DOMAIN q = 1 .. Len(q) /\ DOMAIN Tail(q) = 1 .. Len(q) - 1
  BY <1>1
<1>3. \A x : x \in Range(q) => x \in {Head(q)} \cup Range(Tail(q))
  <2>. SUFFICES ASSUME NEW x \in Range(q), x # Head(q) PROVE x \in Range(Tail(q))
    OBVIOUS
  <2>1. PICK i \in 1 .. Len(q) : x = q[i]
    BY <1>2 DEF Range
  <2>2. i - 1 \in 1 .. Len(q) - 1 /\ (i - 1) + 1 = i
    BY <1>1, <1>2, <2>1
  <2>3. Tail(q)[i - 1] = x
    BY <1>1, <2>1, <2>2
  <2>. QED  BY <1>2, <2>2, <2>3 DEF Range
<1>4. \A x : x \in {Head(q)} \cup Range(Tail(q)) => x \in Range(q)
  BY <1>1, <1>2 DEF Range
<1>. QED  BY <1>3, <1>4

LEMMA AppendRange ==
  ASSUME NEW S, NEW q \in Seq(S), NEW e \in S
  PROVE  Range(Append(q, e)) = Range(q) \cup {e}
<1>1. Append(q, e) \in Seq(S) /\ Len(Append(q, e)) = Len(q) + 1 /\ Len(q) \in Nat
      /\ (\A i \in 1 .. Len(q) : Append(q, e)[i] = q[i]) /\ Append(q, e)[Len(q) + 1] = e
  BY AppendProperties
<1>2. DOMAIN q = 1 .. Len(q) /\ DOMAIN Append(q, e) = 1 .. Len(q) + 1
  BY <1>1
<1>3. \A x : x \in Range(Append(q, e)) => x \in Range(q) \cup {e}
  <2>. TAKE x
  <2>. HAVE x \in Range(Append(q, e))
  <2>1. PICK i \in 1 .. Len(q) + 1 : x = Append(q, e)[i]
    BY <1>2 DEF Range
  <2>2. i \in 1 .. Len(q) \/ i = Len(q) + 1
    BY <1>1, <2>1
  <2>. QED  BY <1>1, <1>2, <2>1, <2>2 DEF Range
<1>4. \A x : x \in Range(q) \cup {e} => x \in Range(Append(q, e))
  <2>. TAKE x
  <2>. HAVE x \in Range(q) \cup {e}
  <2>1. Len(q) + 1 \in 1 .. Len(q) + 1 /\ 1 .. Len(q) \subseteq 1 .. Len(q) + 1
    BY <1>1
  <2>. QED  BY <1>1, <1>2, <2>1 DEF Range
<1>. QED  BY <1>3, <1>4

(* Asking adds requests to the queue of the one asked.                     *)
LEMMA RequestRange ==
  ASSUME NEW q \in [Apps -> Seq(Request)], NEW w, NEW s \in Selections, NEW ts \in Seq(Targets), NEW a \in Apps
  PROVE  /\ Range(q[a]) \subseteq Range(SelectionRequest(q, w, s, ts)[a])
         /\ \A r \in Range(SelectionRequest(q, w, s, ts)[a]) : r \in Range(q[a]) \/ SelectionOf(r) = s
         /\ a = w => \A i \in DOMAIN ts :
              [selection |-> s, target |-> ts[i]] \in Range(SelectionRequest(q, w, s, ts)[a])
<1>. DEFINE p == SelectionRequest(q, w, s, ts)
<1>0. /\ p \in [Apps -> Seq(Request)]
      /\ \A b \in Apps \ {w} : p[b] = q[b]
      /\ w \in Apps => /\ Len(p[w]) = Len(q[w]) + Len(ts)
                       /\ \A i \in DOMAIN q[w] : p[w][i] = q[w][i]
                       /\ \A i \in DOMAIN ts : p[w][Len(q[w]) + i] = [selection |-> s, target |-> ts[i]]
  <2>1. p \in [Apps -> Seq(Request)]
    BY RequestFacts
  <2>2. \A b \in Apps \ {w} : p[b] = q[b]
    BY DEF SelectionRequest
  <2>3. ASSUME w \in Apps PROVE Len(p[w]) = Len(q[w]) + Len(ts)
    BY <2>3, RequestFacts
  <2>4. ASSUME w \in Apps, NEW i \in DOMAIN q[w] PROVE p[w][i] = q[w][i]
    BY <2>4, RequestFacts
  <2>5. ASSUME w \in Apps, NEW i \in DOMAIN ts
        PROVE  p[w][Len(q[w]) + i] = [selection |-> s, target |-> ts[i]]
    BY <2>5, RequestFacts
  <2>. HIDE DEF p
  <2>. QED  BY <2>1, <2>2, <2>3, <2>4, <2>5
<1>. HIDE DEF p
<1>1. CASE a # w
  <2>1. p[a] = q[a]
    BY <1>0, <1>1
  <2>. QED  BY <1>1, <2>1 DEF p
<1>2. CASE a = w
  <2>1. /\ p[a] \in Seq(Request) /\ Len(p[a]) = Len(q[a]) + Len(ts)
        /\ \A i \in DOMAIN q[a] : p[a][i] = q[a][i]
        /\ \A i \in DOMAIN ts : p[a][Len(q[a]) + i] = [selection |-> s, target |-> ts[i]]
    BY <1>0, <1>2
  <2>2. /\ Len(q[a]) \in Nat /\ Len(ts) \in Nat /\ DOMAIN q[a] = 1 .. Len(q[a]) /\ DOMAIN ts = 1 .. Len(ts)
        /\ DOMAIN p[a] = 1 .. Len(q[a]) + Len(ts)
    BY <2>1
  <2>3. Range(q[a]) \subseteq Range(p[a])
    <3>1. DOMAIN q[a] \subseteq DOMAIN p[a]
      BY <2>2
    <3>. QED  BY <2>1, <3>1 DEF Range
  <2>4. \A i \in DOMAIN ts : [selection |-> s, target |-> ts[i]] \in Range(p[a])
    <3>. TAKE i \in DOMAIN ts
    <3>1. Len(q[a]) + i \in DOMAIN p[a]
      BY <2>2
    <3>. QED  BY <2>1, <3>1 DEF Range
  <2>5. \A r \in Range(p[a]) : r \in Range(q[a]) \/ SelectionOf(r) = s
    <3>. TAKE r \in Range(p[a])
    <3>1. PICK k \in DOMAIN p[a] : r = p[a][k]
      BY DEF Range
    <3>2. CASE k \in DOMAIN q[a]
      BY <2>1, <3>1, <3>2 DEF Range
    <3>3. CASE k \notin DOMAIN q[a]
      <4>1. k - Len(q[a]) \in DOMAIN ts /\ Len(q[a]) + (k - Len(q[a])) = k
        BY <2>2, <3>1, <3>3
      <4>2. r = [selection |-> s, target |-> ts[k - Len(q[a])]]
        BY <2>1, <3>1, <4>1
      <4>. QED  BY <4>2 DEF SelectionOf
    <3>. QED  BY <3>2, <3>3
  <2>. QED  BY <2>3, <2>4, <2>5 DEF p
<1>. QED  BY <1>1, <1>2

(* The same for CLIPBOARD, one fact at a time.                             *)
LEMMA AskKeeps ==
  ASSUME NEW q \in [Apps -> Seq(Request)], NEW w, NEW ts \in Seq(Targets), NEW b \in Apps
  PROVE  Range(q[b]) \subseteq Range(SelectionRequest(q, w, "CLIPBOARD", ts)[b])
  BY SelectionFacts, RequestRange
LEMMA AskOnly ==
  ASSUME NEW q \in [Apps -> Seq(Request)], NEW w, NEW ts \in Seq(Targets), NEW b \in Apps,
         NEW r \in Range(SelectionRequest(q, w, "CLIPBOARD", ts)[b])
  PROVE  r \in Range(q[b]) \/ SelectionOf(r) = "CLIPBOARD"
  BY SelectionFacts, RequestRange
LEMMA AskAdds ==
  ASSUME NEW q \in [Apps -> Seq(Request)], NEW ts \in Seq(Targets), NEW b \in Apps, NEW i \in DOMAIN ts
  PROVE  Ask(ts[i]) \in Range(SelectionRequest(q, b, "CLIPBOARD", ts)[b])
  BY SelectionFacts, RequestRange DEF Ask

(* The oldest request of a, and the queues without it.                     *)
LEMMA RestFacts ==
  ASSUME TypeOK, OnlyClipboard, NEW a \in Apps, requests[a] # <<>>,
         NEW rest, rest = [requests EXCEPT ![a] = Tail(@)]
  PROVE  /\ rest \in [Apps -> Seq(Request)]
         /\ Head(requests[a]).selection = "CLIPBOARD"
         /\ Head(requests[a]) = Ask(Head(requests[a]).target)
         /\ \A b \in Apps : Range(rest[b]) \subseteq Range(requests[b])
         /\ \A b \in Apps : \A r \in Range(requests[b]) :
              r \in Range(rest[b]) \/ (b = a /\ r = Head(requests[a]))
<1>1. requests[a] \in Seq(Request) /\ Head(requests[a]) \in Request /\ rest \in [Apps -> Seq(Request)]
  BY HeadFacts
<1>2. Range(requests[a]) = {Head(requests[a])} \cup Range(Tail(requests[a]))
  BY <1>1, TailRange
<1>3. Head(requests[a]).selection = "CLIPBOARD"
  BY <1>2 DEF OnlyClipboard, SelectionOf
<1>4. Head(requests[a]) = Ask(Head(requests[a]).target)
  BY <1>1, <1>3 DEF Ask, Request
<1>5. rest[a] = Tail(requests[a]) /\ \A b \in Apps \ {a} : rest[b] = requests[b]
  BY DEF TypeOK
<1>6. ASSUME NEW b \in Apps, b # a PROVE rest[b] = requests[b]
  BY <1>5, <1>6
<1>. QED  BY <1>1, <1>2, <1>3, <1>4, <1>5, <1>6

(* What Notify does, case by case.                                         *)
LEMMA NotifyFacts ==
  ASSUME TypeOK, OnlyClipboard, NEW a \in Apps, Notify(a),
         NEW rest, rest = [requests EXCEPT ![a] = Tail(@)],
         NEW t, t = Head(requests[a]).target,
         NEW x, x = answering[a]
  PROVE  /\ x.types \in SUBSET Mimes /\ t \in Targets
         /\ \/ /\ t = "TARGETS" /\ probing /\ ProbeAnswered(a, "CLIPBOARD")
               /\ requests' = SelectionRequest(rest, owner["CLIPBOARD"], "CLIPBOARD", <<"TARGETS">>)
            \/ /\ t = "TARGETS" /\ ~probing /\ TypesAnswered(a, "CLIPBOARD", x.types)
               /\ requests' = SelectionRequest(rest, owner["CLIPBOARD"], "CLIPBOARD", Wanted(x.types))
            \/ /\ t \in Mimes /\ t # "TARGETS" /\ ~x.incr /\ DataAnswered(a, Entry(t, x.from, x.data))
               /\ Entry(t, x.from, x.data) \in Entries
               /\ requests' = rest
            \/ t # "TARGETS" /\ x.incr /\ Ignored(a) /\ requests' = rest
<1>1. requests[a] # <<>> /\ answering[a] # Nobody
  BY DEF Notify
<1>2. Head(requests[a]).selection = "CLIPBOARD"
  BY <1>1, RestFacts
<1>3. x.types \in SUBSET Mimes /\ x.from \in Apps /\ x.data \in 0 .. MaxCopies /\ t \in Targets
  BY <1>1, HeadFacts, FoundFacts
<1>4. \/ t = "TARGETS" /\ probing /\ ProbeAnswered(a, "CLIPBOARD")
      \/ t = "TARGETS" /\ ~probing /\ TypesAnswered(a, "CLIPBOARD", x.types)
      \/ t # "TARGETS" /\ ~x.incr /\ DataAnswered(a, Entry(t, x.from, x.data))
      \/ t # "TARGETS" /\ x.incr /\ Ignored(a)
  BY <1>2 DEF Notify
<1>5. t # "TARGETS" => t \in Mimes /\ Entry(t, x.from, x.data) \in Entries
  BY <1>3, EntryFacts DEF Targets
<1>. QED  BY <1>3, <1>4, <1>5 DEF ProbeAnswered, TypesAnswered, DataAnswered, Ignored

(* A copy whose answer is lost is remembered.                              *)
LEMMA NotifySpoils ==
  ASSUME TypeOK, OnlyClipboard, NEW a \in Apps, Notify(a),
         holds[a]["CLIPBOARD"].data \notin spoilt'
  PROVE  ~Spoils(a, Head(requests[a]).target, answering[a])
<1>1. Head(requests[a]).selection = "CLIPBOARD"
  BY RestFacts DEF Notify
<1>. QED  BY <1>1 DEF Notify
LEMMA SpoiltStays == ASSUME [Next]_vars PROVE spoilt \subseteq spoilt'
  BY DEF Next, vars, apps, Copy, Quit, SetProperty, Notify, Refuse, Connect, Disconnect, ClientCopies,
         WriteBinaryClipboard, ClearClipboard

LEMMA AskTypes ==
  ASSUME NEW types \in SUBSET Mimes
  PROVE  /\ <<"TARGETS">> \in Seq(Targets) /\ Wanted(types) \in Seq(Targets)
         /\ "text" \in types => \E i \in DOMAIN Wanted(types) : Wanted(types)[i] = "text"
  BY WantedFacts DEF Targets

-----------------------------------------------------------------------------
(* Requests are for CLIPBOARD.                                             *)

LEMMA OnlyStep ==
  ASSUME TypeOK, OnlyClipboard, [Next]_vars, ~SendPrimary
  PROVE  OnlyClipboard'
<1>0. requests \in [Apps -> Seq(Request)] /\ "CLIPBOARD" \in Selections /\ <<"TARGETS">> \in Seq(Targets)
  <2>1. requests \in [Apps -> Seq(Request)]
    BY DEF TypeOK, Request
  <2>2. <<"TARGETS">> \in Seq(Targets)
    BY DEF Targets
  <2>. QED  BY <2>1, <2>2, SelectionFacts
<1>1. CASE UNCHANGED requests
  BY <1>1 DEF OnlyClipboard
<1>2. ASSUME NEW a \in Apps, NEW s \in Selections, Copy(a, s) PROVE OnlyClipboard'
  <2>1. CASE s = "CLIPBOARD"
    <3>1. requests' = SelectionRequest(requests, a, "CLIPBOARD", <<"TARGETS">>)
      BY <1>2, <2>1 DEF Copy
    <3>2. \A b \in Apps : \A r \in Range(requests'[b]) : r \in Range(requests[b]) \/ SelectionOf(r) = "CLIPBOARD"
      BY <1>0, <3>1, AskOnly
    <3>. QED  BY <3>2 DEF OnlyClipboard
  <2>2. CASE s # "CLIPBOARD"
    BY <1>1, <1>2, <2>2 DEF Copy
  <2>. QED  BY <2>1, <2>2
<1>3. ASSUME NEW a \in Apps, Quit(a) PROVE OnlyClipboard'
  <2>1. ASSUME NEW b \in Apps PROVE requests'[b] = <<>> \/ requests'[b] = requests[b]
    BY <1>0, <1>3 DEF Quit
  <2>. QED  BY <2>1 DEF OnlyClipboard, Range
<1>4. ASSUME NEW a \in Apps, Notify(a) PROVE OnlyClipboard'
  <2>. DEFINE rest == [requests EXCEPT ![a] = Tail(@)]
              x == answering[a]
  <2>1. x.types \in SUBSET Mimes /\ requests[a] # <<>>
    BY <1>4, NotifyFacts DEF Notify
  <2>2. rest \in [Apps -> Seq(Request)] /\ \A b \in Apps : Range(rest[b]) \subseteq Range(requests[b])
    BY <2>1, RestFacts
  <2>3. \/ requests' = rest
        \/ requests' = SelectionRequest(rest, owner["CLIPBOARD"], "CLIPBOARD", <<"TARGETS">>)
        \/ requests' = SelectionRequest(rest, owner["CLIPBOARD"], "CLIPBOARD", Wanted(x.types))
    BY <1>4, NotifyFacts, Zenon
  <2>5. Wanted(x.types) \in Seq(Targets)
    BY <2>1, AskTypes
  <2>. HIDE DEF rest, x
  <2>4. \A b \in Apps : \A r \in Range(requests'[b]) : r \in Range(rest[b]) \/ SelectionOf(r) = "CLIPBOARD"
    BY <1>0, <2>2, <2>3, <2>5, AskOnly
  <2>. QED  BY <2>2, <2>4 DEF OnlyClipboard
<1>9. ASSUME NEW a \in Apps, SetProperty(a) PROVE OnlyClipboard'
  BY <1>1, <1>9 DEF SetProperty
<1>5. ASSUME NEW a \in Apps, Refuse(a) PROVE OnlyClipboard'
  <2>1. requests[a] # <<>> /\ requests' = [requests EXCEPT ![a] = Tail(@)]
    BY <1>5 DEF Refuse, Ignored
  <2>2. \A b \in Apps : Range(requests'[b]) \subseteq Range(requests[b])
    BY <2>1, RestFacts
  <2>. QED  BY <2>2 DEF OnlyClipboard
<1>6. ASSUME NEW c \in Clients, Connect(c) \/ Disconnect(c) \/ ClientCopies(c) \/ WriteBinaryClipboard(c)
      PROVE  OnlyClipboard'
  BY <1>1, <1>6 DEF Connect, Disconnect, ClientCopies, WriteBinaryClipboard, apps
<1>7. CASE ClearClipboard
  BY <1>1, <1>7 DEF ClearClipboard, apps
<1>8. CASE UNCHANGED vars
  BY <1>1, <1>8 DEF vars, apps
<1>. QED  BY <1>2, <1>3, <1>4, <1>5, <1>6, <1>7, <1>8, <1>9 DEF Next

(* Nobody holds what has not been copied yet.                              *)
LEMMA PastStep ==
  ASSUME TypeOK, PastOnly, [Next]_vars
  PROVE  PastOnly'
<1>0. /\ copies \in Nat
      /\ \A a \in Apps : /\ holds[a] \in [Selections -> [types : SUBSET Mimes, data : 0 .. MaxCopies]]
                         /\ holds[a]["CLIPBOARD"].data \in Nat
  BY SelectionFacts, ClipboardAssumption DEF TypeOK
<1>1. CASE UNCHANGED holds /\ (copies' = copies \/ copies' = copies + 1)
  BY <1>0, <1>1 DEF PastOnly
<1>2. ASSUME NEW a \in Apps, NEW s \in Selections, Copy(a, s) PROVE PastOnly'
  <2>1. PICK types : holds' = [holds EXCEPT ![a][s] = [types |-> types, data |-> copies']]
    BY <1>2 DEF Copy
  <2>2. copies' = copies + 1
    BY <1>2 DEF Copy
  <2>3. ASSUME NEW b \in Apps
        PROVE  holds'[b]["CLIPBOARD"] = holds[b]["CLIPBOARD"]
               \/ holds'[b]["CLIPBOARD"] = [types |-> types, data |-> copies']
    BY <1>0, <2>1, SelectionFacts DEF TypeOK
  <2>4. ASSUME NEW b \in Apps PROVE holds'[b]["CLIPBOARD"].data <= copies'
    BY <1>0, <2>2, <2>3 DEF PastOnly
  <2>. QED  BY <2>4 DEF PastOnly
<1>3. ASSUME NEW a \in Apps, Quit(a) \/ SetProperty(a) \/ Notify(a) \/ Refuse(a) PROVE PastOnly'
  BY <1>1, <1>3 DEF Quit, SetProperty, Notify, Refuse
<1>4. ASSUME NEW c \in Clients, Connect(c) \/ Disconnect(c) \/ ClientCopies(c) \/ WriteBinaryClipboard(c)
      PROVE  PastOnly'
  BY <1>1, <1>4 DEF Connect, Disconnect, ClientCopies, WriteBinaryClipboard, apps
<1>5. CASE ClearClipboard
  BY <1>1, <1>5 DEF ClearClipboard, apps
<1>6. CASE UNCHANGED vars
  BY <1>1, <1>6 DEF vars, apps
<1>. QED  BY <1>2, <1>3, <1>4, <1>5, <1>6 DEF Next

(* What an application is about to notify is what it holds, unless another *)
(* has taken the property from it.                                         *)
LEMMA OwnStep ==
  ASSUME TypeOK, OnlyClipboard, OwnAnswer, [Next]_vars
  PROVE  OwnAnswer'
<1>1. CASE UNCHANGED <<answering, holds>>
  BY <1>1 DEF OwnAnswer
<1>2. ASSUME NEW a \in Apps, NEW s \in Selections, Copy(a, s) PROVE OwnAnswer'
  <2>1. PICK x : holds' = [holds EXCEPT ![a][s] = x]
    BY <1>2 DEF Copy
  <2>2. answering' = answering /\ answering[a] = Nobody
    BY <1>2 DEF Copy
  <2>3. ASSUME NEW b \in Apps, b # a PROVE holds'[b] = holds[b]
    BY <2>1, <2>3 DEF TypeOK
  <2>. QED  BY <2>2, <2>3 DEF OwnAnswer
<1>3. ASSUME NEW a \in Apps, Quit(a) \/ Notify(a) PROVE OwnAnswer'
  <2>1. holds' = holds /\ answering' = [answering EXCEPT ![a] = Nobody]
    BY <1>3 DEF Quit, Notify
  <2>2. ASSUME NEW b \in Apps PROVE answering'[b] = Nobody \/ answering'[b] = answering[b]
    BY <2>1 DEF TypeOK
  <2>. QED  BY <2>1, <2>2 DEF OwnAnswer
<1>4. ASSUME NEW a \in Apps, SetProperty(a) PROVE OwnAnswer'
  <2>1. PICK x \in Replies :
          /\ x.from = a /\ x.data = holds[a][Head(requests[a]).selection].data
          /\ \A b \in Apps : answering'[b] = x \/ (b # a /\ answering'[b] = answering[b])
    BY <1>4, SetPropertyFacts
  <2>2. Head(requests[a]).selection = "CLIPBOARD" /\ holds' = holds
    BY <1>4, RestFacts DEF SetProperty
  <2>3. ASSUME NEW b \in Apps, answering'[b] # Nobody, answering'[b].from = b
        PROVE  answering'[b].data = holds'[b]["CLIPBOARD"].data
    <3>1. CASE answering'[b] = x
      <4>1. a = b
        BY <2>1, <2>3, <3>1
      <4>. QED  BY <2>1, <2>2, <3>1, <4>1
    <3>2. CASE answering'[b] = answering[b]
      BY <2>2, <2>3, <3>2 DEF OwnAnswer
    <3>. QED  BY <2>1, <3>1, <3>2
  <2>. QED  BY <2>3 DEF OwnAnswer
<1>5. ASSUME NEW a \in Apps, Refuse(a) PROVE OwnAnswer'
  BY <1>1, <1>5 DEF Refuse
<1>6. ASSUME NEW c \in Clients, Connect(c) \/ Disconnect(c) \/ ClientCopies(c) \/ WriteBinaryClipboard(c)
      PROVE  OwnAnswer'
  BY <1>1, <1>6 DEF Connect, Disconnect, ClientCopies, WriteBinaryClipboard, apps
<1>7. CASE ClearClipboard \/ UNCHANGED vars
  BY <1>1, <1>7 DEF ClearClipboard, vars, apps
<1>. QED  BY <1>2, <1>3, <1>4, <1>5, <1>6, <1>7 DEF Next

-----------------------------------------------------------------------------
(* The client behind CLIPBOARD.                                            *)

(* What is collected later comes after.                                    *)
LEMMA FirstAppend ==
  ASSUME NEW c, NEW t, NEW q \in Seq(Entries), NEW e \in Entries, FirstFrom(c, t, q)
  PROVE  FirstFrom(c, t, Append(q, e))
<1>1. PICK i \in DOMAIN q : /\ q[i].mime = t /\ q[i].from = c
                            /\ \A j \in DOMAIN q : q[j].mime = t => i <= j
  BY DEF FirstFrom
<1>2. /\ Len(q) \in Nat /\ DOMAIN q = 1 .. Len(q) /\ DOMAIN Append(q, e) = 1 .. Len(q) + 1
      /\ \A j \in 1 .. Len(q) : Append(q, e)[j] = q[j]
  BY AppendProperties
<1>3. i \in DOMAIN Append(q, e) /\ Append(q, e)[i] = q[i]
  BY <1>2
<1>4. ASSUME NEW j \in DOMAIN Append(q, e), Append(q, e)[j].mime = t PROVE i <= j
  <2>1. CASE j \in DOMAIN q
    BY <1>1, <1>2, <1>4, <2>1
  <2>2. CASE j \notin DOMAIN q
    BY <1>2, <2>2
  <2>. QED  BY <2>1, <2>2
<1>. QED  BY <1>1, <1>3, <1>4 DEF FirstFrom

LEMMA FirstSent ==
  ASSUME NEW c \in Clients, NEW types \in SUBSET Mimes, NEW n \in 0 .. MaxCopies, NEW t \in types
  PROVE  FirstFrom(c, t, Sent(c, types, n))
<1>. DEFINE q == Sent(c, types, n)
<1>1. /\ DOMAIN q = DOMAIN Wanted(types)
      /\ \A i \in DOMAIN Wanted(types) : q[i].mime = Wanted(types)[i] /\ q[i].from = c
  BY SentFacts
<1>2. Wanted(types) \in Seq(Mimes)
      /\ \A i, j \in DOMAIN Wanted(types) : Wanted(types)[i] = Wanted(types)[j] => i = j
  BY WantedFacts
<1>3. PICK i \in DOMAIN Wanted(types) : Wanted(types)[i] = t
  BY WantedFacts
<1>. HIDE DEF q
<1>4. \A j \in DOMAIN q : q[j].mime = t => i <= j
  BY <1>1, <1>2, <1>3
<1>5. FirstFrom(c, t, q)
  BY <1>1, <1>3, <1>4 DEF FirstFrom
<1>. QED  BY <1>5 DEF q

(* What is pasted is then from the client itself.                          *)
LEMMA BehindPasted == TypeOK /\ Behind => ClientBehind
<1>. SUFFICES ASSUME TypeOK, Behind, owner["CLIPBOARD"] = Vnc, activeSelection # "CLIPBOARD",
                     NEW t \in mimesFromClient
              PROVE  ConvertSelection(t).from = clipboardClient
  BY DEF ClientBehind, Behind
<1>1. clipboardClient \in Clients /\ clipboardClient # Nobody
  BY ClipboardAssumption DEF Behind, Connected
<1>. DEFINE q == binaryClipboard[clipboardClient]
            found == {i \in DOMAIN q : q[i].mime = t}
            first == CHOOSE i \in found : \A j \in found : i <= j
<1>2. PICK i \in DOMAIN q : /\ q[i].mime = t /\ q[i].from = clipboardClient
                            /\ \A j \in DOMAIN q : q[j].mime = t => i <= j
  BY DEF Behind, FirstFrom
<1>3. i \in found /\ \A j \in found : i <= j
  BY <1>2
<1>4. first \in found /\ \A j \in found : first <= j
  BY <1>3
<1>5. DOMAIN q \subseteq Nat
  BY <1>1 DEF TypeOK
<1>6. first = i
  <2>. HIDE DEF first, q
  <2>1. first \in Nat /\ i \in Nat
    BY <1>3, <1>4, <1>5
  <2>. HIDE DEF found
  <2>. QED  BY <1>3, <1>4, <2>1
<1>7. ConvertSelection(t) = q[first]
  BY <1>1, <1>3 DEF ConvertSelection, Pasted
<1>. QED  BY <1>2, <1>6, <1>7

LEMMA BehindStep ==
  ASSUME TypeOK, OnlyClipboard, Behind, [Next]_vars, ~SendPrimary
  PROVE  Behind'
<1>. SUFFICES ASSUME owner'["CLIPBOARD"] = Vnc, activeSelection' # "CLIPBOARD"
              PROVE  /\ clipboardClient' \in Connected' \cap MayCut
                     /\ \A t \in mimesFromClient' :
                          FirstFrom(clipboardClient', t, binaryClipboard'[clipboardClient'])
  BY DEF Behind
<1>0. /\ "CLIPBOARD" \in Selections /\ owner \in [Selections -> Apps \cup {Vnc, Nobody}]
      /\ Vnc \notin Apps /\ Vnc # Nobody /\ binaryClipboard \in [Clients -> Seq(Entries)]
  BY SelectionFacts, ClipboardAssumption DEF TypeOK
<1>1. CASE /\ owner["CLIPBOARD"] = Vnc /\ activeSelection # "CLIPBOARD"
           /\ clipboardClient' = clipboardClient /\ Connected \subseteq Connected'
           /\ mimesFromClient' = mimesFromClient
           /\ binaryClipboard'[clipboardClient] = binaryClipboard[clipboardClient]
  BY <1>1 DEF Behind
<1>. DEFINE Goal == /\ clipboardClient' \in Connected' \cap MayCut
                    /\ \A t \in mimesFromClient' :
                         FirstFrom(clipboardClient', t, binaryClipboard'[clipboardClient'])
<1>2. ASSUME NEW a \in Apps, NEW s \in Selections, Copy(a, s) PROVE Goal
  <2>1. s # "CLIPBOARD" /\ owner["CLIPBOARD"] = Vnc
    BY <1>0, <1>2 DEF Copy
  <2>2. activeSelection # "CLIPBOARD"
    BY <1>2, <2>1 DEF Copy
  <2>. QED  BY <1>1, <1>2, <2>1, <2>2 DEF Copy, connections, Connected
<1>3. ASSUME NEW a \in Apps, Quit(a) PROVE Goal
  <2>1. owner["CLIPBOARD"] = Vnc
    BY <1>0, <1>3 DEF Quit
  <2>2. activeSelection # "CLIPBOARD"
    BY <1>0, <1>3, <2>1 DEF Quit
  <2>. QED  BY <1>1, <1>3, <2>1, <2>2 DEF Quit, connections, Connected
<1>12. ASSUME NEW a \in Apps, SetProperty(a) PROVE Goal
  BY <1>1, <1>12 DEF SetProperty, connections, selections, Connected
<1>4. ASSUME NEW a \in Apps, Notify(a) PROVE Goal
  <2>1. UNCHANGED <<joined, owner, mimesFromClient>> /\ owner["CLIPBOARD"] = Vnc
    BY <1>4 DEF Notify
  <2>2. PICK e \in Entries :
          \/ ProbeAnswered(a, "CLIPBOARD")
          \/ UNCHANGED <<binaryClipboard, clipboardClient, activeSelection>>
          \/ DataAnswered(a, e)
    <3>1. \/ ProbeAnswered(a, "CLIPBOARD")
          \/ UNCHANGED <<binaryClipboard, clipboardClient, activeSelection>>
          \/ \E e \in Entries : DataAnswered(a, e)
      BY <1>4, NotifyFacts DEF TypesAnswered, Ignored
    <3>2. Entry("text", Vnc, 0) \in Entries
      BY EntryFacts, ClipboardAssumption DEF Mimes
    <3>. QED  BY <3>1, <3>2
  <2>3. CASE ProbeAnswered(a, "CLIPBOARD")
    BY <2>3 DEF ProbeAnswered
  <2>4. CASE UNCHANGED <<binaryClipboard, clipboardClient, activeSelection>>
    BY <1>1, <2>1, <2>4 DEF Connected
  <2>5. CASE DataAnswered(a, e)
    <3>1. /\ clipboardClient' = clipboardClient /\ activeSelection' = activeSelection
          /\ binaryClipboard' = Collect(binaryClipboard, e)
      BY <2>5 DEF DataAnswered
    <3>2. /\ clipboardClient \in Connected \cap MayCut /\ clipboardClient \in Clients
          /\ \A t \in mimesFromClient : FirstFrom(clipboardClient, t, binaryClipboard[clipboardClient])
      BY <2>1, <3>1 DEF Behind, Connected
    <3>3. binaryClipboard'[clipboardClient] = Append(binaryClipboard[clipboardClient], e)
          /\ binaryClipboard[clipboardClient] \in Seq(Entries)
      BY <1>0, <3>1, <3>2, CollectFacts
    <3>4. \A t \in mimesFromClient : FirstFrom(clipboardClient, t, binaryClipboard'[clipboardClient])
      BY <3>2, <3>3, FirstAppend
    <3>. QED  BY <2>1, <3>1, <3>2, <3>4 DEF Connected
  <2>. QED  BY <2>2, <2>3, <2>4, <2>5
<1>5. ASSUME NEW a \in Apps, Refuse(a) PROVE Goal
  BY <1>1, <1>5 DEF Refuse, Ignored, Connected
<1>6. ASSUME NEW c \in Clients, Connect(c) PROVE Goal
  <2>1. Connected \subseteq Connected'
    BY <1>6, ClipboardAssumption DEF Connect, Connected, TypeOK
  <2>. QED  BY <1>1, <1>6, <2>1 DEF Connect, selections
<1>7. ASSUME NEW c \in Clients, Disconnect(c) PROVE Goal
  <2>1. clipboardClient # c
    BY <1>0, <1>7 DEF Disconnect, DropSelections
  <2>2. UNCHANGED <<clipboardClient, owner, activeSelection, mimesFromClient>>
    BY <1>7, <2>1 DEF Disconnect
  <2>3. /\ clipboardClient \in Connected \cap MayCut /\ clipboardClient \in Clients
        /\ \A t \in mimesFromClient : FirstFrom(clipboardClient, t, binaryClipboard[clipboardClient])
    BY <2>2 DEF Behind, Connected
  <2>4. binaryClipboard'[clipboardClient] = binaryClipboard[clipboardClient]
    BY <1>0, <1>7, <2>1, <2>3 DEF Disconnect
  <2>5. clipboardClient \in Connected'
    BY <1>7, <2>1, <2>3 DEF Disconnect, Connected, TypeOK
  <2>. QED  BY <2>2, <2>3, <2>4, <2>5
<1>8. ASSUME NEW c \in Clients, ClientCopies(c) PROVE Goal
  <2>1. PICK types \in SUBSET Mimes :
          /\ binaryClipboard' = [binaryClipboard EXCEPT ![c] = Sent(c, types, copies')]
          /\ IF c \in MayCut THEN AnnounceBinary(c, types) ELSE UNCHANGED <<clipboardClient, selections>>
    BY <1>8, ClientCopiesFacts
  <2>2. Connected' = Connected /\ c \in Connected /\ copies' \in 0 .. MaxCopies
    BY <1>8, ClientCopiesFacts
  <2>3. CASE c \in MayCut
    <3>1. types # {}
      BY <1>0, <2>1, <2>3 DEF AnnounceBinary, DropSelections
    <3>2. clipboardClient' = c /\ mimesFromClient' = types \ {"text"}
      BY <2>1, <2>3, <3>1 DEF AnnounceBinary
    <3>3. binaryClipboard'[c] = Sent(c, types, copies')
      BY <1>0, <2>1
    <3>4. \A t \in types : FirstFrom(c, t, Sent(c, types, copies'))
      BY <2>2, FirstSent
    <3>. QED  BY <2>2, <2>3, <3>2, <3>3, <3>4
  <2>4. CASE c \notin MayCut
    <3>1. UNCHANGED <<clipboardClient, owner, activeSelection, mimesFromClient>>
      BY <2>1, <2>4 DEF selections
    <3>2. clipboardClient # c /\ clipboardClient \in Clients
      BY <2>4, <3>1 DEF Behind, Connected
    <3>3. binaryClipboard'[clipboardClient] = binaryClipboard[clipboardClient]
      BY <1>0, <2>1, <3>2
    <3>. QED  BY <1>1, <2>2, <3>1, <3>3
  <2>. QED  BY <2>3, <2>4
<1>9. ASSUME NEW c \in Clients, WriteBinaryClipboard(c) PROVE Goal
  BY <1>1, <1>9 DEF WriteBinaryClipboard, selections, Connected
<1>10. CASE ClearClipboard
  BY <1>0, <1>10 DEF ClearClipboard
<1>11. CASE UNCHANGED vars
  BY <1>1, <1>11 DEF vars, connections, selections, Connected
<1>. QED  BY <1>2, <1>3, <1>4, <1>5, <1>6, <1>7, <1>8, <1>9, <1>10, <1>11, <1>12 DEF Next

-----------------------------------------------------------------------------
(* What an application copied is on its way.                               *)

LEMMA AskTargets ==
  ASSUME NEW q \in [Apps -> Seq(Request)], NEW a \in Apps
  PROVE  Ask("TARGETS") \in Range(SelectionRequest(q, a, "CLIPBOARD", <<"TARGETS">>)[a])
<1>1. PICK ts \in Seq(Targets) : ts = <<"TARGETS">>
  <2>1. <<"TARGETS">> \in Seq(Targets)
    BY DEF Targets
  <2>. QED  BY <2>1
<1>2. 1 \in DOMAIN ts /\ ts[1] = "TARGETS"
  BY <1>1
<1>3. Ask(ts[1]) \in Range(SelectionRequest(q, a, "CLIPBOARD", ts)[a])
  BY <1>2, AskAdds
<1>. QED  BY <1>1, <1>2, <1>3

LEMMA AskText ==
  ASSUME NEW q \in [Apps -> Seq(Request)], NEW a \in Apps, NEW types \in SUBSET Mimes, "text" \in types
  PROVE  Ask("text") \in Range(SelectionRequest(q, a, "CLIPBOARD", Wanted(types))[a])
<1>1. PICK i \in DOMAIN Wanted(types) : Wanted(types)[i] = "text"
  BY AskTypes
<1>2. Ask(Wanted(types)[i]) \in Range(SelectionRequest(q, a, "CLIPBOARD", Wanted(types))[a])
  BY AskTypes, AskAdds
<1>. QED  BY <1>1, <1>2

(* What keeps a delivery on its way.                                       *)
LEMMA DeliveryKept ==
  ASSUME NEW a, NEW c, NEW n, Delivered(a, c, n), probing' = probing,
         \A t \in {"TARGETS", "text"} :
           Ask(t) \in Range(requests[a]) => Ask(t) \in Range(requests'[a]),
         Range(binaryClipboard[c]) \subseteq Range(binaryClipboard'[c]),
         c \in binclipTimer => c \in binclipTimer' \/ Entry("text", a, n) \in shown'[c],
         shown[c] \subseteq shown'[c]
  PROVE  Delivered(a, c, n)'
  BY DEF Delivered

LEMMA OwedFacts ==
  ASSUME TypeOK, NEW a \in Apps, NEW c \in Clients, NEW n \in 1 .. MaxCopies, Owes(a, c, n)
  PROVE  c \in MayCut \cap Connected /\ c \in MayCut /\ holds[a]["CLIPBOARD"].data = n
         /\ "text" \in holds[a]["CLIPBOARD"].types /\ owner["CLIPBOARD"] = a
<1>1. joined[c] <= MaxCopies
  BY ClipboardAssumption DEF TypeOK, Owes
<1>. QED  BY <1>1 DEF Owes, Connected

LEMMA NotifyDelivers ==
  ASSUME TypeOK, OnlyClipboard, OwnAnswer, NEW b \in Apps, Notify(b),
         NEW a \in Apps, NEW c \in Clients, NEW n \in (1 .. MaxCopies) \ spoilt',
         Owes(a, c, n), Delivered(a, c, n)
  PROVE  Delivered(a, c, n)'
<1>. DEFINE rest == [requests EXCEPT ![b] = Tail(@)]
            t == Head(requests[b]).target
            x == answering[b]
<1>0. requests[b] # <<>> /\ x # Nobody /\ UNCHANGED shown
  BY DEF Notify
<1>1. /\ rest \in [Apps -> Seq(Request)]
      /\ \A r \in Range(requests[a]) : r \in Range(rest[a]) \/ (a = b /\ r = Ask(t))
  BY <1>0, RestFacts
<1>2. /\ x.types \in SUBSET Mimes /\ t \in Targets
      /\ \/ /\ t = "TARGETS" /\ probing /\ ProbeAnswered(b, "CLIPBOARD")
            /\ requests' = SelectionRequest(rest, owner["CLIPBOARD"], "CLIPBOARD", <<"TARGETS">>)
         \/ /\ t = "TARGETS" /\ ~probing /\ TypesAnswered(b, "CLIPBOARD", x.types)
            /\ requests' = SelectionRequest(rest, owner["CLIPBOARD"], "CLIPBOARD", Wanted(x.types))
         \/ /\ t \in Mimes /\ t # "TARGETS" /\ ~x.incr /\ DataAnswered(b, Entry(t, x.from, x.data))
            /\ Entry(t, x.from, x.data) \in Entries
            /\ requests' = rest
         \/ t # "TARGETS" /\ x.incr /\ Ignored(b) /\ requests' = rest
  BY NotifyFacts, Zenon
<1>3. c \in MayCut \cap Connected /\ c \in MayCut /\ owner["CLIPBOARD"] = a
      /\ holds[a]["CLIPBOARD"].data = n
  BY OwedFacts
<1>7. a = b => /\ t = "text" => ~x.incr /\ x.from = a /\ x.data = n
               /\ t = "TARGETS" /\ ~probing => "text" \in x.types
  <2>. SUFFICES ASSUME a = b
                PROVE  /\ t = "text" => ~x.incr /\ x.from = a /\ x.data = n
                       /\ t = "TARGETS" /\ ~probing => "text" \in x.types
    OBVIOUS
  <2>1. ~Spoils(b, t, x)
    BY <1>3, NotifySpoils
  <2>2. x.from = a => x.data = n
    BY <1>0, <1>3 DEF OwnAnswer
  <2>. QED  BY <2>1, <2>2 DEF Spoils
<1>. HIDE DEF rest, t, x
<1>4. CASE requests' = SelectionRequest(rest, owner["CLIPBOARD"], "CLIPBOARD", <<"TARGETS">>)
  <2>1. Ask("TARGETS") \in Range(requests'[a])
    BY <1>1, <1>3, <1>4, AskTargets
  <2>. QED  BY <2>1 DEF Delivered
<1>5. CASE /\ t = "TARGETS" /\ ~probing /\ TypesAnswered(b, "CLIPBOARD", x.types)
           /\ requests' = SelectionRequest(rest, owner["CLIPBOARD"], "CLIPBOARD", Wanted(x.types))
  <2>1. UNCHANGED <<binaryClipboard, binclipTimer, probing>>
    BY <1>5 DEF TypesAnswered
  <2>2. CASE a = b
    <3>1. Ask("text") \in Range(requests'[a])
      BY <1>1, <1>2, <1>3, <1>5, <1>7, <2>2, AskText
    <3>. QED  BY <1>5, <2>1, <3>1 DEF Delivered
  <2>3. CASE a # b
    <3>1. Range(rest[a]) \subseteq Range(requests'[a])
      BY <1>1, <1>2, <1>5, AskKeeps, AskTypes
    <3>2. Range(requests[a]) \subseteq Range(requests'[a])
      BY <1>1, <2>3, <3>1
    <3>. QED  BY <1>0, <2>1, <3>2, DeliveryKept
  <2>. QED  BY <2>2, <2>3
<1>6. CASE /\ t \in Mimes /\ t # "TARGETS" /\ ~x.incr /\ DataAnswered(b, Entry(t, x.from, x.data))
           /\ Entry(t, x.from, x.data) \in Entries
           /\ requests' = rest
  <2>. DEFINE e == Entry(t, x.from, x.data)
  <2>1. /\ binaryClipboard' = Collect(binaryClipboard, e) /\ probing' = probing
        /\ binclipTimer' = binclipTimer \cup (MayCut \cap Connected)
    BY <1>6 DEF DataAnswered
  <2>2. binaryClipboard \in [Clients -> Seq(Entries)] /\ binaryClipboard[c] \in Seq(Entries) /\ e \in Entries
    BY <1>6 DEF TypeOK
  <2>. HIDE DEF e
  <2>3. binaryClipboard'[c] = Append(binaryClipboard[c], e)
    BY <1>3, <2>1, <2>2, CollectFacts
  <2>4. Range(binaryClipboard'[c]) = Range(binaryClipboard[c]) \cup {e} /\ c \in binclipTimer'
    BY <1>3, <2>1, <2>2, <2>3, AppendRange
  <2>5. CASE a = b /\ t = "text" /\ ~probing
    <3>1. e = Entry("text", a, n)
      BY <1>7, <2>5 DEF e
    <3>. QED  BY <2>1, <2>4, <2>5, <3>1 DEF Delivered
  <2>6. CASE ~(a = b /\ t = "text")
    <3>1. ASSUME NEW u \in {"TARGETS", "text"}, Ask(u) \in Range(requests[a])
          PROVE  Ask(u) \in Range(requests'[a])
      <4>1. Ask(u) = Ask(t) => u = t
        BY DEF Ask
      <4>. QED  BY <1>1, <1>6, <2>6, <3>1, <4>1
    <3>. QED  BY <1>0, <2>1, <2>4, <3>1, DeliveryKept
  <2>7. CASE probing
    <3>1. Ask("TARGETS") \in Range(requests[a]) /\ Ask("TARGETS") # Ask(t)
      BY <1>6, <2>7 DEF Delivered, Ask
    <3>2. Ask("TARGETS") \in Range(requests'[a])
      BY <1>1, <1>6, <3>1
    <3>. QED  BY <3>2 DEF Delivered
  <2>. QED  BY <2>5, <2>6, <2>7
<1>8. CASE t # "TARGETS" /\ x.incr /\ Ignored(b) /\ requests' = rest
  <2>1. UNCHANGED <<binaryClipboard, binclipTimer, probing>>
    BY <1>8 DEF Ignored
  <2>2. ASSUME NEW u \in {"TARGETS", "text"}, Ask(u) \in Range(requests[a])
        PROVE  Ask(u) \in Range(requests'[a])
    <3>1. Ask(u) = Ask(t) => u = t
      BY DEF Ask
    <3>. QED  BY <1>1, <1>7, <1>8, <2>2, <3>1
  <2>. QED  BY <1>0, <2>1, <2>2, DeliveryKept
<1>. QED  BY <1>2, <1>4, <1>5, <1>6, <1>8

LEMMA OnTheWayStep ==
  ASSUME TypeOK, OnlyClipboard, OwnAnswer, OnTheWay, PastOnly, [Next]_vars, ~SendPrimary
  PROVE  OnTheWay'
<1>. SUFFICES ASSUME NEW a \in Apps, NEW c \in Clients, NEW n \in (1 .. MaxCopies) \ spoilt', Owes(a, c, n)'
              PROVE  Delivered(a, c, n)'
  BY DEF OnTheWay
<1>0. /\ "CLIPBOARD" \in Selections /\ owner \in [Selections -> Apps \cup {Vnc, Nobody}]
      /\ Vnc \notin Apps /\ Nobody \notin Apps /\ binaryClipboard \in [Clients -> Seq(Entries)]
      /\ shown \in [Clients -> SUBSET Entries] /\ joined \in [Clients -> 0 .. MaxCopies + 1]
      /\ requests \in [Apps -> Seq(Request)] /\ copies \in Nat /\ MaxCopies \in Nat
  <2>1. requests \in [Apps -> Seq(Request)]
    BY DEF TypeOK, Request
  <2>. QED  BY <2>1, SelectionFacts, ClipboardAssumption DEF TypeOK
<1>1. /\ owner'["CLIPBOARD"] = a /\ c \in MayCut /\ joined'[c] < n
      /\ holds'[a]["CLIPBOARD"].data = n /\ "text" \in holds'[a]["CLIPBOARD"].types
  BY DEF Owes
<1>2. ASSUME owner["CLIPBOARD"] = a, joined'[c] = joined[c], holds'[a]["CLIPBOARD"] = holds[a]["CLIPBOARD"]
      PROVE  Owes(a, c, n) /\ Delivered(a, c, n)
  BY <1>1, <1>2, SpoiltStays DEF Owes, OnTheWay
<1>3. ASSUME NEW b \in Apps, NEW s \in Selections, Copy(b, s) PROVE Delivered(a, c, n)'
  <2>1. CASE s = "CLIPBOARD"
    <3>1. b = a
      BY <1>0, <1>1, <1>3, <2>1 DEF Copy
    <3>2. requests' = SelectionRequest(requests, a, "CLIPBOARD", <<"TARGETS">>)
      BY <1>3, <2>1, <3>1 DEF Copy
    <3>3. Ask("TARGETS") \in Range(requests'[a])
      BY <1>0, <3>2, AskTargets
    <3>. QED  BY <3>3 DEF Delivered
  <2>2. CASE s # "CLIPBOARD"
    <3>1. owner["CLIPBOARD"] = a /\ UNCHANGED <<joined, binaryClipboard, binclipTimer, shown>>
      BY <1>0, <1>1, <1>3, <2>2 DEF Copy, connections
    <3>2. PICK x : holds' = [holds EXCEPT ![b][s] = x]
      BY <1>3 DEF Copy
    <3>3. holds'[a]["CLIPBOARD"] = holds[a]["CLIPBOARD"]
      BY <1>0, <2>2, <3>2 DEF TypeOK
    <3>4. UNCHANGED requests
      BY <1>3, <2>2 DEF Copy
    <3>5. probing' = (probing \/ FALSE)
      BY <1>3, <2>2 DEF Copy
    <3>6. probing' = probing
      BY <3>5 DEF TypeOK
    <3>. QED  BY <1>2, <3>1, <3>3, <3>4, <3>6, DeliveryKept
  <2>. QED  BY <2>1, <2>2
<1>4. ASSUME NEW b \in Apps, Quit(b) PROVE Delivered(a, c, n)'
  <2>1. owner["CLIPBOARD"] = a /\ a # b
    BY <1>0, <1>1, <1>4 DEF Quit
  <2>2. requests'[a] = requests[a]
    BY <1>0, <1>4, <2>1 DEF Quit
  <2>3. UNCHANGED <<joined, binaryClipboard, binclipTimer, shown, probing, holds>>
    BY <1>4 DEF Quit, connections
  <2>. QED  BY <1>2, <2>1, <2>2, <2>3, DeliveryKept
<1>13. ASSUME NEW b \in Apps, SetProperty(b) PROVE Delivered(a, c, n)'
  <2>1. UNCHANGED <<joined, binaryClipboard, binclipTimer, shown, owner, probing, holds, requests>>
    BY <1>13 DEF SetProperty, connections, selections
  <2>. QED  BY <1>1, <1>2, <2>1, DeliveryKept
<1>5. ASSUME NEW b \in Apps, Notify(b) PROVE Delivered(a, c, n)'
  <2>1. UNCHANGED <<joined, owner, holds>>
    BY <1>5 DEF Notify
  <2>. QED  BY <1>1, <1>2, <1>5, <2>1, NotifyDelivers
<1>6. ASSUME NEW b \in Apps, Refuse(b) PROVE Delivered(a, c, n)'
  <2>1. /\ UNCHANGED <<joined, binaryClipboard, binclipTimer, shown, owner, probing, holds>>
        /\ requests[b] # <<>> /\ requests' = [requests EXCEPT ![b] = Tail(@)]
    BY <1>6 DEF Refuse, Ignored
  <2>2. /\ Head(requests[b]) = Ask(Head(requests[b]).target) /\ Head(requests[b]).selection = "CLIPBOARD"
        /\ \A r \in Range(requests[a]) : r \in Range(requests'[a]) \/ (a = b /\ r = Head(requests[b]))
    BY <2>1, RestFacts
  <2>3. a = b => Head(requests[b]).target \notin {"TARGETS", "text"}
    BY <1>1, <1>6, <2>1, <2>2 DEF Refuse
  <2>4. ASSUME NEW u \in {"TARGETS", "text"}, Ask(u) \in Range(requests[a])
        PROVE  Ask(u) \in Range(requests'[a])
    <3>1. Ask(u) = Ask(Head(requests[b]).target) => u = Head(requests[b]).target
      BY DEF Ask
    <3>. QED  BY <2>2, <2>3, <2>4, <3>1
  <2>. QED  BY <1>1, <1>2, <2>1, <2>4, DeliveryKept
<1>7. ASSUME NEW d \in Clients, Connect(d) PROVE Delivered(a, c, n)'
  <2>1. /\ UNCHANGED <<binaryClipboard, binclipTimer, shown, owner, probing, holds, requests>>
        /\ joined' = [joined EXCEPT ![d] = copies]
    BY <1>7 DEF Connect, selections, apps
  <2>2. d # c
    BY <1>0, <1>1, <2>1 DEF PastOnly
  <2>. QED  BY <1>0, <1>1, <1>2, <2>1, <2>2, DeliveryKept
<1>8. ASSUME NEW d \in Clients, Disconnect(d) PROVE Delivered(a, c, n)'
  <2>1. UNCHANGED <<probing, holds, requests>> /\ joined' = [joined EXCEPT ![d] = MaxCopies + 1]
    BY <1>8 DEF Disconnect, apps
  <2>2. d # c
    BY <1>0, <1>1, <2>1
  <2>3. owner["CLIPBOARD"] = a
    BY <1>0, <1>1, <1>8 DEF Disconnect, DropSelections
  <2>4. binaryClipboard'[c] = binaryClipboard[c] /\ shown'[c] = shown[c] /\ joined'[c] = joined[c]
        /\ (c \in binclipTimer => c \in binclipTimer')
    BY <1>0, <1>8, <2>2 DEF Disconnect
  <2>. QED  BY <1>2, <2>1, <2>3, <2>4, DeliveryKept
<1>9. ASSUME NEW d \in Clients, ClientCopies(d) PROVE Delivered(a, c, n)'
  <2>1. /\ copies' = copies + 1 /\ joined' = [joined EXCEPT ![d] = copies']
        /\ UNCHANGED <<binclipTimer, shown, requests, answering, holds, spoilt, probing>>
    BY <1>9, ClientCopiesFacts
  <2>2. PICK types \in SUBSET Mimes :
          /\ binaryClipboard' = [binaryClipboard EXCEPT ![d] = Sent(d, types, copies')]
          /\ IF d \in MayCut THEN AnnounceBinary(d, types) ELSE UNCHANGED <<clipboardClient, selections>>
    BY <1>9, ClientCopiesFacts
  <2>3. d # c
    BY <1>0, <1>1, <2>1 DEF PastOnly
  <2>4. owner["CLIPBOARD"] = a
    <3>1. CASE d \in MayCut /\ types = {}
      BY <1>0, <1>1, <2>2, <3>1 DEF AnnounceBinary, DropSelections
    <3>2. CASE d \in MayCut /\ types # {}
      BY <1>0, <1>1, <2>2, <3>2 DEF AnnounceBinary
    <3>3. CASE d \notin MayCut
      BY <1>1, <2>2, <3>3 DEF selections
    <3>. QED  BY <3>1, <3>2, <3>3
  <2>5. binaryClipboard'[c] = binaryClipboard[c] /\ joined'[c] = joined[c]
    BY <1>0, <2>1, <2>2, <2>3
  <2>. QED  BY <1>2, <2>1, <2>4, <2>5, DeliveryKept
<1>10. ASSUME NEW d \in Clients, WriteBinaryClipboard(d) PROVE Delivered(a, c, n)'
  <2>1. /\ UNCHANGED <<joined, binaryClipboard, owner, probing, holds, requests>>
        /\ binclipTimer' = binclipTimer \ {d}
        /\ shown' = [shown EXCEPT ![d] = Range(binaryClipboard[d])]
    BY <1>10 DEF WriteBinaryClipboard, selections, apps
  <2>2. Delivered(a, c, n)
    BY <1>1, <1>2, <2>1
  <2>3. shown'[c] = IF c = d THEN Range(binaryClipboard[c]) ELSE shown[c]
    BY <1>0, <2>1
  <2>. QED  BY <2>1, <2>2, <2>3 DEF Delivered
<1>11. CASE ClearClipboard
  BY <1>0, <1>1, <1>11 DEF ClearClipboard
<1>12. CASE UNCHANGED vars
  <2>1. UNCHANGED <<joined, binaryClipboard, binclipTimer, shown, owner, probing, holds, requests>>
    BY <1>12 DEF vars, connections, selections, apps
  <2>. QED  BY <1>1, <1>2, <2>1, DeliveryKept
<1>. QED  BY <1>3, <1>4, <1>5, <1>6, <1>7, <1>8, <1>9, <1>10, <1>11, <1>12, <1>13 DEF Next

-----------------------------------------------------------------------------
(* Together.                                                               *)

LEMMA InitIInv == Init => IInv
<1>. SUFFICES ASSUME Init PROVE IInv
  OBVIOUS
<1>1. TypeOK
  BY InitType
<1>2. OnlyClipboard
  BY DEF Init, OnlyClipboard, Range
<1>3. \A a \in Apps : owner["CLIPBOARD"] # a
  BY SelectionFacts, ClipboardAssumption DEF Init
<1>4. OnTheWay
  BY <1>3 DEF OnTheWay, Owes
<1>5. Behind
  BY SelectionFacts, ClipboardAssumption DEF Init, Behind
<1>6. PastOnly
  BY SelectionFacts DEF Init, PastOnly
<1>7. OwnAnswer
  BY DEF Init, OwnAnswer
<1>. QED  BY <1>1, <1>2, <1>4, <1>5, <1>6, <1>7 DEF IInv

(* A server that does not send PRIMARY keeps the inductive invariant.      *)
THEOREM Invariant == ASSUME ~SendPrimary PROVE Spec => []IInv
<1>1. IInv /\ [Next]_vars => IInv'
  <2>. SUFFICES ASSUME IInv, [Next]_vars PROVE IInv'
    OBVIOUS
  <2>1. TypeOK'
    BY TypeStep DEF IInv
  <2>. QED  BY <2>1, OnlyStep, BehindStep, OwnStep, OnTheWayStep, PastStep DEF IInv
<1>. QED  BY <1>1, InitIInv, PTL DEF Spec

(* While the server holds CLIPBOARD for a client, that client is connected *)
(* and may send its clipboard, and what is pasted is what it sent itself.  *)
THEOREM PastesFromClient == ASSUME ~SendPrimary PROVE Spec => []ClientBehind
<1>1. IInv => ClientBehind
  BY BehindPasted DEF IInv
<1>. QED  BY <1>1, Invariant, PTL

(* Nothing that an application copies to CLIPBOARD is lost on its way to a *)
(* client that was there and has not sent a clipboard of its own since,    *)
(* unless its transfer is incremental or another answer took the place of  *)
(* its own: earlier owners that answer late do no other harm.              *)
THEOREM CopiesArrive == ASSUME ~SendPrimary PROVE Spec => []CopyArrived
<1>1. IInv => CopyArrived
  <2>. SUFFICES ASSUME IInv, Quiet, NEW a \in Apps, NEW c \in Clients, NEW n \in (1 .. MaxCopies) \ spoilt,
                       Owes(a, c, n)
                PROVE  Entry("text", a, n) \in shown[c]
    BY DEF CopyArrived
  <2>1. Delivered(a, c, n)
    BY DEF IInv, OnTheWay
  <2>2. Range(requests[a]) = {} /\ c \notin binclipTimer
    BY DEF Quiet, Range
  <2>. QED  BY <2>1, <2>2 DEF Delivered
<1>. QED  BY <1>1, Invariant, PTL
=============================================================================
