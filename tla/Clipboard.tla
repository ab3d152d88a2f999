----------------------------- MODULE Clipboard ------------------------------
(* The clipboard in both directions.  What an application copies is asked  *)
(* for with SelectionRequest events and collected in the binaryClipboard   *)
(* of every connection, which a timer sends; what a client copies is kept  *)
(* in its own binaryClipboard while a window of the server holds the       *)
(* selections in its name.                                                 *)
EXTENDS Sequences, SequencesExt, Naturals
CONSTANTS
  Clients,       \* RFB connections
  Apps,          \* X clients
  MayCut,        \* the connections with AccessCutText
  SetPrimary, SendPrimary,
  Vnc, Nobody,   \* the window of the server, and no owner
  Offers,        \* the sets of types that are copied at once
  MaxCopies      \* bound on what is copied, on either side

(* PRIMARY matters only to a server that sets it or sends it.              *)
Selections == {"CLIPBOARD"} \cup (IF SetPrimary \/ SendPrimary THEN {"PRIMARY"} ELSE {})
Mimes == {"text", "image"}

VARIABLES
  joined,           \* per connection: copies made before it came or last sent
                    \* a clipboard, or MaxCopies + 1
  binaryClipboard,  \* per connection
  binclipTimer,     \* the connections whose timer runs
  shown,            \* per connection: the entries of the last message to it
  clipboardClient,  \* the connection behind the clipboard, or Nobody
  owner,            \* per selection: an application, Vnc or Nobody
  activeSelection,  \* the selection announced to clients, or Nobody
  probing,
  mimesFromClient,  \* the binary types the window offers
  textFromClient,
  requests,         \* per application: SelectionRequest events to answer
  answering,        \* per application: what its notification will find in the
                    \* property, between its setting it and notifying, or Nobody
  holds,            \* per application and selection: what it copied last
  spoilt,           \* the copies that an answer of their owner has not brought
  copies            \* the number of copies made
connections == <<joined, binaryClipboard, binclipTimer, shown, clipboardClient>>
selections == <<owner, activeSelection, probing, mimesFromClient, textFromClient>>
apps == <<requests, answering, holds, spoilt>>
vars == <<connections, selections, apps, copies>>

ASSUME ClipboardAssumption ==
  /\ MayCut \subseteq Clients /\ MaxCopies \in Nat /\ Offers \subseteq SUBSET Mimes
  /\ SetPrimary \in BOOLEAN /\ SendPrimary \in BOOLEAN
  /\ {Vnc, Nobody} \cap (Clients \cup Apps) = {} /\ Vnc # Nobody
  /\ Clients \cap Apps = {}

Entry(t, w, n) == [mime |-> t, from |-> w, data |-> n]
Entries == {Entry(t, w, n) : t \in Mimes, w \in Clients \cup Apps \cup {Vnc}, n \in 0..MaxCopies}
Reply(a, contents, incr) ==
  [from |-> a, types |-> contents.types, data |-> contents.data, incr |-> incr]
Replies == [from : Apps, types : SUBSET Mimes, data : 0..MaxCopies, incr : BOOLEAN]
Targets == Mimes \cup {"TARGETS"}
Connected == {c \in Clients : joined[c] <= MaxCopies}

-----------------------------------------------------------------------------
(* Requests *)

(* The queues after w has been asked for the targets ts of the selection   *)
(* s.  An event to the server itself or to no owner goes nowhere.          *)
SelectionRequest(q, w, s, ts) ==
  IF w \in Apps
  THEN [q EXCEPT ![w] = @ \o [i \in DOMAIN ts |-> [selection |-> s, target |-> ts[i]]]]
  ELSE q

(* A type is taken as text if there is any, and in every binary form.      *)
Wanted(types) ==
  (IF "text" \in types THEN <<"text">> ELSE <<>>) \o (IF "image" \in types THEN <<"image">> ELSE <<>>)

-----------------------------------------------------------------------------
(* Applications *)

(* An application takes the selection s.  vncSelectionCallback withdraws   *)
(* what was announced and asks what types there are.                       *)
Copy(a, s) ==
  /\ copies < MaxCopies /\ answering[a] = Nobody
  /\ copies' = copies + 1
  /\ \E types \in Offers \ {{}} : holds' = [holds EXCEPT ![a][s] = [types |-> types, data |-> copies']]
  /\ owner' = [owner EXCEPT ![s] = a]
  /\ activeSelection' = IF activeSelection = s THEN Nobody ELSE activeSelection
  /\ LET noticed == s = "CLIPBOARD" \/ SendPrimary
     IN /\ probing' = (probing \/ noticed)
        /\ requests' = IF noticed THEN SelectionRequest(requests, a, s, <<"TARGETS">>) ELSE requests
  /\ UNCHANGED <<connections, mimesFromClient, textFromClient, answering, spoilt>>

(* An application ends: its selections have no owner, its events are lost. *)
Quit(a) ==
  /\ \E s \in Selections : owner[s] = a
  /\ owner' = [s \in Selections |-> IF owner[s] = a THEN Nobody ELSE owner[s]]
  /\ activeSelection' = IF activeSelection \in Selections /\ owner[activeSelection] = a
                        THEN Nobody ELSE activeSelection
  /\ requests' = [requests EXCEPT ![a] = <<>>]
  /\ answering' = [answering EXCEPT ![a] = Nobody]
  /\ UNCHANGED <<connections, probing, mimesFromClient, textFromClient, holds, spoilt, copies>>

(* SelectionNotify for TARGETS: while probing, everything collected so far *)
(* is dropped and the types are asked for once more, now for the data.     *)
ProbeAnswered(a, s) ==
  /\ binaryClipboard' = [c \in Clients |-> <<>>]
  /\ activeSelection' = s
  /\ clipboardClient' = Nobody
  /\ probing' = FALSE
  /\ requests' = SelectionRequest([requests EXCEPT ![a] = Tail(@)], owner[s], s, <<"TARGETS">>)
  /\ UNCHANGED <<binclipTimer>>

TypesAnswered(a, s, types) ==
  /\ ~probing
  /\ requests' = SelectionRequest([requests EXCEPT ![a] = Tail(@)], owner[s], s, Wanted(types))
  /\ UNCHANGED <<binaryClipboard, binclipTimer, clipboardClient, activeSelection, probing>>

(* Seeded fault: an entry takes the place of what was collected before.    *)
CollectLast(old, e) == [c \in Clients |-> IF c \in MayCut \cap Connected THEN <<e>> ELSE old[c]]

(* sendBinaryClipboardData: the entry is added for every client that may   *)
(* have it and the timer that collects the parts starts again.             *)
Collect(old, e) == [c \in Clients |-> IF c \in MayCut \cap Connected THEN Append(old[c], e) ELSE old[c]]

DataAnswered(a, e) ==
  /\ binaryClipboard' = Collect(binaryClipboard, e)
  /\ binclipTimer' = binclipTimer \cup (MayCut \cap Connected)
  /\ requests' = [requests EXCEPT ![a] = Tail(@)]
  /\ UNCHANGED <<clipboardClient, activeSelection, probing>>

Ignored(a) ==
  /\ requests' = [requests EXCEPT ![a] = Tail(@)]
  /\ UNCHANGED <<binaryClipboard, binclipTimer, clipboardClient, activeSelection, probing>>

(* The answer of a to a request for t does not bring what a has copied: it *)
(* is denied, or that of another application has taken its place.          *)
Spoils(a, t, found) ==
  \/ t = "text" /\ (found.incr \/ found.from # a)
  \/ t = "TARGETS" /\ ~probing /\ "text" \notin found.types

(* An application answers its oldest request with the contents it holds,   *)
(* even if the selection has gone to another meanwhile.  First it sets the *)
(* property.  There is one for each target, on one window, whoever is      *)
(* asked: an answer takes the place of any that is not yet notified.  Data *)
(* may come as the beginning of an incremental transfer.                   *)
SetProperty(a) ==
  /\ requests[a] # <<>> /\ answering[a] = Nobody
  /\ LET r == Head(requests[a])
         contents == holds[a][r.selection]
     IN /\ r.target \in contents.types \cup {"TARGETS"}
        /\ \E incr \in {FALSE, r.target # "TARGETS"} :
             answering' = [b \in Apps |->
               IF b = a \/ (answering[b] # Nobody /\ Head(requests[b]).target = r.target)
               THEN Reply(a, contents, incr) ELSE answering[b]]
  /\ UNCHANGED <<connections, selections, requests, holds, spoilt, copies>>

(* Then it notifies the server, which takes what the property holds now.   *)
(* An incremental transfer is denied.                                      *)
Notify(a) ==
  /\ requests[a] # <<>> /\ answering[a] # Nobody
  /\ LET r == Head(requests[a])
         found == answering[a]
     IN /\ \/ /\ r.target = "TARGETS" /\ probing
              /\ ProbeAnswered(a, r.selection)
           \/ /\ r.target = "TARGETS" /\ ~probing
              /\ TypesAnswered(a, r.selection, found.types)
           \/ /\ r.target # "TARGETS" /\ ~found.incr
              /\ DataAnswered(a, Entry(r.target, found.from, found.data))
           \/ /\ r.target # "TARGETS" /\ found.incr
              /\ Ignored(a)
        /\ spoilt' = IF Spoils(a, r.target, found) THEN spoilt \cup {holds[a][r.selection].data}
                     ELSE spoilt
  /\ answering' = [answering EXCEPT ![a] = Nobody]
  /\ UNCHANGED <<joined, shown, owner, mimesFromClient, textFromClient, holds, copies>>

(* It refuses what it does not have, and may refuse what it has lost: the  *)
(* notification names no property and vncHandleSelection ignores it.       *)
Refuse(a) ==
  /\ requests[a] # <<>> /\ answering[a] = Nobody
  /\ LET r == Head(requests[a])
     IN \/ r.target \notin holds[a][r.selection].types \cup {"TARGETS"}
        \/ owner[r.selection] # a
  /\ Ignored(a)
  /\ UNCHANGED <<joined, shown, owner, mimesFromClient, textFromClient, answering, holds, spoilt, copies>>

-----------------------------------------------------------------------------
(* Connections *)

Connect(c) ==
  /\ c \notin Connected
  /\ joined' = [joined EXCEPT ![c] = copies]
  /\ UNCHANGED <<binaryClipboard, binclipTimer, shown, clipboardClient, selections, apps, copies>>

(* Seeded fault: the window keeps what it holds.                           *)
DropSelectionsNot == UNCHANGED <<owner, activeSelection>>

(* DeleteWindowFromAnySelections *)
DropSelections ==
  /\ owner' = [s \in Selections |-> IF owner[s] = Vnc THEN Nobody ELSE owner[s]]
  /\ activeSelection' = IF activeSelection \in Selections /\ owner[activeSelection] = Vnc
                        THEN Nobody ELSE activeSelection

(* removeSocket: a connection behind the clipboard gives it up first.      *)
Disconnect(c) ==
  /\ c \in Connected
  /\ joined' = [joined EXCEPT ![c] = MaxCopies + 1]
  /\ binaryClipboard' = [binaryClipboard EXCEPT ![c] = <<>>]
  /\ shown' = [shown EXCEPT ![c] = {}]
  /\ binclipTimer' = binclipTimer \ {c}
  /\ IF clipboardClient = c
     THEN clipboardClient' = Nobody /\ DropSelections
     ELSE UNCHANGED <<clipboardClient, owner, activeSelection>>
  /\ UNCHANGED <<probing, mimesFromClient, textFromClient, apps, copies>>

(* handleClipboardAnnounceBinary: the window takes the selections for a    *)
(* client that may send its clipboard, or gives them up if it sent nothing *)
(* that the limit on sizes lets through.  textFromClient stays set when a  *)
(* clipboard without text follows one with.                                *)
AnnounceBinary(c, types) ==
  /\ clipboardClient' = c
  /\ IF types = {}
     THEN /\ DropSelections
          /\ mimesFromClient' = {} /\ textFromClient' = FALSE
     ELSE LET taken == IF SetPrimary THEN Selections ELSE {"CLIPBOARD"}
          IN /\ owner' = [s \in Selections |-> IF s \in taken THEN Vnc ELSE owner[s]]
             /\ activeSelection' = IF activeSelection \in taken THEN Nobody ELSE activeSelection
             /\ mimesFromClient' = types \ {"text"}
             /\ textFromClient' = (textFromClient \/ "text" \in types)
  /\ UNCHANGED probing

(* readBinaryClipboard replaces what was collected for the connection,     *)
(* whether or not it may send its clipboard.                               *)
ClientCopies(c) ==
  /\ c \in Connected /\ copies < MaxCopies
  /\ copies' = copies + 1
  /\ \E types \in Offers :
       /\ binaryClipboard' = [binaryClipboard EXCEPT ![c] =
            [i \in DOMAIN Wanted(types) |-> Entry(Wanted(types)[i], c, copies')]]
       /\ IF c \in MayCut THEN AnnounceBinary(c, types)
          ELSE UNCHANGED <<clipboardClient, selections>>
  /\ joined' = [joined EXCEPT ![c] = copies']
  /\ UNCHANGED <<binclipTimer, shown, apps>>

(* The timer of a connection: everything collected is sent.                *)
WriteBinaryClipboard(c) ==
  /\ c \in binclipTimer
  /\ binclipTimer' = binclipTimer \ {c}
  /\ shown' = [shown EXCEPT ![c] = Range(binaryClipboard[c])]
  /\ UNCHANGED <<joined, binaryClipboard, clipboardClient, selections, apps, copies>>

(* The API call that clears the clipboard: of every connection, by an      *)
(* empty text, and of the applications.                                    *)
ClearClipboard ==
  /\ binaryClipboard' = Collect([c \in Clients |-> <<>>], Entry("text", Vnc, 0))
  /\ binclipTimer' = binclipTimer \cup (MayCut \cap Connected)
  /\ clipboardClient' = Nobody
  /\ owner' = [s \in Selections |-> Nobody]
  /\ activeSelection' = Nobody
  /\ mimesFromClient' = {} /\ textFromClient' = FALSE
  /\ UNCHANGED <<joined, shown, probing, apps, copies>>

-----------------------------------------------------------------------------
(* What an application that pastes gets from the window for the type t:    *)
(* a refusal, the first entry of that type, an empty string, or, with no   *)
(* connection behind the clipboard, whatever the variables happen to hold. *)
Refused == [mime |-> "refused", from |-> Nobody, data |-> 0]
Undefined == [mime |-> "undefined", from |-> Nobody, data |-> 0]
Pasted(t) ==
  IF clipboardClient = Nobody THEN Undefined
  ELSE LET sent == binaryClipboard[clipboardClient]
           found == {i \in DOMAIN sent : sent[i].mime = t}
       IN IF found = {} THEN Entry(t, Vnc, 0)
          ELSE sent[CHOOSE i \in found : \A j \in found : i <= j]

ConvertSelection(t) ==
  IF t \in mimesFromClient \/ (t = "text" /\ textFromClient) THEN Pasted(t) ELSE Refused

Init ==
  /\ joined = [c \in Clients |-> MaxCopies + 1]
  /\ binaryClipboard = [c \in Clients |-> <<>>]
  /\ binclipTimer = {} /\ shown = [c \in Clients |-> {}]
  /\ clipboardClient = Nobody
  /\ owner = [s \in Selections |-> Nobody]
  /\ activeSelection = Nobody /\ probing = FALSE
  /\ mimesFromClient = {} /\ textFromClient = FALSE
  /\ requests = [a \in Apps |-> <<>>]
  /\ answering = [a \in Apps |-> Nobody] /\ spoilt = {}
  /\ holds = [a \in Apps |-> [s \in Selections |-> [types |-> {}, data |-> 0]]]
  /\ copies = 0

Next ==
  \/ \E a \in Apps : (\E s \in Selections : Copy(a, s)) \/ Quit(a)
                    \/ SetProperty(a) \/ Notify(a) \/ Refuse(a)
  \/ \E c \in Clients : Connect(c) \/ Disconnect(c) \/ ClientCopies(c) \/ WriteBinaryClipboard(c)
  \/ ClearClipboard
Spec == Init /\ [][Next]_vars

-----------------------------------------------------------------------------
(* Every variable has its type; a timer that runs and the client behind    *)
(* the clipboard belong to connections that are there.                     *)
TypeOK ==
  /\ joined \in [Clients -> 0..MaxCopies + 1]
  /\ binaryClipboard \in [Clients -> Seq(Entries)]
  /\ binclipTimer \subseteq Connected
  /\ shown \in [Clients -> SUBSET Entries]
  /\ clipboardClient \in Connected \cup {Nobody}
  /\ owner \in [Selections -> Apps \cup {Vnc, Nobody}]
  /\ activeSelection \in Selections \cup {Nobody}
  /\ probing \in BOOLEAN /\ textFromClient \in BOOLEAN
  /\ mimesFromClient \subseteq Mimes \ {"text"}
  /\ requests \in [Apps -> Seq([selection : Selections, target : Targets])]
  /\ holds \in [Apps -> [Selections -> [types : SUBSET Mimes, data : 0..MaxCopies]]]
  /\ answering \in [Apps -> Replies \cup {Nobody}]
  /\ spoilt \subseteq 0..MaxCopies /\ copies \in 0..MaxCopies

(* While the server holds CLIPBOARD and has not announced it for an        *)
(* application, a live connection is behind it and every type it offers    *)
(* is pasted from what that connection itself has sent last: nothing that  *)
(* applications answer, and no other connection, gets in between.          *)
ClientBehind ==
  owner["CLIPBOARD"] = Vnc /\ activeSelection # "CLIPBOARD" =>
    /\ clipboardClient \in Connected \cap MayCut
    /\ \A t \in mimesFromClient : ConvertSelection(t).from = clipboardClient

(* The application a owes connection c the text it copied n-th.            *)
Owes(a, c, n) ==
  /\ owner["CLIPBOARD"] = a
  /\ holds[a]["CLIPBOARD"].data = n /\ "text" \in holds[a]["CLIPBOARD"].types
  /\ c \in MayCut /\ joined[c] < n

(* Whenever nothing is under way, what the owner of CLIPBOARD has copied   *)
(* has reached every client that was connected then, however late earlier  *)
(* owners answer, unless the client has sent a clipboard of its own since, *)
(* the owner's transfer was incremental, or the answer of another to the   *)
(* same question took the place of its own before it was notified.         *)
Quiet == binclipTimer = {} /\ \A a \in Apps : requests[a] = <<>>
CopyArrived ==
  Quiet => \A a \in Apps, c \in Clients, n \in (1..MaxCopies) \ spoilt :
    Owes(a, c, n) => Entry("text", a, n) \in shown[c]
=============================================================================
