--------------------------- MODULE UserFileProofs ---------------------------
(* The password file implements the user list of UserDb, for any number of *)
(* threads, users and files, if kasmvncpasswd is run alone.                *)
EXTENDS UserFile, TLAPS

-----------------------------------------------------------------------------
(* Lists and requests *)

(* An empty file is an empty list.                                         *)
LEMMA EmptyList == D!Empty \in D!Lists
<1>1. D!Empty \in [{} -> D!Entry] BY DEF D!Empty
<1> QED BY <1>1 DEF D!Lists

(* A list is a function from some of the users to entries.                 *)
LEMMA ListDomain ==
  ASSUME NEW list \in D!Lists
  PROVE  /\ DOMAIN list \subseteq Users
         /\ list \in [DOMAIN list -> D!Entry]
<1>1. PICK names \in SUBSET Users : list \in [names -> D!Entry] BY DEF D!Lists
<1> QED BY <1>1

(* Any part of a list is a list.                                           *)
LEMMA PartOfList ==
  ASSUME NEW list \in D!Lists, NEW names \in SUBSET DOMAIN list
  PROVE  [u \in names |-> list[u]] \in D!Lists
<1>1. [u \in names |-> list[u]] \in [names -> D!Entry] BY ListDomain
<1>2. names \in SUBSET Users BY ListDomain
<1> QED BY <1>1, <1>2 DEF D!Lists

(* What is left of a list that was cut off is a list, and the whole list   *)
(* is what is left if nothing was.                                         *)
LEMMA RemainsType ==
  ASSUME NEW list \in D!Lists
  PROVE  D!Remains(list) \subseteq D!Lists /\ list \in D!Remains(list)
BY DEF D!Remains

(* A request makes a list of a list.                                       *)
LEMMA ApplyType ==
  ASSUME NEW list \in D!Lists, NEW r \in D!Request, D!Possible(list, r)
  PROVE  D!Apply(list, r) \in D!Lists
<1> DEFINE names == DOMAIN list
<1>1. names \subseteq Users /\ list \in [names -> D!Entry] BY ListDomain
<1>2. r.user \in Users /\ r.entry \in D!Entry BY DEF D!Request
<1>3. CASE r.kind = "remove"
  <2>1. [u \in names \ {r.user} |-> list[u]] \in D!Lists
    BY PartOfList, names \ {r.user} \in SUBSET DOMAIN list
  <2> QED BY <2>1, <1>3 DEF D!Apply
<1>4. CASE r.kind # "remove"
  <2> DEFINE New(u) == CASE u # r.user -> list[u]
                         [] u = r.user /\ r.kind = "update" -> [r.entry EXCEPT !.pw = list[u].pw]
                         [] OTHER -> r.entry
  <2>1. ASSUME NEW u \in names \cup {r.user} PROVE New(u) \in D!Entry
    <3>1. CASE u # r.user BY <3>1, <1>1
    <3>2. CASE u = r.user /\ r.kind = "update"
      <4>1. u \in names BY <3>2 DEF D!Possible
      <4>2. list[u] \in D!Entry BY <4>1, <1>1
      <4>3. [r.entry EXCEPT !.pw = list[u].pw] \in D!Entry BY <4>2, <1>2 DEF D!Entry
      <4> QED BY <3>2, <4>3
    <3>3. CASE u = r.user /\ r.kind # "update" BY <3>3, <1>2
    <3> QED BY <3>1, <3>2, <3>3
  <2>2. [u \in names \cup {r.user} |-> New(u)] \in [names \cup {r.user} -> D!Entry] BY <2>1
  <2>3. names \cup {r.user} \in SUBSET Users BY <1>1, <1>2
  <2>4. [u \in names \cup {r.user} |-> New(u)] \in D!Lists BY <2>2, <2>3 DEF D!Lists
  <2> QED BY <2>4, <1>4 DEF D!Apply
<1> QED BY <1>3, <1>4

-----------------------------------------------------------------------------
(* What an editor has, by where it is.                                     *)
LEMMA LineFacts ==
  ASSUME NEW x \in Lines
  PROVE  /\ x.pc \in {"idle", "lock", "read", "open", "write", "rename", "unlock"}
         /\ x.pc \in {"lock", "read", "open", "write", "rename"} => x.req \in Requests
         /\ x.pc \in {"open", "write", "rename"} => x.set \in D!Lists /\ x.intact \in BOOLEAN
         /\ x.pc = "write" => x.fd \in Inodes
         /\ x.pc # "write" => x.fd = NoFile
BY DEF Lines

(* A line that has been written, with or without a failure.                *)
Written(x, b) == [x EXCEPT !.pc = "rename", !.fd = NoFile, !.intact = b]

(* The lines that the steps make.                                          *)
LEMMA LineSteps ==
  ASSUME NEW x \in Lines
  PROVE  /\ Idle \in Lines /\ Idle.pc = "idle" /\ Idle.fd = NoFile
         /\ [Idle EXCEPT !.pc = "unlock"] \in Lines /\ [Idle EXCEPT !.pc = "unlock"].pc = "unlock"
         /\ [pc |-> "unlock", fd |-> NoFile] \in Lines
         /\ x.pc = "lock" => LET y == [x EXCEPT !.pc = "read"]
                             IN y \in Lines /\ y.pc = "read"
         /\ x.pc = "write" =>
              \A b \in BOOLEAN :
                /\ Written(x, b) \in Lines /\ Written(x, b).pc = "rename"
                /\ Written(x, b).req = x.req /\ Written(x, b).set = x.set
                /\ Written(x, b).intact = b
<1>1. /\ Idle \in Lines /\ Idle.pc = "idle" /\ Idle.fd = NoFile
      /\ [Idle EXCEPT !.pc = "unlock"] \in Lines /\ [Idle EXCEPT !.pc = "unlock"].pc = "unlock"
      /\ [pc |-> "unlock", fd |-> NoFile] \in Lines
  BY DEF Idle, Lines
<1>2. ASSUME x.pc = "lock" PROVE LET y == [x EXCEPT !.pc = "read"] IN y \in Lines /\ y.pc = "read"
  BY <1>2 DEF Lines
<1>3. ASSUME x.pc = "write", NEW b \in BOOLEAN
      PROVE  /\ Written(x, b) \in Lines /\ Written(x, b).pc = "rename"
             /\ Written(x, b).req = x.req /\ Written(x, b).set = x.set
             /\ Written(x, b).intact = b
  BY <1>3 DEF Lines, Written
<1> QED BY <1>1, <1>2, <1>3

(* Two editors are never between reading and unlocking.                    *)
LEMMA OnlyEditor ==
  ASSUME TypeOK, OneEditor, NEW p \in Procs, NEW q \in Procs, Editing(p), Editing(q)
  PROVE  p = q
<1>1. CASE p \in Threads /\ q \in Threads BY <1>1 DEF OneEditor
<1>2. CASE p \in Tools BY <1>2 DEF OneEditor, Editing
<1>3. CASE q \in Tools BY <1>3 DEF OneEditor, Editing
<1> QED BY <1>1, <1>2, <1>3 DEF Procs

-----------------------------------------------------------------------------
(* Steps of the editors that leave the files alone *)

(* A step that moves p alone from one place to another, where it has no    *)
(* list yet or no more, keeps the files' invariants.                       *)
LEMMA QuietStep ==
  ASSUME Consistent, NEW p \in Procs, NEW y \in Lines,
         y.pc \notin {"open", "write", "rename"},
         proc' = [proc EXCEPT ![p] = y],
         UNCHANGED <<files, main>>
  PROVE  /\ proc' \in [Procs -> Lines]
         /\ ListsCurrent' /\ TmpOwned' /\ WatchKept' /\ RightsTracked'
<1> USE DEF Consistent, files, main
<1>1. proc' \in [Procs -> Lines] BY DEF TypeOK
<1>2. ASSUME NEW q \in Procs, proc'[q].pc \in {"open", "write", "rename"}
      PROVE  proc'[q] = proc[q]
  BY <1>2 DEF TypeOK
<1>3. ListsCurrent' BY <1>2 DEF ListsCurrent
<1>4. TmpOwned' BY <1>2 DEF TmpOwned
<1>5. WatchKept' /\ RightsTracked' BY DEF WatchKept, RightsTracked
<1> QED BY <1>1, <1>3, <1>4, <1>5

(* Call: a tool starts only when nobody edits, if it is run alone.         *)
LEMMA CallStep ==
  ASSUME ToolsAlone, Consistent, NEW p \in Procs, Call(p)
  PROVE  Consistent'
<1>1. PICK r \in Requests : proc' = [proc EXCEPT ![p] =
         [pc |-> IF p \in Threads THEN "lock" ELSE "read", fd |-> NoFile, req |-> r]]
  BY DEF Call
<1> DEFINE y == [pc |-> IF p \in Threads THEN "lock" ELSE "read", fd |-> NoFile, req |-> r]
<1>2. /\ y \in Lines /\ y.pc \in {"lock", "read"}
      /\ p \in Threads => y.pc = "lock"
      /\ p \in Tools => y.pc # "lock"
  BY UserFileAssumption DEF Lines
<1>3. proc' = [proc EXCEPT ![p] = y] /\ UNCHANGED <<userMutex, files, main>> BY <1>1 DEF Call
<1> HIDE DEF y
<1>4. proc' \in [Procs -> Lines] /\ ListsCurrent' /\ TmpOwned' /\ WatchKept' /\ RightsTracked'
  BY <1>2, <1>3, QuietStep
<1>5. TypeOK' BY <1>3, <1>4 DEF Consistent, TypeOK, files, main
<1>6. \A q \in Procs : proc'[q] = IF q = p THEN y ELSE proc[q] BY <1>3 DEF Consistent, TypeOK
<1>7. ASSUME NEW q \in Threads, Editing(q)' PROVE userMutex' = q
  BY <1>2, <1>3, <1>6, <1>7 DEF Editing, Consistent, OneEditor, Procs
<1>8. Alone(p) BY DEF Call
<1>9. ASSUME NEW q \in Tools, NEW z \in Procs, proc'[q].pc # "idle", z # q PROVE proc'[z].pc = "idle"
  BY <1>6, <1>8, <1>9 DEF Alone, Consistent, OneEditor, Procs
<1>10. ASSUME NEW q \in Tools PROVE proc'[q].pc # "lock"
  BY <1>2, <1>6 DEF Consistent, OneEditor, Procs
<1>11. OneEditor' BY <1>7, <1>9, <1>10 DEF OneEditor
<1> QED BY <1>4, <1>5, <1>11 DEF Consistent

LEMMA LockStep ==
  ASSUME Consistent, NEW p \in Procs, Lock(p)
  PROVE  Consistent'
<1> DEFINE y == [proc[p] EXCEPT !.pc = "read"]
<1>1. proc[p] \in Lines /\ proc[p].pc = "lock" BY DEF Lock, Consistent, TypeOK
<1>2. y \in Lines /\ y.pc = "read" BY <1>1, LineSteps
<1>3. proc' = [proc EXCEPT ![p] = y] /\ userMutex' = p /\ userMutex = Nobody /\ UNCHANGED <<files, main>>
  BY DEF Lock
<1> HIDE DEF y
<1>4. proc' \in [Procs -> Lines] /\ ListsCurrent' /\ TmpOwned' /\ WatchKept' /\ RightsTracked'
  BY <1>2, <1>3, QuietStep
<1>5. \A q \in Procs : proc'[q] = IF q = p THEN y ELSE proc[q] BY <1>3 DEF Consistent, TypeOK
<1>6. p \in Threads BY <1>1 DEF Consistent, OneEditor, Procs
<1>7. TypeOK' BY <1>3, <1>4, <1>6 DEF Consistent, TypeOK, files, main
<1>8. ASSUME NEW q \in Threads, Editing(q)' PROVE userMutex' = q
  <2>1. CASE q = p BY <2>1, <1>3
  <2>2. CASE q # p BY <2>2, <1>3, <1>5, <1>8, UserFileAssumption DEF Editing, Consistent, OneEditor, Procs
  <2> QED BY <2>1, <2>2
<1>9. ASSUME NEW q \in Tools PROVE proc'[q].pc # "lock"
  BY <1>2, <1>5 DEF Consistent, OneEditor, Procs
<1>10. ASSUME NEW q \in Tools, NEW z \in Procs, proc'[q].pc # "idle", z # q PROVE proc'[z].pc = "idle"
  BY <1>1, <1>5, <1>6, <1>10, UserFileAssumption DEF Consistent, OneEditor, Procs
<1> QED BY <1>4, <1>7, <1>8, <1>9, <1>10 DEF Consistent, OneEditor

(* Moving one editor to a place between reading and unlocking from         *)
(* another, or to the end, keeps editors apart.                            *)
LEMMA StillOneEditor ==
  ASSUME Consistent, NEW p \in Procs, NEW y \in Lines, Editing(p),
         y.pc \in {"idle", "read", "open", "write", "rename", "unlock"},
         proc' = [proc EXCEPT ![p] = y],
         y.pc = "idle" \/ userMutex' = userMutex,
         userMutex' = userMutex \/ userMutex = p
  PROVE  OneEditor'
<1>1. \A q \in Procs : proc'[q] = IF q = p THEN y ELSE proc[q] BY DEF Consistent, TypeOK
<1>2. ASSUME NEW q \in Threads, Editing(q)' PROVE userMutex' = q
  <2>1. CASE q = p BY <2>1, <1>1, <1>2 DEF Editing, Consistent, OneEditor, Procs
  <2>2. CASE q # p
    <3>1. Editing(q) BY <2>2, <1>1, <1>2 DEF Editing, Procs
    <3>2. userMutex = q /\ q = p BY <3>1, OnlyEditor DEF Consistent, OneEditor, Procs
    <3> QED BY <3>2, <2>2
  <2> QED BY <2>1, <2>2
<1>3. ASSUME NEW q \in Tools PROVE proc'[q].pc # "lock"
  BY <1>1 DEF Consistent, OneEditor, Procs
<1>4. ASSUME NEW q \in Tools, NEW z \in Procs, proc'[q].pc # "idle", z # q PROVE proc'[z].pc = "idle"
  <2>1. proc[p].pc # "idle" BY DEF Editing
  <2>2. proc[q].pc # "idle" BY <2>1, <1>1, <1>4 DEF Procs
  <2>3. proc[z].pc = "idle" /\ z # p BY <2>1, <2>2, <1>4 DEF Consistent, OneEditor
  <2> QED BY <2>3, <1>1
<1> QED BY <1>2, <1>3, <1>4 DEF OneEditor

(* Reading: the list is the file with the request applied, or an empty     *)
(* one if the file could not be opened.                                    *)
LEMMA ReadStep ==
  ASSUME Consistent, NEW p \in Procs, Read(p)
  PROVE  Consistent'
<1> DEFINE r == proc[p].req
<1>1. proc[p] \in Lines /\ proc[p].pc = "read" /\ r \in Requests /\ inode[path] \in D!Lists
  BY LineFacts DEF Read, Consistent, TypeOK
<1>2. UNCHANGED <<userMutex, files, main>> /\ Editing(p) BY <1>1 DEF Read, Editing
<1>5. PICK list \in {inode[path], D!Empty} : proc' = [proc EXCEPT ![p] = ReadAs(p, list)]
  BY DEF Read
<1>6. list \in D!Lists BY <1>1, EmptyList
<1>3. CASE ~D!Possible(list, r)
  <2> DEFINE y == [pc |-> "unlock", fd |-> NoFile]
  <2>1. y \in Lines /\ y.pc = "unlock" BY DEF Lines
  <2>2. proc' = [proc EXCEPT ![p] = y] BY <1>3, <1>5 DEF ReadAs
  <2> HIDE DEF y
  <2>3. proc' \in [Procs -> Lines] /\ ListsCurrent' /\ TmpOwned' /\ WatchKept' /\ RightsTracked'
    BY <2>1, <2>2, <1>2, QuietStep
  <2>4. OneEditor' BY <2>1, <2>2, <1>2, StillOneEditor
  <2>5. TypeOK' BY <2>3, <1>2 DEF Consistent, TypeOK, files, main
  <2> QED BY <2>3, <2>4, <2>5 DEF Consistent
<1>4. CASE D!Possible(list, r)
  <2> DEFINE new == D!Apply(list, r)
             b == list = inode[path]
             y == [pc |-> "open", fd |-> NoFile, req |-> r, set |-> new, intact |-> b]
  <2>1. new \in D!Lists /\ b \in BOOLEAN BY <1>1, <1>4, <1>6, ApplyType, UserFileAssumption
  <2>2. proc' = [proc EXCEPT ![p] = y] BY <1>4, <1>5 DEF ReadAs
  <2>a. new = D!Apply(list, r) /\ (b => list = inode[path]) OBVIOUS
  <2> HIDE DEF new, r, b
  <2>3. /\ y \in Lines /\ y.pc = "open" /\ y.req = r /\ y.set = new /\ y.intact = b
    BY <2>1, <1>1 DEF Lines
  <2> HIDE DEF y
  <2>4. \A q \in Procs : proc'[q] = IF q = p THEN y ELSE proc[q] BY <2>2 DEF Consistent, TypeOK
  <2>5. TypeOK' BY <2>2, <2>3, <1>2 DEF Consistent, TypeOK, files, main
  <2>6. OneEditor' BY <2>2, <2>3, <1>2, StillOneEditor
  <2>b. inode'[path'] = inode[path] BY <1>2 DEF files
  <2>c. Applied(y, inode[path]) BY <2>a, <2>3, <1>4 DEF Applied
  <2>7. ListsCurrent' BY <2>4, <2>b, <2>c DEF Consistent, ListsCurrent
  <2>8. TmpOwned' BY <2>3, <2>4, <1>2 DEF Consistent, TmpOwned, files
  <2>9. WatchKept' /\ RightsTracked' BY <1>2 DEF Consistent, WatchKept, RightsTracked, files, main
  <2> QED BY <2>5, <2>6, <2>7, <2>8, <2>9 DEF Consistent
<1> QED BY <1>3, <1>4

-----------------------------------------------------------------------------
(* Steps of the editors on the files *)

(* While one edits, no other has a list or a file.                         *)
LEMMA OthersAway ==
  ASSUME Consistent, NEW p \in Procs, Editing(p), NEW q \in Procs, q # p
  PROVE  proc[q].pc \notin {"open", "write", "rename"}
BY OnlyEditor DEF Consistent, Editing

(* What is left to show of a step of the only editor.                      *)
LEMMA EditorStep ==
  ASSUME Consistent, NEW p \in Procs, Editing(p), NEW y \in Lines,
         y.pc \in {"write", "rename", "unlock"},
         proc' = [proc EXCEPT ![p] = y], userMutex' = userMutex,
         y.pc # "unlock" => Applied(y, inode'[path']),
         tmp' # path',
         y.pc = "write" => y.fd = tmp',
         y.pc = "rename" => /\ tmp' # NoFile /\ inode'[tmp'] \in D!Remains(y.set)
                            /\ y.intact => inode'[tmp'] = y.set
  PROVE  proc' \in [Procs -> Lines] /\ OneEditor' /\ ListsCurrent' /\ TmpOwned'
<1>1. \A q \in Procs : proc'[q] = IF q = p THEN y ELSE proc[q] BY DEF Consistent, TypeOK
<1>2. proc' \in [Procs -> Lines] BY DEF Consistent, TypeOK
<1>3. OneEditor' BY StillOneEditor
<1>4. ListsCurrent' BY <1>1, OthersAway DEF ListsCurrent
<1>5. TmpOwned' BY <1>1, OthersAway DEF TmpOwned
<1> QED BY <1>2, <1>3, <1>4, <1>5

(* Opening the temporary file: it is not the password file.                *)
LEMMA OpenStep ==
  ASSUME Consistent, NEW p \in Procs, Open(p)
  PROVE  Consistent'
<1>1. proc[p] \in Lines /\ proc[p].pc = "open" /\ Editing(p) /\ inode \in [Inodes -> D!Lists]
  BY DEF Open, Editing, Consistent, TypeOK
<1>2. userMutex' = userMutex /\ path' = path /\ UNCHANGED main BY DEF Open
<1>3. CASE \E i \in IF tmp = NoFile THEN Inodes \ InUse ELSE {tmp} :
             /\ tmp' = i
             /\ inode' = [inode EXCEPT ![i] = D!Empty]
             /\ proc' = [proc EXCEPT ![p].pc = "write", ![p].fd = i]
  <2>1. PICK i \in IF tmp = NoFile THEN Inodes \ InUse ELSE {tmp} :
             /\ tmp' = i
             /\ inode' = [inode EXCEPT ![i] = D!Empty]
             /\ proc' = [proc EXCEPT ![p].pc = "write", ![p].fd = i]
    BY <1>3
  <2>2. i \in Inodes /\ i # path
    <3>1. CASE tmp = NoFile BY <3>1 DEF InUse
    <3>2. CASE tmp # NoFile BY <3>2 DEF Consistent, TypeOK, TmpOwned
    <3> QED BY <3>1, <3>2
  <2> DEFINE y == [proc[p] EXCEPT !.pc = "write", !.fd = i]
  <2>3. /\ y \in Lines /\ y.pc = "write" /\ y.fd = i
        /\ y.req = proc[p].req /\ y.set = proc[p].set /\ y.intact = proc[p].intact
    <3> DEFINE x == proc[p]
    <3>1. x \in Lines /\ x.pc = "open" /\ i \in Inodes BY <1>1, <2>2
    <3>2. y = [x EXCEPT !.pc = "write", !.fd = i] OBVIOUS
    <3> HIDE DEF x, y
    <3>3. /\ y \in Lines /\ y.pc = "write" /\ y.fd = i
          /\ y.req = x.req /\ y.set = x.set /\ y.intact = x.intact
      BY <3>1, <3>2 DEF Lines
    <3> QED BY <3>3 DEF x
  <2>4. proc' = [proc EXCEPT ![p] = y] BY <2>1 DEF Consistent, TypeOK
  <2> HIDE DEF y
  <2>5. inode' \in [Inodes -> D!Lists] BY <2>1, <2>2, <1>1, EmptyList
  <2>6. inode'[path'] = inode[path] BY <2>1, <2>2, <1>1, <1>2 DEF Consistent, TypeOK
  <2>7. Applied(y, inode'[path'])
    BY <2>3, <2>6, <1>1 DEF Consistent, ListsCurrent, Applied
  <2>8. tmp' # path' /\ y.fd = tmp' BY <2>1, <2>2, <2>3, <1>2
  <2>9. proc' \in [Procs -> Lines] /\ OneEditor' /\ ListsCurrent' /\ TmpOwned'
    BY <2>3, <2>4, <2>7, <2>8, <1>1, <1>2, EditorStep
  <2>10. TypeOK' BY <2>1, <2>2, <2>5, <2>9, <1>2 DEF Consistent, TypeOK, main
  <2>11. WatchKept' /\ RightsTracked' BY <2>6, <1>2 DEF Consistent, WatchKept, RightsTracked, main
  <2> QED BY <2>9, <2>10, <2>11 DEF Consistent
<1>4. CASE /\ proc' = [proc EXCEPT ![p] = [Idle EXCEPT !.pc = "unlock"]]
           /\ UNCHANGED <<tmp, inode>>
  <2> DEFINE y == [Idle EXCEPT !.pc = "unlock"]
  <2>1. y \in Lines /\ y.pc = "unlock" BY <1>1, LineSteps
  <2>2. UNCHANGED <<files, main>> BY <1>2, <1>4 DEF files
  <2> HIDE DEF y
  <2>3. proc' = [proc EXCEPT ![p] = y] BY <1>4 DEF y
  <2>4. proc' \in [Procs -> Lines] /\ ListsCurrent' /\ TmpOwned' /\ WatchKept' /\ RightsTracked'
    BY <2>1, <2>2, <2>3, QuietStep
  <2>5. OneEditor' BY <2>1, <2>3, <1>1, <1>2, StillOneEditor
  <2>6. TypeOK' BY <2>2, <2>4, <1>2 DEF Consistent, TypeOK, files, main
  <2> QED BY <2>4, <2>5, <2>6 DEF Consistent
<1> QED BY <1>3, <1>4 DEF Open

(* A part of the list reaches the temporary file.                          *)
LEMMA WritePartStep ==
  ASSUME Consistent, NEW p \in Procs, WritePart(p)
  PROVE  Consistent'
<1>1. /\ proc[p] \in Lines /\ proc[p].pc = "write" /\ Editing(p)
      /\ inode \in [Inodes -> D!Lists] /\ path \in Inodes
  BY DEF WritePart, Editing, Consistent, TypeOK
<1>2. proc[p].fd = tmp /\ tmp # path /\ tmp \in Inodes /\ proc[p].set \in D!Lists
  BY <1>1, LineFacts DEF Consistent, TmpOwned
<1>3. UNCHANGED <<userMutex, proc, path, tmp, main>> BY DEF WritePart
<1>4. PICK part \in D!Remains(proc[p].set) : inode' = [inode EXCEPT ![proc[p].fd] = part]
  BY DEF WritePart
<1>5. part \in D!Lists BY <1>2, RemainsType
<1>6. inode' \in [Inodes -> D!Lists] BY <1>1, <1>2, <1>4, <1>5
<1>7. inode'[path'] = inode[path] BY <1>1, <1>2, <1>3, <1>4
<1>8. TypeOK' BY <1>3, <1>6 DEF Consistent, TypeOK, main
<1>9. OneEditor' BY <1>3 DEF Consistent, OneEditor, Editing
<1>10. ListsCurrent' BY <1>3, <1>7 DEF Consistent, ListsCurrent
<1>11. TmpOwned'
  <2>1. ASSUME NEW q \in Procs PROVE proc[q].pc # "rename"
    BY <1>1, OthersAway
  <2> QED BY <2>1, <1>3 DEF Consistent, TmpOwned
<1>12. WatchKept' /\ RightsTracked' BY <1>3, <1>7 DEF Consistent, WatchKept, RightsTracked, main
<1> QED BY <1>8, <1>9, <1>10, <1>11, <1>12 DEF Consistent

(* All of it is written before the file is renamed, or a part, if that     *)
(* fails.                                                                  *)
LEMMA WriteStep ==
  ASSUME Consistent, NEW p \in Procs, Write(p)
  PROVE  Consistent'
<1>1. /\ proc[p] \in Lines /\ proc[p].pc = "write" /\ Editing(p)
      /\ inode \in [Inodes -> D!Lists] /\ path \in Inodes
  BY DEF Write, Editing, Consistent, TypeOK
<1>2. /\ proc[p].fd = tmp /\ tmp # path /\ tmp \in Inodes /\ proc[p].set \in D!Lists
      /\ proc[p].intact \in BOOLEAN
  BY <1>1, LineFacts DEF Consistent, TmpOwned
<1>a. PICK part \in D!Remains(proc[p].set) :
        /\ inode' = [inode EXCEPT ![proc[p].fd] = part]
        /\ proc' = [proc EXCEPT ![p].pc = "rename", ![p].fd = NoFile,
                                ![p].intact = proc[p].intact /\ part = proc[p].set]
  BY DEF Write
<1> DEFINE b == proc[p].intact /\ part = proc[p].set
           y == Written(proc[p], b)
<1>3. /\ y \in Lines /\ y.pc = "rename" /\ y.req = proc[p].req /\ y.set = proc[p].set
      /\ y.intact = b
  <2>1. b \in BOOLEAN OBVIOUS
  <2> HIDE DEF b
  <2> QED BY <2>1, <1>1, LineSteps
<1>4. proc' = [proc EXCEPT ![p] = y] BY <1>a DEF Consistent, TypeOK, Written
<1>b. y.intact => proc[p].intact /\ part = y.set BY <1>3
<1> HIDE DEF y, b
<1>5. /\ inode' = [inode EXCEPT ![tmp] = part]
      /\ UNCHANGED <<userMutex, path, tmp, watch, rechecking, known>>
      /\ notified' = (notified \/ watch = proc[p].fd)
  BY <1>2, <1>a DEF Write
<1>6. /\ inode' \in [Inodes -> D!Lists] /\ inode'[path'] = inode[path] /\ inode'[tmp'] = part
      /\ part \in D!Remains(y.set)
  BY <1>1, <1>2, <1>3, <1>5, RemainsType
<1>7. Applied(y, inode'[path'])
  BY <1>1, <1>3, <1>6, <1>b DEF Consistent, ListsCurrent, Applied
<1>8. tmp' # path' /\ tmp' # NoFile BY <1>2, <1>5, UserFileAssumption
<1>9. proc' \in [Procs -> Lines] /\ OneEditor' /\ ListsCurrent' /\ TmpOwned'
  BY <1>1, <1>3, <1>4, <1>5, <1>6, <1>7, <1>8, <1>b, EditorStep
<1>10. TypeOK' BY <1>5, <1>6, <1>9 DEF Consistent, TypeOK
<1>11. WatchKept' /\ RightsTracked' BY <1>5, <1>6 DEF Consistent, TypeOK, WatchKept, RightsTracked
<1> QED BY <1>9, <1>10, <1>11 DEF Consistent

(* Renaming puts the list into place and wakes the main thread.            *)
LEMMA RenameStep ==
  ASSUME Consistent, NEW p \in Procs, Rename(p)
  PROVE  Consistent'
<1>1. /\ proc[p] \in Lines /\ proc[p].pc = "rename" /\ Editing(p)
      /\ inode \in [Inodes -> D!Lists] /\ path \in Inodes /\ tmp \in Inodes \cup {NoFile}
  BY DEF Rename, Editing, Consistent, TypeOK
<1> DEFINE y == [Idle EXCEPT !.pc = "unlock"]
<1>2. y \in Lines /\ y.pc = "unlock" BY <1>1, LineSteps
<1> HIDE DEF y
<1>3. proc' = [proc EXCEPT ![p] = y] /\ UNCHANGED <<userMutex, rechecking, known>> BY DEF Rename, y
<1>4. CASE UNCHANGED <<path, tmp, inode, notified, watch>>
  <2>1. UNCHANGED <<files, main>> BY <1>3, <1>4 DEF files, main
  <2>2. proc' \in [Procs -> Lines] /\ ListsCurrent' /\ TmpOwned' /\ WatchKept' /\ RightsTracked'
    BY <2>1, <1>2, <1>3, QuietStep
  <2>3. OneEditor' BY <1>1, <1>2, <1>3, StillOneEditor
  <2>4. TypeOK' BY <2>1, <2>2, <1>3 DEF Consistent, TypeOK, files, main
  <2> QED BY <2>2, <2>3, <2>4 DEF Consistent
<1>5. CASE /\ tmp # NoFile
           /\ path' = tmp /\ tmp' = NoFile
           /\ inode' = [inode EXCEPT ![path] = D!Empty]
           /\ notified' = (notified \/ watch = path)
           /\ watch' = IF watch = path THEN NoFile ELSE watch
  <2>1. inode' \in [Inodes -> D!Lists] BY <1>1, <1>5, EmptyList
  <2>2. tmp' # path' BY <1>1, <1>5, UserFileAssumption
  <2>3. proc' \in [Procs -> Lines] /\ OneEditor' /\ ListsCurrent' /\ TmpOwned'
    BY <2>2, <1>1, <1>2, <1>3, EditorStep
  <2>4. TypeOK' BY <2>1, <2>3, <1>1, <1>3, <1>5 DEF Consistent, TypeOK
  <2>5. WatchKept' /\ RightsTracked' BY <1>5 DEF Consistent, WatchKept, RightsTracked
  <2> QED BY <2>3, <2>4, <2>5 DEF Consistent
<1> QED BY <1>4, <1>5 DEF Rename

(* Unlocking ends an edit.                                                 *)
LEMMA UnlockStep ==
  ASSUME Consistent, NEW p \in Procs, Unlock(p)
  PROVE  Consistent'
<1>1. proc[p] \in Lines /\ proc[p].pc = "unlock" /\ Editing(p)
  BY DEF Unlock, Editing, Consistent, TypeOK
<1> DEFINE y == Idle
<1>2. y \in Lines /\ y.pc = "idle" BY <1>1, LineSteps
<1>3. /\ proc' = [proc EXCEPT ![p] = y] /\ UNCHANGED <<files, main>>
      /\ userMutex' = userMutex \/ (userMutex = p /\ userMutex' = Nobody)
  BY DEF Unlock
<1> HIDE DEF y
<1>4. proc' \in [Procs -> Lines] /\ ListsCurrent' /\ TmpOwned' /\ WatchKept' /\ RightsTracked'
  BY <1>2, <1>3, QuietStep
<1>5. OneEditor' BY <1>1, <1>2, <1>3, StillOneEditor
<1>6. TypeOK' BY <1>3, <1>4 DEF Consistent, TypeOK, files, main
<1> QED BY <1>4, <1>5, <1>6 DEF Consistent

(* Killing kasmvncpasswd leaves a temporary file at most.                  *)
LEMMA KillStep ==
  ASSUME Consistent, NEW p \in Procs, Kill(p)
  PROVE  Consistent'
<1> DEFINE y == Idle
<1>1. proc[p] \in Lines BY DEF Consistent, TypeOK
<1>2. y \in Lines /\ y.pc = "idle" BY <1>1, LineSteps
<1>3. proc' = [proc EXCEPT ![p] = y] /\ UNCHANGED <<userMutex, files, main>> BY DEF Kill
<1> HIDE DEF y
<1>4. proc' \in [Procs -> Lines] /\ ListsCurrent' /\ TmpOwned' /\ WatchKept' /\ RightsTracked'
  BY <1>2, <1>3, QuietStep
<1>5. \A q \in Procs : proc'[q] = IF q = p THEN y ELSE proc[q] BY <1>3 DEF Consistent, TypeOK
<1>6. OneEditor' BY <1>2, <1>3, <1>5 DEF Consistent, OneEditor, Editing, Procs
<1>7. TypeOK' BY <1>3, <1>4 DEF Consistent, TypeOK, files, main
<1> QED BY <1>4, <1>6, <1>7 DEF Consistent

(* The server dies and starts again: what it had not renamed is forgotten. *)
LEMMA CrashStep ==
  ASSUME Consistent, Crash
  PROVE  Consistent'
<1>1. UNCHANGED <<path, tmp, inode>> /\ userMutex' = Nobody BY DEF Crash, files
<1>2. Idle \in Lines /\ Idle.pc = "idle" BY DEF Idle, Lines
<1>3. \A q \in Procs : proc'[q] = IF q \in Threads THEN Idle ELSE proc[q] BY DEF Crash
<1>4. proc' \in [Procs -> Lines] BY <1>2 DEF Crash, Consistent, TypeOK
<1>5. TypeOK' BY <1>1, <1>4 DEF Crash, Consistent, TypeOK
<1>6. OneEditor' BY <1>2, <1>3, UserFileAssumption DEF Consistent, OneEditor, Editing, Procs
<1>7. ListsCurrent' BY <1>1, <1>2, <1>3 DEF Consistent, ListsCurrent
<1>8. TmpOwned' BY <1>1, <1>2, <1>3 DEF Consistent, TmpOwned
<1>9. WatchKept' /\ RightsTracked' BY <1>1 DEF Crash, WatchKept, RightsTracked
<1> QED BY <1>5, <1>6, <1>7, <1>8, <1>9 DEF Consistent

(* The main thread: the watch is renewed before the file is read.          *)
LEMMA MainStep ==
  ASSUME Consistent, ReadEvents \/ RecheckPerms
  PROVE  Consistent'
<1>1. UNCHANGED <<userMutex, proc, path, tmp, inode>> BY DEF ReadEvents, RecheckPerms, files
<1>2. TypeOK' BY <1>1 DEF ReadEvents, RecheckPerms, Consistent, TypeOK
<1>3. OneEditor' /\ ListsCurrent' /\ TmpOwned'
  BY <1>1 DEF Consistent, OneEditor, ListsCurrent, TmpOwned, Editing
<1>4. WatchKept' BY <1>1 DEF ReadEvents, RecheckPerms, Consistent, WatchKept
<1>5. RightsTracked' BY <1>1 DEF ReadEvents, RecheckPerms, Consistent, RightsTracked
<1> QED BY <1>2, <1>3, <1>4, <1>5 DEF Consistent

-----------------------------------------------------------------------------
(* A new server finds a file and watches it.                               *)
LEMMA ConsistentInit ==
  ASSUME Init
  PROVE  Consistent
<1>1. PICK list \in D!Lists : inode = [i \in Inodes |-> IF i = path THEN list ELSE D!Empty] BY DEF Init
<1>2. path \in Inodes /\ tmp = NoFile /\ watch = path /\ known \in {inode[path], NoFile}
  BY DEF Init
<1>3. inode \in [Inodes -> D!Lists] BY <1>1, EmptyList
<1>4. Idle \in Lines /\ Idle.pc = "idle" BY DEF Idle, Lines
<1>5. proc \in [Procs -> Lines] /\ \A p \in Procs : proc[p].pc = "idle" BY <1>4 DEF Init
<1>6. TypeOK BY <1>2, <1>3, <1>5 DEF Init, TypeOK
<1>7. OneEditor /\ ListsCurrent BY <1>5 DEF OneEditor, ListsCurrent, Editing, Procs
<1>8. TmpOwned BY <1>2, <1>5, UserFileAssumption DEF TmpOwned
<1>9. WatchKept /\ RightsTracked BY <1>2 DEF WatchKept, RightsTracked
<1> QED BY <1>6, <1>7, <1>8, <1>9 DEF Consistent

(* Every step keeps the files consistent.                                  *)
LEMMA ConsistentNext ==
  ASSUME ToolsAlone, Consistent, [Next]_vars
  PROVE  Consistent'
<1>1. CASE UNCHANGED vars
  BY <1>1 DEF vars, Consistent, TypeOK, OneEditor, Editing, ListsCurrent, TmpOwned, WatchKept, RightsTracked
<1>2. CASE Next
  <2>1. ASSUME NEW p \in Procs, Call(p) \/ Step(p) \/ WritePart(p) \/ Kill(p) PROVE Consistent'
    BY <2>1, CallStep, LockStep, ReadStep, OpenStep, WriteStep, RenameStep, UnlockStep,
       WritePartStep, KillStep DEF Step
  <2>2. CASE Crash BY <2>2, CrashStep
  <2>3. CASE ReadEvents \/ RecheckPerms BY <2>3, MainStep
  <2> QED BY <2>1, <2>2, <2>3, <1>2 DEF Next
<1> QED BY <1>1, <1>2

(* If kasmvncpasswd is run alone, the files are consistent at any time.    *)
THEOREM FilesConsistent ==
  ASSUME ToolsAlone
  PROVE  Spec => []Consistent
<1>1. Init => Consistent BY ConsistentInit
<1>2. Consistent /\ [Next]_vars => Consistent' BY ConsistentNext
<1> QED BY <1>1, <1>2, PTL DEF Spec

(* A change of the file is never missed by the main thread, however often  *)
(* the file is renamed: the rights in force come from it, or a check is on *)
(* its way; where the file could not be read nobody has any.               *)
THEOREM RightsFollow ==
  ASSUME ToolsAlone
  PROVE  Spec => []RightsTracked
<1>1. Consistent => RightsTracked BY DEF Consistent
<1> QED BY <1>1, FilesConsistent, PTL

(* While an editor renames, failing tells how its edit has gone.           *)
LEMMA FailingRename ==
  ASSUME Consistent, NEW p \in Procs, Rename(p)
  PROVE  (Failing <=> ~proc[p].intact) /\ ~Failing'
<1>1. proc[p].pc = "rename" /\ Editing(p) BY DEF Rename, Editing
<1>2. \A q \in Procs : q # p => proc[q].pc \notin {"open", "write", "rename"}
  BY <1>1, OthersAway
<1>3. \A q \in Procs : proc'[q].pc \notin {"open", "write", "rename"}
  <2>1. proc' = [proc EXCEPT ![p] = [Idle EXCEPT !.pc = "unlock"]] BY DEF Rename
  <2>2. [Idle EXCEPT !.pc = "unlock"].pc = "unlock" BY DEF Idle
  <2> QED BY <2>1, <2>2, <1>2 DEF Consistent, TypeOK
<1> QED BY <1>1, <1>2, <1>3 DEF Failing

(* Only a rename changes the password file, and it puts the one request of *)
(* its editor into effect, or what a failure has left of it.               *)
LEMMA StepImplements ==
  ASSUME Consistent, [Next]_vars
  PROVE  [D!Next]_<<inode[path], Failing>>
<1>1. /\ inode \in [Inodes -> D!Lists] /\ path \in Inodes /\ tmp \in Inodes \cup {NoFile}
      /\ tmp # path
  BY DEF Consistent, TypeOK, TmpOwned
<1>2. ASSUME NEW p \in Procs, Rename(p), path' # path PROVE D!Next
  <2> DEFINE r == proc[p].req
  <2>1. proc[p] \in Lines /\ proc[p].pc = "rename" BY <1>2 DEF Rename, Consistent, TypeOK
  <2>2. r \in D!Request BY <2>1, LineFacts, UserFileAssumption
  <2>3. path' = tmp /\ inode' = [inode EXCEPT ![path] = D!Empty] BY <1>2 DEF Rename
  <2>4. inode'[path'] = inode[tmp] BY <2>3, <1>1, <1>2
  <2>5. PICK base \in {inode[path], D!Empty} :
          /\ D!Possible(base, r) /\ proc[p].set = D!Apply(base, r)
          /\ proc[p].intact => base = inode[path]
    BY <2>1 DEF Consistent, ListsCurrent, Applied
  <2>6. /\ inode[tmp] \in D!Remains(proc[p].set)
        /\ proc[p].intact => inode[tmp] = proc[p].set
    BY <2>1 DEF Consistent, TmpOwned
  <2>7. (Failing <=> ~proc[p].intact) /\ ~Failing' BY <1>2, FailingRename
  <2> HIDE DEF r
  <2>8. CASE proc[p].intact
    <3>1. ~Failing /\ Failing' = Failing BY <2>7, <2>8 DEF Failing
    <3>2. D!Possible(inode[path], r) /\ inode'[path'] = D!Apply(inode[path], r)
      BY <2>4, <2>5, <2>6, <2>8
    <3> QED BY <3>1, <3>2, <2>2 DEF D!Next, D!Edit
  <2>9. CASE ~proc[p].intact
    <3>1. Failing /\ Failing' = FALSE BY <2>7, <2>9 DEF Failing
    <3>2. D!Possible(base, r) /\ inode'[path'] \in D!Remains(D!Apply(base, r))
      BY <2>4, <2>5, <2>6
    <3> QED BY <3>1, <3>2, <2>2 DEF D!Next, D!Lose
  <2> QED BY <2>8, <2>9
<1>3. ASSUME NEW p \in Procs, Rename(p), path' = path PROVE inode'[path'] = inode[path]
  BY <1>1, <1>3 DEF Rename
<1>4. ASSUME NEW p \in Procs, Open(p) PROVE inode'[path'] = inode[path]
  <2>1. path' = path BY <1>4 DEF Open
  <2>2. CASE inode' = inode BY <2>1, <2>2
  <2>3. CASE inode' # inode
    <3>1. PICK i \in IF tmp = NoFile THEN Inodes \ InUse ELSE {tmp} : inode' = [inode EXCEPT ![i] = D!Empty]
      BY <1>4, <2>3 DEF Open
    <3>2. i # path BY <1>1 DEF InUse
    <3> QED BY <3>1, <3>2, <2>1, <1>1
  <2> QED BY <2>2, <2>3
<1>5. ASSUME NEW p \in Procs, Write(p) \/ WritePart(p) PROVE inode'[path'] = inode[path]
  <2>1. proc[p].fd = tmp /\ path' = path BY <1>5 DEF Write, WritePart, Consistent, TmpOwned
  <2>2. PICK part \in D!Remains(proc[p].set) : inode' = [inode EXCEPT ![proc[p].fd] = part]
    BY <1>5 DEF Write, WritePart
  <2> QED BY <2>1, <2>2, <1>1
<1>6. UNCHANGED <<inode, path>> => inode'[path'] = inode[path] OBVIOUS
<1>7. ASSUME NEW p \in Procs, Call(p) \/ Lock(p) \/ Read(p) \/ Unlock(p) \/ Kill(p)
      PROVE  UNCHANGED <<inode, path>>
  BY <1>7 DEF Call, Lock, Read, Unlock, Kill, files
<1>8. Crash \/ ReadEvents \/ RecheckPerms \/ UNCHANGED vars => UNCHANGED <<inode, path>>
  BY DEF Crash, ReadEvents, RecheckPerms, vars, files
<1>9. CASE inode'[path'] = inode[path]
  <2>1. Failing' \in BOOLEAN BY DEF Failing
  <2> QED BY <1>9, <2>1 DEF D!Next, D!Fail
<1> QED BY <1>2, <1>3, <1>4, <1>5, <1>6, <1>7, <1>8, <1>9 DEF Next, Step

(* If kasmvncpasswd is run alone, the password file implements the user    *)
(* list: every change is one whole request, applied to what the requests   *)
(* before it have left, whoever dies and whenever a temporary file cannot  *)
(* be opened or renamed; an edit that could not read the file or write all *)
(* of it takes users or rights away at worst, and is the only one that may. *)
THEOREM FileIsAtomic ==
  ASSUME ToolsAlone
  PROVE  Spec => FileAtomic
<1>1. Init => D!Init
  <2>1. Consistent => inode[path] \in D!Lists BY DEF Consistent, TypeOK
  <2>2. Init => Failing = FALSE BY DEF Init, Idle, Failing
  <2> QED BY <2>1, <2>2, ConsistentInit DEF D!Init
<1>2. Consistent /\ [Next]_vars => [D!Next]_<<inode[path], Failing>> BY StepImplements
<1> QED BY <1>1, <1>2, FilesConsistent, PTL DEF Spec, FileAtomic, D!Spec

-----------------------------------------------------------------------------
(* The mutex, whoever edits beside the threads *)

(* A thread holds the mutex exactly as long as it is between taking and    *)
(* releasing it; the tool knows no mutex.                                  *)
MutexHeld ==
  /\ \A p \in Threads : Editing(p) => userMutex = p
  /\ userMutex # Nobody => userMutex \in Threads /\ Editing(userMutex)
  /\ \A p \in Tools : proc[p].pc # "lock"

(* A step of an editor takes it to a line of the program.                  *)
LEMMA EditorLine ==
  ASSUME TypeOK, NEW p \in Procs, Call(p) \/ Step(p) \/ WritePart(p) \/ Kill(p)
  PROVE  \E y \in Lines : proc' = [proc EXCEPT ![p] = y]
<1>1. proc[p] \in Lines /\ inode[path] \in D!Lists BY DEF TypeOK
<1>2. CASE Call(p) BY <1>2 DEF Call, Lines
<1>3. CASE Lock(p)
  <2>1. proc[p].pc = "lock" /\ proc' = [proc EXCEPT ![p] = [proc[p] EXCEPT !.pc = "read"]]
    BY <1>3, <1>1 DEF Lock, TypeOK
  <2> QED BY <2>1, <1>1, LineSteps
<1>4. CASE Read(p)
  <2>1. PICK list \in {inode[path], D!Empty} : proc' = [proc EXCEPT ![p] = ReadAs(p, list)]
    BY <1>4 DEF Read
  <2> DEFINE r == proc[p].req
             b == list = inode[path]
             y == [pc |-> "open", fd |-> NoFile, req |-> r, set |-> D!Apply(list, r),
                   intact |-> b]
  <2>2. r \in Requests /\ r \in D!Request BY <1>4, <1>1, LineFacts, UserFileAssumption DEF Read
  <2>3. list \in D!Lists /\ b \in BOOLEAN BY <1>1, EmptyList
  <2>4. CASE D!Possible(list, r)
    <3>1. D!Apply(list, r) \in D!Lists BY <2>2, <2>3, <2>4, ApplyType
    <3>3. ReadAs(p, list) = y BY <2>4 DEF ReadAs
    <3> HIDE DEF b
    <3>2. y \in Lines BY <3>1, <2>2, <2>3 DEF Lines
    <3> QED BY <2>1, <3>2, <3>3
  <2>5. CASE ~D!Possible(list, r)
    BY <2>1, <2>5, LineSteps, <1>1 DEF ReadAs
  <2> QED BY <2>4, <2>5
<1>5. CASE Open(p)
  <2>1. CASE proc' = [proc EXCEPT ![p] = [Idle EXCEPT !.pc = "unlock"]] BY <2>1, <1>1, LineSteps
  <2>2. ASSUME NEW i \in IF tmp = NoFile THEN Inodes \ InUse ELSE {tmp},
               proc' = [proc EXCEPT ![p].pc = "write", ![p].fd = i]
        PROVE  \E y \in Lines : proc' = [proc EXCEPT ![p] = y]
    <3> DEFINE y == [proc[p] EXCEPT !.pc = "write", !.fd = i]
    <3>1. i \in Inodes BY DEF TypeOK
    <3>2. proc[p].pc = "open" BY <1>5 DEF Open
    <3>3. y \in Lines BY <3>1, <3>2, <1>1 DEF Lines
    <3>4. proc' = [proc EXCEPT ![p] = y] BY <2>2, <1>1 DEF TypeOK
    <3> QED BY <3>3, <3>4
  <2> QED BY <2>1, <2>2, <1>5 DEF Open
<1>6. CASE Write(p)
  <2>1. PICK part \in D!Remains(proc[p].set) :
          proc' = [proc EXCEPT ![p].pc = "rename", ![p].fd = NoFile,
                               ![p].intact = proc[p].intact /\ part = proc[p].set]
    BY <1>6 DEF Write
  <2> DEFINE b == proc[p].intact /\ part = proc[p].set
  <2>2. proc' = [proc EXCEPT ![p] = Written(proc[p], b)] BY <2>1 DEF TypeOK, Written
  <2>3. proc[p].pc = "write" /\ b \in BOOLEAN BY <1>6 DEF Write
  <2> HIDE DEF b
  <2> QED BY <2>2, <2>3, <1>1, LineSteps
<1>7. CASE Rename(p) BY <1>7, <1>1, LineSteps DEF Rename
<1>8. CASE Unlock(p) \/ Kill(p) BY <1>8, <1>1, LineSteps DEF Unlock, Kill
<1>9. CASE WritePart(p)
  <2>1. proc' = [proc EXCEPT ![p] = proc[p]] BY <1>9 DEF WritePart, TypeOK
  <2> QED BY <2>1, <1>1
<1> QED BY <1>2, <1>3, <1>4, <1>5, <1>6, <1>7, <1>8, <1>9 DEF Step

(* What an editor writes is a list or a part of one, cut off by a crash.   *)
LEMMA InodesType ==
  ASSUME TypeOK, NEW p \in Procs, Call(p) \/ Step(p) \/ WritePart(p) \/ Kill(p)
  PROVE  inode' \in [Inodes -> D!Lists]
<1>1. proc[p] \in Lines /\ inode \in [Inodes -> D!Lists] BY DEF TypeOK
<1>2. CASE Open(p)
  <2>1. ASSUME NEW i, inode' = [inode EXCEPT ![i] = D!Empty] PROVE inode' \in [Inodes -> D!Lists]
    BY <2>1, <1>1, EmptyList
  <2> QED BY <2>1, <1>1, <1>2 DEF Open
<1>3. CASE Write(p) \/ WritePart(p)
  <2>1. PICK part \in D!Remains(proc[p].set) : inode' = [inode EXCEPT ![proc[p].fd] = part]
    BY <1>3 DEF Write, WritePart
  <2>2. proc[p].set \in D!Lists BY <1>3, <1>1, LineFacts DEF Write, WritePart
  <2>3. part \in D!Lists BY <2>2, RemainsType
  <2> QED BY <2>1, <2>3, <1>1
<1>5. CASE Rename(p) BY <1>5, <1>1, EmptyList DEF Rename
<1>6. CASE Call(p) \/ Lock(p) \/ Read(p) \/ Unlock(p) \/ Kill(p)
  BY <1>6, <1>1 DEF Call, Lock, Read, Unlock, Kill, files
<1> QED BY <1>2, <1>3, <1>5, <1>6 DEF Step

(* Every step keeps the types, even if the tool edits beside the threads.  *)
LEMMA TypeNext ==
  ASSUME TypeOK, MutexHeld, [Next]_vars
  PROVE  TypeOK'
<1>1. CASE UNCHANGED vars BY <1>1 DEF vars, TypeOK
<1>2. ASSUME NEW p \in Procs, Call(p) \/ Step(p) \/ WritePart(p) \/ Kill(p) PROVE TypeOK'
  <2>1. proc' \in [Procs -> Lines] BY <1>2, EditorLine DEF TypeOK
  <2>2. inode' \in [Inodes -> D!Lists] BY <1>2, InodesType
  <2>3. userMutex' \in Threads \cup {Nobody}
    <3>1. Lock(p) => p \in Threads BY DEF Lock, MutexHeld, Procs
    <3> QED BY <3>1, <1>2 DEF Call, Step, Lock, Read, Open, Write, Rename, Unlock, WritePart, Kill, TypeOK
  <2>4. path' \in Inodes /\ tmp' \in Inodes \cup {NoFile}
    BY <1>2 DEF Call, Step, Lock, Read, Open, Write, Rename, Unlock, WritePart, Kill, files, TypeOK
  <2>5. /\ watch' \in Inodes \cup {NoFile} /\ notified' \in BOOLEAN
        /\ rechecking' \in BOOLEAN /\ known' \in D!Lists \cup {NoFile}
    BY <1>2 DEF Call, Step, Lock, Read, Open, Write, Rename, Unlock, WritePart, Kill, main, TypeOK
  <2> QED BY <2>1, <2>2, <2>3, <2>4, <2>5 DEF TypeOK
<1>3. CASE Crash
  <2>1. proc' \in [Procs -> Lines] BY <1>3 DEF Crash, TypeOK, Idle, Lines
  <2> QED BY <2>1, <1>3 DEF Crash, files, TypeOK
<1>4. CASE ReadEvents \/ RecheckPerms
  BY <1>4 DEF ReadEvents, RecheckPerms, files, TypeOK
<1> QED BY <1>1, <1>2, <1>3, <1>4 DEF Next

(* Only Lock and Unlock touch the mutex; the other steps of a thread keep  *)
(* it between the two, or outside of them.                                 *)
LEMMA HeldNext ==
  ASSUME TypeOK, MutexHeld, [Next]_vars
  PROVE  MutexHeld'
<1> USE DEF MutexHeld, Editing
<1>1. CASE UNCHANGED <<proc, userMutex>> BY <1>1
<1>2. ASSUME NEW p \in Procs, Call(p) \/ Step(p) \/ WritePart(p) \/ Kill(p) PROVE MutexHeld'
  <2>1. PICK y \in Lines : proc' = [proc EXCEPT ![p] = y] BY <1>2, EditorLine
  <2>2. \A q \in Procs : proc'[q] = IF q = p THEN y ELSE proc[q] BY <2>1 DEF TypeOK
  <2>3. p \in Threads \/ p \in Tools BY DEF Procs
  <2>4. Threads \subseteq Procs /\ Tools \subseteq Procs /\ Threads \cap Tools = {} /\ Nobody \notin Procs
    BY UserFileAssumption DEF Procs
  <2>5. proc[p] \in Lines BY DEF TypeOK
  <2>6. y = proc'[p] BY <2>2
  <2>12. Idle.pc = "idle" /\ [Idle EXCEPT !.pc = "unlock"].pc = "unlock" BY DEF Idle
  <2>7. CASE Call(p)
    <3>1. y.pc = IF p \in Threads THEN "lock" ELSE "read" BY <2>7, <2>6 DEF Call, TypeOK
    <3>2. proc[p].pc = "idle" /\ userMutex' = userMutex BY <2>7 DEF Call
    <3> QED BY <3>1, <3>2, <2>2, <2>3, <2>4
  <2>8. CASE Lock(p)
    <3>1. proc[p].pc = "lock" /\ userMutex = Nobody /\ userMutex' = p BY <2>8 DEF Lock
    <3>2. y.pc = "read"
      <4>1. y = [proc[p] EXCEPT !.pc = "read"] BY <2>8, <2>6 DEF Lock, TypeOK
      <4> QED BY <4>1, <3>1, <2>5, LineSteps
    <3>3. p \in Threads BY <3>1, <2>3
    <3> QED BY <3>1, <3>2, <3>3, <2>2, <2>4
  <2>9. CASE Read(p) \/ Open(p) \/ Write(p) \/ Rename(p) \/ WritePart(p)
    <3>1. proc[p].pc \in {"read", "open", "write", "rename"} /\ userMutex' = userMutex
      BY <2>9 DEF Read, Open, Write, Rename, WritePart
    <3>2. y.pc \in {"open", "write", "rename", "unlock"}
      <4>1. CASE Read(p) BY <4>1, <2>6 DEF Read, ReadAs, TypeOK
      <4>2. CASE Open(p)
        <5>1. CASE proc' = [proc EXCEPT ![p] = [Idle EXCEPT !.pc = "unlock"]]
          BY <5>1, <2>6, <2>12 DEF TypeOK
        <5>2. ASSUME NEW i, proc' = [proc EXCEPT ![p].pc = "write", ![p].fd = i] PROVE y.pc = "write"
          <6>1. y = [proc[p] EXCEPT !.pc = "write", !.fd = i] BY <5>2, <2>6 DEF TypeOK
          <6> QED BY <6>1, <2>5 DEF Lines
        <5> QED BY <5>1, <5>2, <4>2 DEF Open
      <4>3. CASE Write(p)
        <5>1. PICK part \in D!Remains(proc[p].set) :
                 proc' = [proc EXCEPT ![p].pc = "rename", ![p].fd = NoFile,
                                     ![p].intact = proc[p].intact /\ part = proc[p].set]
          BY <4>3 DEF Write
        <5> DEFINE b == proc[p].intact /\ part = proc[p].set
        <5>2. y = Written(proc[p], b) BY <5>1, <2>6 DEF TypeOK, Written
        <5>3. b \in BOOLEAN /\ proc[p].pc = "write" BY <4>3 DEF Write
        <5> HIDE DEF b
        <5> QED BY <5>2, <5>3, <2>5, LineSteps
      <4>4. CASE Rename(p) BY <4>4, <2>6, <2>12 DEF Rename, TypeOK
      <4>5. CASE WritePart(p) BY <4>5, <2>6 DEF WritePart
      <4> QED BY <4>1, <4>2, <4>3, <4>4, <4>5, <2>9
    <3> QED BY <3>1, <3>2, <2>2, <2>3, <2>4
  <2>10. CASE Unlock(p)
    <3>1. /\ proc[p].pc = "unlock"
          /\ userMutex' = IF userMutex = p THEN Nobody ELSE userMutex
      BY <2>10 DEF Unlock
    <3>2. y.pc = "idle" BY <2>10, <2>6, <2>12 DEF Unlock, TypeOK
    <3> QED BY <3>1, <3>2, <2>2, <2>3, <2>4
  <2>11. CASE Kill(p)
    <3>1. p \in Tools /\ userMutex' = userMutex BY <2>11 DEF Kill
    <3>2. y.pc = "idle" BY <2>11, <2>6, <2>12 DEF Kill, TypeOK
    <3> QED BY <3>1, <3>2, <2>2, <2>3, <2>4
  <2> QED BY <1>2, <2>7, <2>8, <2>9, <2>10, <2>11 DEF Step
<1>3. CASE Crash
  <2>1. Idle.pc = "idle" BY DEF Idle
  <2>2. \A q \in Procs : proc'[q] = IF q \in Threads THEN Idle ELSE proc[q] BY <1>3 DEF Crash
  <2> QED BY <2>1, <2>2, <1>3, UserFileAssumption DEF Crash, Procs
<1>4. CASE ReadEvents \/ RecheckPerms BY <1>1, <1>4 DEF ReadEvents, RecheckPerms
<1> QED BY <1>1, <1>2, <1>3, <1>4 DEF Next, vars

(* At the start nobody edits and nobody has the mutex.                     *)
LEMMA HeldInit ==
  ASSUME Init
  PROVE  MutexHeld
<1>1. \A q \in Procs : proc[q].pc = "idle" BY DEF Init, Idle
<1> QED BY <1>1 DEF Init, MutexHeld, Editing, Procs

(* Whoever edits at the same time, a mutex that is taken belongs to a      *)
(* thread that is on its way to releasing it: no early return, failed      *)
(* write or crash leaves it locked with nobody to unlock it, while the     *)
(* main thread and every other API call wait for it (netAddUser and the    *)
(* other calls of GetAPIMessager).                                         *)
THEOREM MutexNeverOrphaned == Spec => [](TypeOK /\ MutexHeld)
<1>1. Init => TypeOK /\ MutexHeld
  <2>1. Init => TypeOK BY ConsistentInit DEF Consistent
  <2> QED BY <2>1, HeldInit
<1>2. TypeOK /\ MutexHeld /\ [Next]_vars => (TypeOK /\ MutexHeld)' BY TypeNext, HeldNext
<1> QED BY <1>1, <1>2, PTL DEF Spec

(* Every variable keeps its type, files and editors included, even if the  *)
(* tool edits beside the threads.                                          *)
THEOREM TypeCorrect == Spec => []TypeOK
<1>1. TypeOK /\ MutexHeld => TypeOK OBVIOUS
<1> QED BY <1>1, MutexNeverOrphaned, PTL
=============================================================================
