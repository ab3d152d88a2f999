------------------------------ MODULE UserFile ------------------------------
(* The password file and those who edit it: threads of the web server, on  *)
(* behalf of API calls and under a mutex, and the program kasmvncpasswd,   *)
(* without one.  Each reads the file, changes the list in memory, writes   *)
(* it to a temporary file and renames that file, and goes on when opening  *)
(* or writing fails.  The main thread learns of the change by inotify and  *)
(* reads the rights again.                                                 *)
CONSTANTS
  Threads,   \* threads of the web server
  Tools,     \* running copies of kasmvncpasswd
  ToolsAlone,  \* kasmvncpasswd is run only while nobody else edits
  Inodes, NoFile, Nobody,
  Users, Passwords, Flags,
  Requests   \* what is asked for

Procs == Threads \cup Tools

VARIABLES
  userMutex,   \* the thread that holds it, or Nobody
  proc,        \* per editor: where it is, its request, its list, its open
               \* file; intact is a ghost: nothing has failed so far
  path,        \* the inode of the password file
  tmp,         \* the inode of the temporary file, or NoFile
  inode,       \* what the inodes contain
  watch,       \* the inode that inotify watches, or NoFile
  notified,    \* an event is waiting to be read
  rechecking,  \* permcheck: the frame has yet to read the rights
  known        \* the list that the rights in force come from, or NoFile:
               \* nobody has any, because the file could not be read
vars == <<userMutex, proc, path, tmp, inode, watch, notified, rechecking, known>>
files == <<path, tmp, inode>>
main == <<watch, notified, rechecking, known>>

Failing ==
  \E p \in Procs : proc[p].pc \in {"open", "write", "rename"} /\ ~proc[p].intact

D == INSTANCE UserDb WITH db <- inode[path], failing <- Failing

ASSUME UserFileAssumption ==
  /\ NoFile \notin Inodes /\ Nobody \notin Procs
  /\ Threads \cap Tools = {} /\ ToolsAlone \in BOOLEAN
  /\ Requests \subseteq D!Request

Idle == [pc |-> "idle", fd |-> NoFile]

-----------------------------------------------------------------------------
(* Nothing keeps kasmvncpasswd from running beside the server's threads,   *)
(* unless whoever starts it sees to that (ToolsAlone).                     *)
Alone(p) ==
  \A q \in Procs : proc[q].pc # "idle" => p \notin Tools /\ q \notin Tools

(* netAddUser, netRemoveUser, netUpdateUser and netAddOrUpdateUser differ  *)
(* in their request only.  A batch of users is a sequence of requests.     *)
Call(p) ==
  /\ proc[p].pc = "idle" /\ (ToolsAlone => Alone(p))
  /\ \E r \in Requests : proc' = [proc EXCEPT ![p] =
       [pc |-> IF p \in Threads THEN "lock" ELSE "read", fd |-> NoFile, req |-> r]]
  /\ UNCHANGED <<userMutex, files, main>>

(* Seeded fault: the mutex is taken without waiting.                       *)
LockBusy(p) ==
  /\ proc[p].pc = "lock"
  /\ userMutex' = p
  /\ proc' = [proc EXCEPT ![p].pc = "read"]
  /\ UNCHANGED <<files, main>>

Lock(p) ==
  /\ proc[p].pc = "lock" /\ userMutex = Nobody
  /\ userMutex' = p
  /\ proc' = [proc EXCEPT ![p].pc = "read"]
  /\ UNCHANGED <<files, main>>

(* Where an editor goes on when it has taken the file for this list.       *)
ReadAs(p, list) ==
  LET r == proc[p].req IN
  IF D!Possible(list, r)
  THEN [pc |-> "open", fd |-> NoFile, req |-> r, set |-> D!Apply(list, r),
        intact |-> list = inode[path]]
  ELSE [pc |-> "unlock", fd |-> NoFile]

(* Seeded fault: a request that is not possible returns with the mutex.    *)
ReadLeaving(p) ==
  /\ proc[p].pc = "read"
  /\ \E list \in {inode[path], D!Empty} :
       proc' = [proc EXCEPT ![p] = IF ReadAs(p, list).pc = "unlock" THEN Idle
                                   ELSE ReadAs(p, list)]
  /\ UNCHANGED <<userMutex, files, main>>

(* readkasmpasswd and the change of the list in memory; a request that is  *)
(* not possible goes no further.  A file that cannot be opened is taken    *)
(* for an empty one.                                                       *)
Read(p) ==
  /\ proc[p].pc = "read"
  /\ \E list \in {inode[path], D!Empty} :
       proc' = [proc EXCEPT ![p] = ReadAs(p, list)]
  /\ UNCHANGED <<userMutex, files, main>>

(* writekasmpasswd, first step: the temporary file is created or cut to    *)
(* nothing.  If that fails nobody is told.                                 *)
InUse == {path, tmp, watch} \cup {proc[p].fd : p \in Procs}

Open(p) ==
  /\ proc[p].pc = "open"
  /\ \/ \E i \in IF tmp = NoFile THEN Inodes \ InUse ELSE {tmp} :
          /\ tmp' = i
          /\ inode' = [inode EXCEPT ![i] = D!Empty]
          /\ proc' = [proc EXCEPT ![p].pc = "write", ![p].fd = i]
     \/ /\ proc' = [proc EXCEPT ![p] = [Idle EXCEPT !.pc = "unlock"]]
        /\ UNCHANGED <<tmp, inode>>
  /\ UNCHANGED <<userMutex, path, main>>

(* A part of the list is written when the buffer of the stream is full,    *)
(* the rest when the stream is closed.                                     *)
WritePart(p) ==
  /\ proc[p].pc = "write"
  /\ \E part \in D!Remains(proc[p].set) :
       inode' = [inode EXCEPT ![proc[p].fd] = part]
  /\ UNCHANGED <<userMutex, proc, path, tmp, main>>

(* fprintf, fsync and fclose may fail, and nobody looks.                   *)
Write(p) ==
  /\ proc[p].pc = "write"
  /\ \E part \in D!Remains(proc[p].set) :
       /\ inode' = [inode EXCEPT ![proc[p].fd] = part]
       /\ proc' = [proc EXCEPT ![p].pc = "rename", ![p].fd = NoFile,
                               ![p].intact = proc[p].intact /\ part = proc[p].set]
  /\ notified' = (notified \/ watch = proc[p].fd)
  /\ UNCHANGED <<userMutex, path, tmp, watch, rechecking, known>>

(* The new file takes the place of the old one, which is deleted, and the  *)
(* watch with it.  The rename fails if there is no temporary file, and may *)
(* fail anyway; nobody is told.                                            *)
Rename(p) ==
  /\ proc[p].pc = "rename"
  /\ proc' = [proc EXCEPT ![p] = [Idle EXCEPT !.pc = "unlock"]]
  /\ \/ /\ tmp # NoFile
        /\ path' = tmp /\ tmp' = NoFile
        /\ inode' = [inode EXCEPT ![path] = D!Empty]
        /\ notified' = (notified \/ watch = path)
        /\ watch' = IF watch = path THEN NoFile ELSE watch
     \/ UNCHANGED <<path, tmp, inode, notified, watch>>
  /\ UNCHANGED <<userMutex, rechecking, known>>

Unlock(p) ==
  /\ proc[p].pc = "unlock"
  /\ userMutex' = IF userMutex = p THEN Nobody ELSE userMutex
  /\ proc' = [proc EXCEPT ![p] = Idle]
  /\ UNCHANGED <<files, main>>

Step(p) == Lock(p) \/ Read(p) \/ Open(p) \/ Write(p) \/ Rename(p) \/ Unlock(p)

(* kasmvncpasswd is killed; the server dies and is started again.  What    *)
(* they have written stays.                                                *)
Kill(p) ==
  /\ p \in Tools /\ proc[p] # Idle
  /\ proc' = [proc EXCEPT ![p] = Idle]
  /\ UNCHANGED <<userMutex, files, main>>

Crash ==
  /\ proc' = [p \in Procs |-> IF p \in Threads THEN Idle ELSE proc[p]]
  /\ userMutex' = Nobody
  /\ watch' = path /\ notified' = FALSE
  /\ rechecking' = FALSE /\ known' \in {inode[path], NoFile}
  /\ UNCHANGED files

-----------------------------------------------------------------------------
(* Seeded fault: the watch is not renewed when its file was deleted.       *)
ReadEventsOnce ==
  /\ notified /\ ~rechecking
  /\ notified' = FALSE /\ rechecking' = TRUE
  /\ UNCHANGED <<userMutex, proc, files, watch, known>>

(* VNCServerST::writeUpdate reads the events, renews the watch and only    *)
(* then has the clients read the file (recheckPerms, getPerms).  If it     *)
(* cannot be opened the user is not found.                                 *)
ReadEvents ==
  /\ notified /\ ~rechecking
  /\ notified' = FALSE /\ rechecking' = TRUE
  /\ watch' = IF watch = NoFile THEN path ELSE watch
  /\ UNCHANGED <<userMutex, proc, files, known>>

RecheckPerms ==
  /\ rechecking
  /\ rechecking' = FALSE /\ known' \in {inode[path], NoFile}
  /\ UNCHANGED <<userMutex, proc, files, watch, notified>>

Init ==
  /\ userMutex = Nobody
  /\ proc = [p \in Procs |-> Idle]
  /\ path \in Inodes /\ tmp = NoFile
  /\ \E list \in D!Lists : inode = [i \in Inodes |-> IF i = path THEN list ELSE D!Empty]
  /\ watch = path /\ notified = FALSE
  /\ rechecking = FALSE /\ known \in {inode[path], NoFile}

Next ==
  \/ \E p \in Procs : Call(p) \/ Step(p) \/ WritePart(p) \/ Kill(p)
  \/ Crash \/ ReadEvents \/ RecheckPerms

Spec == Init /\ [][Next]_vars /\ \A p \in Procs : WF_vars(Step(p))

-----------------------------------------------------------------------------
(* Every variable has its type.                                            *)
Lines == [pc : {"idle", "unlock"}, fd : {NoFile}]
           \cup [pc : {"lock", "read"}, fd : {NoFile}, req : Requests]
           \cup [pc : {"open", "rename"}, fd : {NoFile}, req : Requests, set : D!Lists,
                 intact : BOOLEAN]
           \cup [pc : {"write"}, fd : Inodes, req : Requests, set : D!Lists,
                 intact : BOOLEAN]
TypeOK ==
  /\ userMutex \in Threads \cup {Nobody}
  /\ proc \in [Procs -> Lines]
  /\ path \in Inodes /\ tmp \in Inodes \cup {NoFile}
  /\ inode \in [Inodes -> D!Lists]
  /\ watch \in Inodes \cup {NoFile}
  /\ notified \in BOOLEAN /\ rechecking \in BOOLEAN
  /\ known \in D!Lists \cup {NoFile}

(* The file changes only by one whole request at a time, applied to what   *)
(* the requests before have left: no edit is lost and nobody ever reads    *)
(* half a list, even if the temporary file cannot be opened or renamed or  *)
(* somebody dies in the middle ("The mutex and atomic rename keep things   *)
(* in sync").  The only exception is an edit of which the reading or the   *)
(* writing itself has failed: it may take users or rights away, but never  *)
(* gives any that were not given, and only that edit may do it.            *)
FileAtomic == D!Spec

(* The rights in force come from the file as it is, or a check is on its   *)
(* way: a change that comes while the last one is being looked at has its  *)
(* own event, because the watch is renewed before the file is read.  If    *)
(* the file could not be read, nobody has any.                             *)
RightsTracked == known \in {inode[path], NoFile} \/ notified \/ rechecking

(* What makes FileAtomic and RightsTracked inductive (UserFileProofs): one *)
(* editor at a time is between reading and renaming, its list is the file  *)
(* (or nothing, if the reading failed) with its request applied, the       *)
(* temporary file is its own, and the watch is on the file or an event is  *)
(* waiting.                                                                *)
Editing(p) == proc[p].pc \in {"read", "open", "write", "rename", "unlock"}
OneEditor ==
  /\ \A p \in Threads : Editing(p) => userMutex = p
  /\ \A p \in Tools : proc[p].pc # "lock"
  /\ \A p \in Tools, q \in Procs : proc[p].pc # "idle" /\ q # p => proc[q].pc = "idle"
Applied(x, list) ==
  \E base \in {list, D!Empty} :
    /\ D!Possible(base, x.req) /\ x.set = D!Apply(base, x.req)
    /\ x.intact => base = list
ListsCurrent ==
  \A p \in Procs : proc[p].pc \in {"open", "write", "rename"} => Applied(proc[p], inode[path])
TmpOwned ==
  /\ tmp # path
  /\ \A p \in Procs : proc[p].pc = "write" => proc[p].fd = tmp
  /\ \A p \in Procs : proc[p].pc = "rename" =>
       /\ tmp # NoFile /\ inode[tmp] \in D!Remains(proc[p].set)
       /\ proc[p].intact => inode[tmp] = proc[p].set
WatchKept == watch \in {path, NoFile} /\ (watch = path \/ notified)
Consistent == TypeOK /\ OneEditor /\ ListsCurrent /\ TmpOwned /\ WatchKept /\ RightsTracked

(* The mutex is given back, whatever a request meets on its way: the main  *)
(* thread takes it in every frame.                                         *)
MutexReleased == userMutex # Nobody ~> userMutex = Nobody
=============================================================================
