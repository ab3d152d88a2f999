------------------------------- MODULE UserDb -------------------------------
(* What the user list of the server promises: every request is applied as  *)
(* a whole, to what the requests before it have left.  An edit whose file  *)
(* operations fail may lose users or rights, and does nothing worse.       *)
CONSTANTS Users, Passwords, Flags

Entry == [pw : Passwords, rights : SUBSET Flags]

(* "create" and "set" are the two forms of create_user (the second also    *)
(* replaces), "update" leaves the password alone, "change" does not.       *)
Request == [kind : {"create", "set", "update", "change", "remove"},
            user : Users, entry : Entry]

Lists == UNION {[names -> Entry] : names \in SUBSET Users}

Empty == [u \in {} |-> {}]

(* A request about a user that has to be there, or must not.               *)
Possible(list, r) ==
  /\ r.kind = "create" => r.user \notin DOMAIN list
  /\ r.kind \in {"update", "change", "remove"} => r.user \in DOMAIN list

Apply(list, r) ==
  IF r.kind = "remove" THEN [u \in DOMAIN list \ {r.user} |-> list[u]]
  ELSE [u \in DOMAIN list \cup {r.user} |->
          CASE u # r.user -> list[u]
            [] u = r.user /\ r.kind = "update" -> [r.entry EXCEPT !.pw = list[u].pw]
            [] OTHER -> r.entry]

(* What can be read of a list whose writing was cut off: some of the       *)
(* lines, and one that ends within the letters of its rights.              *)
Remains(list) ==
  {part \in Lists :
     /\ DOMAIN part \subseteq DOMAIN list
     /\ \A u \in DOMAIN part :
          part[u].pw = list[u].pw /\ part[u].rights \subseteq list[u].rights
     /\ \A u, v \in DOMAIN part :
          part[u] # list[u] /\ part[v] # list[v] => u = v}

VARIABLES
  db,
  failing   \* a file operation of the edit under way has failed

Init == db \in Lists /\ failing = FALSE

Edit ==
  /\ ~failing /\ UNCHANGED failing
  /\ \E r \in Request : Possible(db, r) /\ db' = Apply(db, r)

(* The list was taken for an empty one, or what was written was cut off.   *)
Lose ==
  /\ failing /\ failing' = FALSE
  /\ \E r \in Request, base \in {db, Empty} :
       Possible(base, r) /\ db' \in Remains(Apply(base, r))

Fail == failing' \in BOOLEAN /\ UNCHANGED db

Next == Edit \/ Lose \/ Fail
Spec == Init /\ [][Next]_<<db, failing>>
=============================================================================
