------------------------------ MODULE MCInput ------------------------------
(* A keyboard of four keys: a letter, Shift, Caps Lock and one without a   *)
(* mapping, which is given to the tab.  The letter is sent with its scan   *)
(* code or without.                                                        *)
EXTENDS Input, TLC

Row(plain, shifted) ==
  [m \in SUBSET Mods |-> IF "shift" \in m THEN shifted ELSE plain]
Syms == {"a", "A", "Shift_L", "Caps_Lock", "Num_Lock", "Tab", "ISO_Left_Tab"}
Board == <<Row("a", "A"), Row("Shift_L", "Shift_L"),
           Row("Caps_Lock", "Caps_Lock"), Row("none", "none")>>
BoardMods == <<"none", "shift", "caps", "none">>
BoardLocks == <<"caps", "none", "none", "none">>
NoAlt == [s \in Syms |-> "none"]
Case == [s \in Syms |-> IF s \in {"a", "A"} THEN "caps" ELSE "none"]
Peers == Permutations(Clients)
Map == [x \in {"x1"} |-> 1]
Sent == {<<"a", "x1">>, <<"A", "-">>, <<"Shift_L", "-">>, <<"ISO_Left_Tab", "-">>}
=============================================================================
