---------------------------- MODULE MCHandshake -----------------------------
(* Lists of types in which something or nothing is in common, inside       *)
(* VeNCrypt or outside, in either order of preference; and a host that     *)
(* connects again and again, with the right password or not.               *)
EXTENDS Handshake

TypeLists == {<<>>, <<"None">>, <<"VncAuth", "None">>, <<"TLSVnc", "VncAuth">>,
              <<"None", "TLSPlain">>, <<"Plain", "TLSNone">>}
Once == [serverTypes : TypeLists, clientTypes : TypeLists, serverMinor : {3, 8},
  clientMinor : {3, 5, 7, 8}, password : BOOLEAN, tls : BOOLEAN,
  consent : {"accept", "reject", "ask"}, answer : BOOLEAN, patient : {TRUE}, attempts : {1}]
Impatient == [serverTypes : TypeLists, clientTypes : TypeLists, serverMinor : {8},
  clientMinor : {7, 8}, password : {TRUE}, tls : {TRUE},
  consent : {"ask"}, answer : {TRUE}, patient : {FALSE}, attempts : {1}]
Again == [serverTypes : {<<"VncAuth">>}, clientTypes : {<<"VncAuth">>}, serverMinor : {8},
  clientMinor : {8}, password : {FALSE}, tls : {TRUE},
  consent : {"accept"}, answer : {TRUE}, patient : {FALSE}, attempts : {6}]
SomeSetups == Once \cup Impatient \cup Again
=============================================================================
