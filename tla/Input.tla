------------------------------- MODULE Input -------------------------------
(* Keyboard and pointer events on their way from the viewers to the X      *)
(* server.  Two tables remember what is down: pressedKeys of a connection  *)
(* (VNCSConnectionST), by the key of the viewer, and pressedKeys of the    *)
(* input device (Input.c), by X keycode.  A viewer names a key by its      *)
(* symbol and perhaps by its scan code; the device finds a keycode for a   *)
(* symbol, fakes modifiers to reach it and maps unknown symbols to unused  *)
(* keycodes.  All viewers share the device.                                *)
EXTENDS Integers, FiniteSets, Functions

CONSTANTS
  Clients, NoClient,
  Keycodes,     \* keycodes of the X server, a set of positive numbers
  Keysyms, NoSymbol,
  Layout,       \* the keyboard map at the start: keycode, modifiers -> symbol
  ModOf,        \* what a keycode does: a modifier, a lock or "none"
  LockOf,       \* the lock that swaps the shift levels of a keycode, or "none"
  Alt,          \* altKeysym: the symbol with the same meaning, or NoSymbol
  Upper,        \* letters and keypad symbols that are typed with Shift
  Codes, NoCode,  \* scan codes a viewer may send; none given
  codeMap,      \* the keycode of a scan code, or 0
  Typed,        \* what a viewer sends: pairs of symbol and scan code or NoCode
  SymLock,      \* the lock a symbol depends on, or "none"
  KnowsLeds,    \* clients with the LED state extension
  Buttons,
  rawKeyboard, avoidShiftNumLock, freeKeys   \* parameters of the server

Mods == {"shift", "level3"}
Locks == {"caps", "num"}

ASSUME InputAssumption ==
  /\ Keycodes \subseteq Nat \ {0} /\ IsFiniteSet(Keycodes)
  /\ Layout \in [Keycodes -> [SUBSET Mods -> Keysyms \cup {NoSymbol}]]
  /\ NoSymbol \notin Keysyms /\ NoClient \notin Clients /\ NoCode \notin Codes
  /\ ModOf \in [Keycodes -> Mods \cup Locks \cup {"none"}]
  /\ LockOf \in [Keycodes -> Locks \cup {"none"}]
  /\ Alt \in [Keysyms -> Keysyms \cup {NoSymbol}]
  /\ codeMap \in [Codes -> Keycodes \cup {0}]
  /\ SymLock \in [Keysyms -> Locks \cup {"none"}] /\ Upper \subseteq Keysyms
  /\ Typed \subseteq Keysyms \X (Codes \cup {NoCode})
  /\ {rawKeyboard, avoidShiftNumLock, freeKeys} \subseteq BOOLEAN

VARIABLES
  conn,          \* per client: is it there, may it write, its pressedKeys
  pointerClient, \* the client that drags, or NoClient
  kbd,           \* the keyboard device
  ledKnown,      \* the server knows the lock state
  oldButtonMask  \* buttons down at the pointer device
vars == <<conn, pointerClient, kbd, ledKnown, oldButtonMask>>

(* An index of a connection's pressedKeys: a scan code, or a symbol if the *)
(* viewer gave none (the code sets the top bit of the symbol).             *)
Lookups == Codes \cup Keysyms
Lookup(sym, code) == IF code = NoCode THEN sym ELSE code

NoKeys == [k \in Keycodes |-> NoSymbol]
Gone == [up |-> FALSE, writer |-> FALSE, keys |-> << >>]

-----------------------------------------------------------------------------
(* The X server's side: what is down, which locks are on, the map.         *)

(* Keys that go down and stay down; a lock is switched by its key going    *)
(* down, not by a repetition.                                              *)
Pressed(k, codes) ==
  [k EXCEPT !.down = @ \cup codes,
            !.locked = {l \in Locks : (l \in @) #
                          (\E c \in codes \ k.down : ModOf[c] = l)}]

Released(k, codes) == [k EXCEPT !.down = @ \ codes]

(* vncGetKeyboardState: the modifiers.                                     *)
KeyboardState(k) == {m \in Mods : \E c \in k.down : ModOf[c] = m}

(* XkbTranslateKeyCode: the symbol of a key under some modifiers.          *)
Flip(mods, m) == (mods \ {m}) \cup ({m} \ mods)
Symbol(k, c, mods) ==
  k.layout[c][IF LockOf[c] \in k.locked THEN Flip(mods, "shift") ELSE mods]

(* The lowest key that yields the symbol under exactly these modifiers.    *)
KeyAt(k, sym, mods) ==
  LET found == {c \in Keycodes : Symbol(k, c, mods) = sym}
  IN  IF found = {} THEN 0 ELSE CHOOSE c \in found : \A d \in found : c <= d

(* vncGetLevelThreeMask: is there a key for level three at all?            *)
HasLevelThree(k) ==
  \E c \in Keycodes : c = KeyAt(k, "AltGr", {}) /\ ModOf[c] = "level3"

(* vncKeysymToKeycode: the key and the modifiers it needs, tried in order  *)
(* of the number of modifiers to be faked.                                 *)
KeysymToKeycode(k, sym, mods) ==
  LET tries == <<mods, Flip(mods, "shift"), Flip(mods, "level3"),
                 Flip(Flip(mods, "shift"), "level3")>>
      usable == {i \in 1 .. 4 : /\ KeyAt(k, sym, tries[i]) # 0
                                /\ i > 2 => HasLevelThree(k)}
      best == CHOOSE i \in usable : \A j \in usable : i <= j
  IN  IF usable = {} THEN [code |-> 0, mods |-> mods]
      ELSE [code |-> KeyAt(k, sym, tries[best]), mods |-> tries[best]]

(* vncAddKeysym: the symbol is mapped to the highest unused key.  needFree *)
(* numbers the keys in the order in which that happened; its entry 0, no   *)
(* key's, holds the last number.  With freeKeys, when fewer than three     *)
(* keys are unused, the oldest key loses its mapping and is Busy           *)
(* (UINT_MAX) for one round.  The symbol has no case (a letter would take  *)
(* both levels), and the rollover of the numbers is left out.              *)
Busy == -1
Before(a, b) == a # Busy /\ (b = Busy \/ a < b)
Unmapped(k) == {c \in Keycodes : \A m \in SUBSET Mods : k.layout[c][m] = NoSymbol}
AddKeysym(k, sym) ==
  LET age == k.needFree
      free == {c \in Unmapped(k) : age[c] # Busy}
      key == CHOOSE c \in free : \A d \in free : d <= c
      newer == {c \in Keycodes : age[c] # Busy /\ Before(age[0], age[c])}
      newest == IF newer = {} THEN 0
                ELSE CHOOSE c \in newer : \A d \in newer : 
                     age[d] < age[c] \/ (age[d] = age[c] /\ c <= d)
      older == {c \in Keycodes : age[c] > 0 /\ Before(age[c], age[0])}
      oldest == IF older = {} THEN 0
                ELSE CHOOSE c \in older : \A d \in older : 
                     age[c] < age[d] \/ (age[d] = age[c] /\ c <= d)
      reset == [c \in DOMAIN age |-> IF c # 0 /\ age[c] = Busy THEN 0 ELSE age[c]]
      next == reset[newest] + 1
      marked == [reset EXCEPT ![newest] = next, ![key] = next]
      short == freeKeys /\ Cardinality(free) < 3
  IN  CASE free = {} -> k
        [] free # {} /\ short /\ marked[oldest] = 0 -> [k EXCEPT !.needFree = marked]
        [] OTHER -> [k EXCEPT
             !.needFree = IF short THEN [marked EXCEPT ![oldest] = Busy] ELSE marked,
             !.layout = [c \in Keycodes |-> [m \in SUBSET Mods |->
                CASE c = key -> sym
                  [] short /\ c = oldest -> NoSymbol
                  [] OTHER -> k.layout[c][m]]]]

(* vncPressShift, vncReleaseShift and the same for level three: the keys   *)
(* to fake, the empty set if there is none.                                *)
ShiftKeys(k) ==
  IF "shift" \in KeyboardState(k) THEN {c \in k.down : ModOf[c] = "shift"}
  ELSE LET found == {c \in Keycodes : ModOf[c] = "shift"}
       IN  {c \in found : \A d \in found : c <= d}
LevelThreeKeys(k) ==
  IF "level3" \in KeyboardState(k) THEN {c \in k.down : ModOf[c] = "level3"}
  ELSE {c \in Keycodes : c = KeyAt(k, "AltGr", KeyboardState(k)) /\ ModOf[c] = "level3"}

(* Faking a modifier is pressing keys that are up or releasing keys that   *)
(* are down.                                                               *)
Fake(k, mod, codes) ==
  IF mod \in KeyboardState(k) THEN Released(k, codes) ELSE Pressed(k, codes)

(* vncKeysymKeyboardEvent for a release: the lowest key that was pressed   *)
(* for this symbol goes up.                                                *)
KeysymUp(k, sym) ==
  LET held == {c \in Keycodes : k.pressed[c] = sym}
      c == CHOOSE c \in held : \A d \in held : c <= d
  IN  IF held = {} THEN k ELSE [Released(k, {c}) EXCEPT !.pressed[c] = NoSymbol]

(* ... and for a press: the key of the symbol or, if there is none or if   *)
(* it would take a fake Shift on the keypad, that of its equivalent.       *)
Preferred(mods, own, other) ==
  LET shifts(f) == ("shift" \in mods) # ("shift" \in f.mods) /\ LockOf[f.code] = "num"
  IN  CASE other.code # 0 /\ own.code = 0 -> other
        [] /\ other.code # 0 /\ own.code # 0
           /\ avoidShiftNumLock /\ shifts(own) /\ ~shifts(other) -> other
        [] OTHER -> own

NoKey == [code |-> 0, mods |-> {}]
FindKey(k, sym) ==
  Preferred(KeyboardState(k), KeysymToKeycode(k, sym, KeyboardState(k)),
            IF Alt[sym] = NoSymbol THEN NoKey
            ELSE KeysymToKeycode(k, Alt[sym], KeyboardState(k)))

(* Modifiers are faked for the key, it is pressed, other keys that were    *)
(* pressed for the symbol are forgotten, and the modifiers are put back.   *)
(* If level three cannot be faked, Shift is left as it was faked.          *)
PressWith(k, sym, code, wrong) ==
  CASE code = 0 -> k
    [] code # 0 /\ "shift" \in wrong /\ ShiftKeys(k) = {} -> k
    [] /\ code # 0 /\ "level3" \in wrong /\ LevelThreeKeys(k) = {}
       /\ "shift" \in wrong => ShiftKeys(k) # {} ->
         IF "shift" \in wrong THEN Fake(k, "shift", ShiftKeys(k)) ELSE k
    [] OTHER -> [Pressed(k, {code}) EXCEPT !.pressed = [c \in Keycodes |->
         IF c = code THEN sym ELSE IF @[c] = sym THEN NoSymbol ELSE @[c]]]

(* The modifiers that are not as the key needs them; a tab may be shifted. *)
Wrong(sym, mods, goal) ==
  LET kept == IF sym = "Tab" THEN mods \cap {"shift"} ELSE {}
  IN  {m \in Mods : (m \in mods) # (m \in goal \cup kept)}

PressKey(k, sym, key) ==
  PressWith(k, sym, key.code, Wrong(sym, KeyboardState(k), key.mods))
PressMapped(k, sym) == PressKey(k, sym, KeysymToKeycode(k, sym, KeyboardState(k)))
PressFound(k, sym, key) ==
  IF key.code = 0 THEN PressMapped(AddKeysym(k, sym), sym) ELSE PressKey(k, sym, key)
KeysymDown(k, sym) == PressFound(k, sym, FindKey(k, sym))

(* vncKeyboardEvent, behind XserverDesktop::keyEvent: a scan code names    *)
(* its key directly if the server trusts scan codes.                       *)
KeyboardEvent(k, sym, code, isDown) ==
  LET raw == IF rawKeyboard /\ code \in Codes THEN codeMap[code] ELSE 0
  IN  IF raw # 0
      THEN [(IF isDown THEN Pressed(k, {raw}) ELSE Released(k, {raw}))
              EXCEPT !.pressed[raw] = IF isDown THEN sym ELSE NoSymbol]
      ELSE IF isDown THEN KeysymDown(k, sym) ELSE KeysymUp(k, sym)

-----------------------------------------------------------------------------
(* The server's side.                                                      *)

LockKey == [caps |-> "Caps_Lock", num |-> "Num_Lock"]
Shifts == {"Shift_L", "Shift_R"}

isShiftPressed(c) == \E l \in DOMAIN conn[c].keys : conn[c].keys[l] \in Shifts

(* Lock keys are ignored while the state of the locks is unknown, and      *)
(* Scroll Lock from clients that are not told about LEDs.                  *)
Ignored(c, sym) ==
  \/ ~ledKnown /\ sym \in {"Caps_Lock", "Num_Lock", "Scroll_Lock"}
  \/ c \notin KnowsLeds /\ sym = "Scroll_Lock"

(* Seeded fault: the heuristic forgets that Shift changes the case too.    *)
WrongLockUnshifted(c, sym, isDown) ==
  LET l == SymLock[sym]
  IN  IF /\ isDown /\ ledKnown /\ c \notin KnowsLeds /\ l # "none"
         /\ (l \in kbd.locked) # (sym \in Upper)
      THEN l ELSE "none"

(* The lock that must be switched so that the symbol means what the viewer *)
(* meant, "none" if there is none.                                         *)
WrongLock(c, sym, isDown) ==
  LET l == SymLock[sym]
      shift == isShiftPressed(c)
  IN  IF /\ isDown /\ ledKnown /\ c \notin KnowsLeds /\ l # "none"
         /\ l = "num" => ~shift
         /\ (l \in kbd.locked) = ((sym \in Upper) = shift)
      THEN l ELSE "none"

Switched(k, l) == IF l = "none" THEN k ELSE KeysymUp(KeysymDown(k, LockKey[l]), LockKey[l])
Synced(c, sym, isDown) == Switched(kbd, WrongLock(c, sym, isDown))

(* What goes on to the device, with Shift pressed just for it if need be.  *)
Shifted(k, shift) == IF shift THEN KeysymDown(k, "Shift_L") ELSE k
Unshifted(k, shift) == IF shift THEN KeysymUp(k, "Shift_L") ELSE k
Forwarded(k, goesOn, sym, code, isDown) ==
  IF goesOn THEN KeyboardEvent(k, sym, code, isDown) ELSE k

(* VNCSConnectionST::keyEvent.  A release of a key that the connection     *)
(* does not hold goes no further; a held key keeps its symbol; a left tab  *)
(* is a tab with Shift, pressed just for that.                             *)
KeyEvent(c, sent, code, isDown) ==
  LET tab == sent = "ISO_Left_Tab"
      sym == IF tab THEN "Tab" ELSE sent
      keys == conn[c].keys
      l == Lookup(sym, code)
      held == l \in DOMAIN keys
      same == IF held THEN keys[l] ELSE sym
      shift == tab /\ ~isShiftPressed(c)
  IN  /\ conn[c].up /\ conn[c].writer
      /\ ~Ignored(c, sent)
      /\ conn' = [conn EXCEPT ![c].keys =
           IF isDown THEN [x \in DOMAIN keys \cup {l} |-> IF x = l THEN same ELSE keys[x]]
           ELSE Restrict(keys, DOMAIN keys \ {l})]
      /\ kbd' = Unshifted(Forwarded(Shifted(Synced(c, sent, isDown), shift),
                                    isDown \/ held, same, code, isDown), shift)
      /\ ledKnown' = (ledKnown \/ kbd'.locked # kbd.locked)
      /\ UNCHANGED <<pointerClient, oldButtonMask>>

(* VNCSConnectionST::pointerEvent, and vncPointerButtonAction behind it.   *)
(* While one client has a button down the others' events are ignored.      *)
(* skipclick and skiprelease belong to the region of data loss prevention; *)
(* a scroll event moves nothing and presses nothing.                       *)
ButtonAction(mask, skipclick, skiprelease) ==
  (mask \cap oldButtonMask)
    \cup (IF skipclick THEN {} ELSE mask \ oldButtonMask)
    \cup (IF skiprelease THEN oldButtonMask \ mask ELSE {})

PointerEvent(c, mask, skipclick, skiprelease, scroll) ==
  /\ conn[c].up /\ conn[c].writer
  /\ pointerClient \in {NoClient, c}
  /\ pointerClient' = IF mask # {} THEN c ELSE NoClient
  /\ oldButtonMask' = IF scroll THEN oldButtonMask
                      ELSE ButtonAction(mask, skipclick, skiprelease)
  /\ UNCHANGED <<conn, kbd, ledKnown>>

(* Seeded fault: only keys that have a scan code are released.             *)
ReleaseAllCodes(k, keys) ==
  LET raw == {codeMap[l] : l \in {x \in DOMAIN keys : rawKeyboard /\ x \in Codes}} \ {0}
  IN  [Released(k, raw) EXCEPT
         !.pressed = [c \in Keycodes |-> IF c \in raw THEN NoSymbol ELSE @[c]]]

(* The destructor of VNCSConnectionST releases the keys in the order of    *)
(* the map: by scan code, then by symbol.  A key known by its symbol only  *)
(* is looked up again by the device; n keys of one symbol release the n    *)
(* lowest keycodes pressed for it.                                         *)
ReleaseAll(k, keys) ==
  LET Raw(l) == rawKeyboard /\ l \in Codes /\ codeMap[l] # 0
      raw == {codeMap[l] : l \in {x \in DOMAIN keys : Raw(x)}}
      left == [c \in Keycodes |-> IF c \in raw THEN NoSymbol ELSE k.pressed[c]]
      times(s) == Cardinality({l \in DOMAIN keys : ~Raw(l) /\ keys[l] = s})
      found == {c \in Keycodes : /\ left[c] # NoSymbol
                  /\ Cardinality({d \in Keycodes : d <= c /\ left[d] = left[c]})
                       <= times(left[c])}
  IN  [Released(k, raw \cup found) EXCEPT
         !.pressed = [c \in Keycodes |-> IF c \in found THEN NoSymbol ELSE left[c]]]

(* Seeded fault: the server keeps its pointer to a client that dragged.    *)
DisconnectDragging(c) ==
  /\ conn[c].up
  /\ kbd' = ReleaseAll(kbd, conn[c].keys)
  /\ conn' = [conn EXCEPT ![c] = Gone]
  /\ UNCHANGED <<pointerClient, ledKnown, oldButtonMask>>

(* ~VNCSConnectionST() and the part of removeSocket() that forgets who     *)
(* drags.  The mouse buttons stay as they are.                             *)
Disconnect(c) ==
  /\ conn[c].up
  /\ kbd' = ReleaseAll(kbd, conn[c].keys)
  /\ conn' = [conn EXCEPT ![c] = Gone]
  /\ pointerClient' = IF pointerClient = c THEN NoClient ELSE pointerClient
  /\ UNCHANGED <<ledKnown, oldButtonMask>>

Connect(c) ==
  /\ ~conn[c].up
  /\ \E w \in BOOLEAN : conn' = [conn EXCEPT ![c] = [Gone EXCEPT !.up = TRUE, !.writer = w]]
  /\ UNCHANGED <<pointerClient, kbd, ledKnown, oldButtonMask>>

(* The owner of the session gives or takes the right to write.             *)
ChangeRights(c) ==
  /\ conn[c].up
  /\ conn' = [conn EXCEPT ![c].writer = ~@]
  /\ UNCHANGED <<pointerClient, kbd, ledKnown, oldButtonMask>>

(* The X server reports the lock state.                                    *)
SetLEDState ==
  /\ ~ledKnown /\ ledKnown' = TRUE
  /\ UNCHANGED <<conn, pointerClient, kbd, oldButtonMask>>

Init ==
  /\ conn = [c \in Clients |-> Gone]
  /\ pointerClient = NoClient
  /\ kbd = [down |-> {}, locked |-> {}, pressed |-> NoKeys, layout |-> Layout,
            needFree |-> [c \in Keycodes \cup {0} |-> 0]]
  /\ ledKnown = FALSE
  /\ oldButtonMask = {}

Next ==
  \/ SetLEDState
  \/ \E c \in Clients :
       \/ Connect(c) \/ Disconnect(c) \/ ChangeRights(c)
       \/ \E t \in Typed, d \in BOOLEAN : KeyEvent(c, t[1], t[2], d)
       \/ \E m \in SUBSET Buttons, click, release, scroll \in BOOLEAN :
            PointerEvent(c, m, click, release, scroll)

Spec == Init /\ [][Next]_vars

-----------------------------------------------------------------------------
(* Every variable has its type.                                            *)
TypeOK ==
  /\ \A c \in Clients : /\ conn[c].up \in BOOLEAN /\ conn[c].writer \in BOOLEAN
                         /\ DOMAIN conn[c].keys \subseteq Lookups
                         /\ Range(conn[c].keys) \subseteq Keysyms
  /\ pointerClient \in Clients \cup {NoClient}
  /\ kbd.down \subseteq Keycodes /\ kbd.locked \subseteq Locks
  /\ kbd.pressed \in [Keycodes -> Keysyms \cup {NoSymbol}]
  /\ kbd.layout \in [Keycodes -> [SUBSET Mods -> Keysyms \cup {NoSymbol}]]
  /\ kbd.needFree \in [Keycodes \cup {0} -> Int]
  /\ ledKnown \in BOOLEAN
  /\ oldButtonMask \subseteq Buttons

(* A key that is down at the X server is on the books of a client that is  *)
(* still there, by its scan code or by the symbol it was pressed for: the  *)
(* client can release it, and if it leaves, the destructor does ("Release  *)
(* any keys the client still had pressed").  Modifiers that were faked     *)
(* have been put back.                                                     *)
KeysAccounted ==
  \A k \in kbd.down : \E c \in Clients : \E l \in DOMAIN conn[c].keys :
    \/ conn[c].keys[l] = kbd.pressed[k]
    \/ l \in Codes /\ rawKeyboard /\ codeMap[l] = k

(* The client that drags is connected (the server keeps a pointer to it),  *)
(* and no other client takes the pointer from it.                          *)
DragKept ==
  [][pointerClient' # NoClient => /\ conn'[pointerClient'].up
                                  /\ pointerClient \in {NoClient, pointerClient'}]_vars

(* A letter that is pressed by a client without LED state, with its Shift  *)
(* keys as the X server sees them, comes out in the case the client meant: *)
(* the CapsLock heuristic has switched the lock if it had to.              *)
CaseMeant ==
  [][\A c \in Clients, t \in Typed :
       /\ ledKnown /\ c \notin KnowsLeds /\ SymLock[t[1]] = "caps"
       /\ Lookup(t[1], t[2]) \in DOMAIN conn'[c].keys \ DOMAIN conn[c].keys
       /\ ("shift" \in KeyboardState(kbd)) = isShiftPressed(c)
       /\ \A k \in kbd.down : ModOf[k] # "caps"
       /\ KeyEvent(c, t[1], t[2], TRUE)
       => \E k \in kbd'.down : Symbol(kbd', k, KeyboardState(kbd')) = t[1]]_vars
=============================================================================
