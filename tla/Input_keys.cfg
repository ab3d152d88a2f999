SPECIFICATION Spec
CONSTANTS
  Clients = {c1, c2}
  NoClient = NoClient
  Keycodes = {1, 2, 3, 4}
  Keysyms <- Syms
  NoSymbol = "none"
  Layout <- Board
  ModOf <- BoardMods
  LockOf <- BoardLocks
  Alt <- NoAlt
  Upper = {"A"}
  Codes = {"x1"}
  NoCode = "-"
  codeMap <- Map
  Typed <- Sent
  SymLock <- Case
  KnowsLeds = {}
  Buttons = {1}
  rawKeyboard = TRUE
  avoidShiftNumLock = FALSE
  freeKeys = FALSE
INVARIANTS KeysAccounted
PROPERTIES DragKept CaseMeant
SYMMETRY Peers
