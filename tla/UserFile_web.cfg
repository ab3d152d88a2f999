SPECIFICATION Spec
CONSTANTS
  Threads = {t1, t2}
  Tools = {k1}
  ToolsAlone = TRUE
  Inodes = {1, 2}
  NoFile = NoFile
  Nobody = Nobody
  u1 = u1
  u2 = u2
  Users = {u1, u2}
  Passwords = {"p"}
  Flags = {"w"}
  Requests <- Asked
INVARIANTS RightsTracked
PROPERTIES FileAtomic MutexReleased
