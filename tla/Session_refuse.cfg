SPECIFICATION Spec
CONSTANTS
  s1 = s1
  s2 = s2
  s3 = s3
  NoSocket = NoSocket
  Sockets = {s1, s2, s3}
  neverShared = TRUE
  alwaysShared = FALSE
  disconnectClients = FALSE
  Kinds <- AnyKind
  Reuse = TRUE
  MaxConnections = 3
  MaxAnswers = 2
SYMMETRY Alike
INVARIANTS OneAtATime QueryPending
CHECK_DEADLOCK FALSE
