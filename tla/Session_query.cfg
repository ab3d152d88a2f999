SPECIFICATION LiveSpec
CONSTANTS
  s1 = s1
  s2 = s2
  NoSocket = NoSocket
  Sockets = {s1, s2}
  neverShared = FALSE
  alwaysShared = FALSE
  disconnectClients = TRUE
  Kinds <- AnyKind
  Reuse = TRUE
  MaxConnections = 2
  MaxAnswers = 2
INVARIANTS SessionsListed ExplicitlyAccepted AnswersFit
PROPERTIES QueriesEnd
CHECK_DEADLOCK FALSE
