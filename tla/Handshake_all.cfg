SPECIFICATION Spec
CONSTANTS
  Setups <- SomeSetups
  Threshold = 2
  InitialTimeout = 1
  Width = 3
  MaxTime = 8
INVARIANTS Understood Admitted BackOff
PROPERTIES HandshakeEnds Completes
CHECK_DEADLOCK FALSE
