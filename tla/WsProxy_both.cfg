SPECIFICATION Spec
CONSTANTS
  BUFSIZE = 5
  DBUFSIZE = 1
  MaxUp = 3
  MaxDown = 2
  Frames <- MCFrames
INVARIANTS FramesIntact LastWords
PROPERTIES InOrder UpDelivered
