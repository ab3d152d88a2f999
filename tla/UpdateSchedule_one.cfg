SPECIFICATION Spec
CONSTANTS
  c1 = c1
  NoClient = NoClient
  Clients = {c1}
  CanResize = {c1}
  FullFrames = {FALSE}
  Encodings <- MovingImages
  Refreshes = {"none", "part", "full"}
  Networks <- AnyNetwork
  Rights <- AnyRights
  Successes = {TRUE, FALSE}
  MaxBlock = 2
INVARIANTS ClockRunning DesktopNeeded  BlockedUntouched RevocationHolds
