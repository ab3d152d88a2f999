CONSTANTS
  Clients = {c1}
  Width = 2
  Height = 1
  Pixel = {black, white}
  Deltas <- Horizontal
  Requests <- FullScreen
  CopyRectClients = {c1}
  ScrollDetection = FALSE
  MaxScrolls = 0
SYMMETRY Colours
SPECIFICATION Spec
INVARIANTS TrackersExact InSync CopyRectsAccurate
PROPERTY WholeFrames
