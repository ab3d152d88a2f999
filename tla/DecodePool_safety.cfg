CONSTANTS
  Workers = {w1, w2}
  Pixels = {1, 2, 3}
  Streams = {"t0", "z"}
  Rects <- AllRects
  Ordered = {"zrle"}
  PartiallyOrdered = {"tight"}
  MaxRects = 4
SYMMETRY WorkerSymmetry
SPECIFICATION Spec
INVARIANTS BuffersOwned SequentialResult
PROPERTY FlushReports
