CONSTANTS
  Workers = {w1, w2}
  Pixels = {1, 2, 3}
  Streams = {}
  Rects <- OneRect
  Ordered = {}
  PartiallyOrdered = {}
  MaxRects = 5
SPECIFICATION Spec
PROPERTIES EntriesDecoded MainWaitsEnd
