SPECIFICATION Spec
CONSTANTS
  Threads = {w1, w2}
  Leader = w1
  KTiles = 3
  PipeDepth = 2
  WorkTiles = {0, 1, 2, 3, 4}
  TileCount = 5
  CtaCount = 2
INVARIANTS
  NoDataRace
  OutputCorrect
  StrideStored
PROPERTIES
  StrideCompleted
