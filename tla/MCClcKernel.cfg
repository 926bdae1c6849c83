SPECIFICATION KernelSpec
CONSTANTS
  Threads = {w1, w2}
  Leader = w1
  KTiles = 1
  PipeDepth = 2
  Me = 0
  WorkTiles = {0, 1, 2}
INVARIANTS
  StoresInheritedTiles
PROPERTIES
  ResponseReadByAll
  InheritanceCompleted
