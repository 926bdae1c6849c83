SPECIFICATION KernelSpec
CONSTANTS
  CTAs = {me, other}
  Me = me
  Threads = {w1, w2}
  Leader = w1
  KTiles = 1
  PipeDepth = 2
  Mode = "chunked"
  TileCount = 3
  ClaimSize = 2
  HybridTail = 0
  MaxInt = 8
  WorkTiles = {0, 1, 2}
INVARIANTS
  StoresClaimedTiles
PROPERTIES
  KernelCompletes
