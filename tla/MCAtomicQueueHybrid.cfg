SPECIFICATION Spec
CONSTANTS
  CTAs = {c1, c2, c3}
  Mode = "hybrid"
  TileCount = 6
  ClaimSize = 2
  HybridTail = 3
  MaxInt = 13
INVARIANTS
  TypeOK
  QueueInv
  NoTileTwice
  NoTileSkipped
PROPERTIES
  HeadsOnlyGrow
  ClaimsAsPlanned
  AllWorkDone
  ImplementsWorkQueue
