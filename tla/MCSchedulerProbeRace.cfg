SPECIFICATION Spec
CONSTANTS
  Kinds = {"dynamic"}
  CtaCount = 2
  NumThreads = 2
  TileCount = 3
  ClaimSize = 1
  UintRange = 16
INVARIANTS
  ChecksumOwnTile
