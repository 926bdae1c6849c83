SPECIFICATION Spec
CONSTANTS
  Kinds = {"static", "dynamic"}
  CtaCount = 2
  NumThreads = 2
  TileCount = 6
  ClaimSize = 2
  UintRange = 16
INVARIANTS
  VisitedExactlyOnce
  StaticChecksums
PROPERTIES
  ProbeEnds
