SPECIFICATION MailboxSpec
CONSTANTS
  CTAs = {me, other}
  Me = me
  Threads = {w1, w2}
  Leader = w1
  Mode = "hybrid"
  TileCount = 4
  ClaimSize = 2
  HybridTail = 2
  MaxInt = 9
INVARIANTS
  SameGeneration
  StopsWhenDrained
PROPERTIES
  ConsumedBeforeOverwrite
  EveryRoleStops
