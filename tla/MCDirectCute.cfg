SPECIFICATION CtaSpec
CONSTANTS
  Warps = {w0, w1, w2}
  Lead = w0
  KTiles = 5
INVARIANTS
  StageProtected
PROPERTIES
  EndsInStep
CHECK_DEADLOCK FALSE
