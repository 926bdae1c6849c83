SPECIFICATION CtaSpec
CONSTANTS
  Warps = {w0, w1, w2, w3}
  Lead = w0
  KTiles = 2
PROPERTIES
  KernelEnds
CHECK_DEADLOCK FALSE
