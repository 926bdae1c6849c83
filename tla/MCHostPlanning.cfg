SPECIFICATION Spec
CONSTANTS
  Experts = 3
  TokenCounts = {0, 1, 64, 65, 127, 128, 193, 257}
  LaunchCounts = {0, 64, 193, 769}
  Widths = {129, 256}
  CtaCount = 3
  Word = 4096
  HybridTail = 6
  Kernels = {"auto", "v0_nonpersistent", "v3_chunked", "v4_hybrid", "v6_small_m_ws", "v6_padding_aware"}
  Warmup = 1
  Iterations = {0, 2}
INVARIANTS
  EveryRowOnce
  PaddingHarmless
  SplitIsBest
  StaticIsGridStride
  GreedyBound
  SameWorkList
  TimedWorkIsWhole
  ReportsOnlyVerified
  AutoLaunchFits
