SPECIFICATION Spec
CONSTANTS
  Plans = {p, q}
  Impls = {1, 2}
  Blocks = {1, 2, 3, 4, 5, 6, 7, 8}
  NumArrays = 2
INVARIANTS
  Ownership
  AllOrNothing
  KernelMemoryLives
