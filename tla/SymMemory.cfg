SPECIFICATION Spec
CONSTANTS
  Size = 7
  Xs = {0, 1, 3}
  Clients <- Mixing
  Widths = {1, 2, 3}
  Cap = 2
  MaxOps = 3
INVARIANTS
  LoadsSeeLastWrites
  CacheConsistent
