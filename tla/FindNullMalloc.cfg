SPECIFICATION Spec
CONSTANTS
  Cores = {c1, c2}
  Spans = {s1, s2}
  NoCore = NoCore
  NoSpan = NoSpan
  K = 2
  Threshold = 1
  StoreBuffer = FALSE
  MaxEpoch = 5
  MaxThreads = 3
SYMMETRY Symmetry
INVARIANT MallocServes
CHECK_DEADLOCK FALSE
