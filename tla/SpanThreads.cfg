SPECIFICATION Spec
CONSTANTS
  Cores = {c1, c2}
  Spans = {s1, s2}
  NoCore = NoCore
  NoSpan = NoSpan
  K = 2
  Threshold = 0
  StoreBuffer = FALSE
  MaxEpoch = 2
  MaxThreads = 3
SYMMETRY Symmetry
INVARIANTS ObjectsConserved ListedByOwner
CHECK_DEADLOCK FALSE
