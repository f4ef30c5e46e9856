SPECIFICATION Spec
CONSTANTS
  Cores = {c1, c2}
  Spans = {s1, s2}
  NoCore = NoCore
  NoSpan = NoSpan
  K = 2
  Threshold = 0
  StoreBuffer = TRUE
  MaxEpoch = 3
  MaxThreads = 2
SYMMETRY Symmetry
INVARIANTS TypeOK ObjectsConserved HotIsExclusive DeletedOnce FloatHasNoRace FullIsDeleted
PROPERTY EpochAdvances
CHECK_DEADLOCK FALSE
