SPECIFICATION Spec
CONSTANTS
  Threads = {t0, t1, t2}
  Main = t0
  TagSize = 2
  CoreSize = 2
  LabSpace = 5
  EarlyCalls = FALSE
  LateCalls = FALSE
  MaxLost = 1
INVARIANTS TypeOK HasBuffer InitOnce CoresReused ThreadsCounted
PROPERTIES LeasesCores ThreadsComeAndGo
CHECK_DEADLOCK FALSE
