SPECIFICATION Spec
CONSTANTS
  Threads = {t1, t2, t3}
  First = t1
  Spans = {s1}
  Cpus = 3
  HardLimit = 16384
  FineClasses = 1
  Slots = 2
  Users = {t1, t2}
  MaxTag = 3
SYMMETRY Symmetry
INVARIANTS TypeOK LimitInRange PooledInReach PoolBeforeArena
CHECK_DEADLOCK FALSE
