SPECIFICATION FairSpec
CONSTANTS
  Threads = {d, t1}
  Driver = d
  Nodes = {n1, n2, n3}
  Sentinel = Sentinel
  Null = Null
  MaxId = 3
INVARIANTS TypeOK RingIntact ClosedStaysEmpty
PROPERTIES Atomic LockReleased
