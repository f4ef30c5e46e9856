SPECIFICATION FairSpec
CONSTANTS
  Threads = {t1, t2}
  Nodes = {n1, n2}
  Null = Null
  TagSize = 3
  Discipline = "remote"
INVARIANT TagIsLength
PROPERTIES Linearizable LockFree
