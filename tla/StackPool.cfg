SPECIFICATION Spec
CONSTANTS
  Threads = {t1, t2}
  Nodes = {n1, n2, n3}
  Null = Null
  TagSize = 4
  Discipline = "pool"
SYMMETRY Symmetry
INVARIANTS TypeOK StackIntact
PROPERTY Linearizable
