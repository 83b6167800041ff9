SPECIFICATION Spec
CONSTANTS
  Threads = {t1, t2}
  Nodes = {n1, n2, n3}
  NULL = NULL
  MaxUsed = 3
  MaxOps = 10
SYMMETRY Symmetry
CHECK_DEADLOCK FALSE
INVARIANTS
  TypeOK
  NoDoubleAlloc
  NoLostNode
  GrowthBound
PROPERTIES
  ImplementsObjectPool
