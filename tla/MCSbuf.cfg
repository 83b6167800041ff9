SPECIFICATION Spec
CONSTANTS
  Threads = {t1, t2, t3}
  Sessions = {s1, s2}
  Bufs = {b1, b2}
  NoBuf = NoBuf
  MaxSends = 3
CHECK_DEADLOCK FALSE
SYMMETRY Symmetry
INVARIANTS
  HeldNotPooled
  NoLeak
PROPERTIES
  SentEncoded
