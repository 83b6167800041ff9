SPECIFICATION MCSpec
CONSTANTS
  Workers = {w1, w2}
  Users = {u1}
  Acceptor = acceptor
  Main = main
  Conns = {c1, c2}
  NoSock = NoSock
  MaxClient = 2
  Together = 3
  MaxWSABUF = 1
  Fragments = {2}
  MayStop = FALSE
  MaxCalls = 2
  MaxRecvs = 0
CHECK_DEADLOCK FALSE
SYMMETRY Symmetry
INVARIANTS
  RefCountExact
  FlagsExact
  SentPacketsKept
  OwnPackets
