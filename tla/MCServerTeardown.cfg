SPECIFICATION Spec
CONSTANTS
  Workers = {w1}
  Users = {u1, u2}
  Acceptor = acceptor
  Main = main
  Conns = {c1}
  NoSock = NoSock
  MaxClient = 2
  MaxWSABUF = 1
  Fragments = {2}
  MayStop = FALSE
  MaxCalls = 2
  MaxRecvs = 0
CHECK_DEADLOCK FALSE
INVARIANTS
  TornDownOnce
