SPECIFICATION FairSpec
CONSTANTS
  Workers = {w1, w2}
  Users = {}
  Acceptor = acceptor
  Main = main
  Conns = {c1}
  NoSock = NoSock
  MaxClient = 2
  MaxWSABUF = 1
  Fragments = {2}
  MayStop = TRUE
  MaxCalls = 1
  MaxRecvs = 0
CHECK_DEADLOCK FALSE
PROPERTIES
  SessionsEnd
  StopReturns
