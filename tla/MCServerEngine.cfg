SPECIFICATION Spec
CONSTANTS
  Workers = {w1, w2}
  Users = {}
  Acceptor = acceptor
  Main = main
  Conns = {c1, c2}
  NoSock = NoSock
  MaxClient = 2
  MaxWSABUF = 1
  Fragments = {1, 2}
  MayStop = FALSE
  MaxCalls = 1
  MaxRecvs = 2
CHECK_DEADLOCK FALSE
SYMMETRY Symmetry
INVARIANTS
  TeardownAlone
  FreeSlotsClean
  ClientCount
  
PROPERTIES
  
  ImplementsSessionRegistry
