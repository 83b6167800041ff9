SPECIFICATION Spec
CONSTANTS
  Workers = {w1}
  Users = {u1}
  Connector = connector
  Main = main
  Conns = {c1, c2}
  NoSock = NoSock
  MaxWSABUF = 1
  MaxInputs = 1
CHECK_DEADLOCK FALSE
INVARIANTS
  CountsExact
PROPERTIES
  SessionEnds
  StopReturns
