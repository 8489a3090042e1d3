SPECIFICATION Spec
CONSTANTS
  MaxRequests = 4
  Keys = {k1}
  Conns = {c1}
  NoKey = NoKey
  NoConn = NoConn
INVARIANTS
  OrderPerKey
  OneDrainPerQueue
  NoHandlerAfterCleanUp
PROPERTIES
  NobodyForgotten
  ClosedIsCleanedUp
CHECK_DEADLOCK FALSE
