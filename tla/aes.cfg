CONSTANTS
  Requests <- MCRequests
  Garbage <- MCGarbage
  NoRequest <- MCNoRequest
  CtrRequests <- MCCtrRequests
  NoCtrRequest <- MCNoCtrRequest
SPECIFICATION Process
INVARIANTS
  EveryLaneHasTheKey
  StandardExample
PROPERTIES
  ImplementsBlockCipher
  StreamIsStandard
CHECK_DEADLOCK FALSE
