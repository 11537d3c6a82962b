SPECIFICATION Spec
CONSTANTS
  r1 = r1
  r2 = r2
  r3 = r3
  Requests <- ThreeRequests
INVARIANTS
  CleanExit
  CacheOutlivesHandlers
  IInv
PROPERTIES
  StopsWhenTold
CHECK_DEADLOCK FALSE
