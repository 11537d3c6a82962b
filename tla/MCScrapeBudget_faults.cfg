SPECIFICATION Spec
CONSTANTS
  r1 = r1
  r2 = r2
  r3 = r3
  Requests <- ThreeCalls
  Budget = 2
  LastDay = 2
  MaxAttempts = 2
  MaxRestarts = 1
  Faults <- AllFaults
INVARIANTS
  IInv
  TicketsDistinct
  Ceiling
  RefusalJustified
PROPERTIES
  ExpiryNeverRefunds
  ImplementsLedger
SYMMETRY Symmetric
CHECK_DEADLOCK FALSE
