SPECIFICATION Spec
CONSTANTS
  r1 = r1
  r2 = r2
  r3 = r3
  Requests <- ThreeCalls
  Budget = 1
  LastDay = 1
  MaxAttempts = 1
  MaxRestarts = 0
  Faults <- Outages
INVARIANTS
  HardCeiling
CHECK_DEADLOCK FALSE
