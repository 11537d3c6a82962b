SPECIFICATION Spec
CONSTANTS
  r1 = r1
  r2 = r2
  Requests <- TwoRequests
  Slugs <- TwoPeople
  Canonical <- CanonicalTwo
  Budget = 1
  Refreshes <- Never
  Faults <- SafetyFaults
  MaxVersion = 1
  MaxInFlight = 2
  LastDay = 1
  MaxAttempts = 2
  MaxRestarts = 1
INVARIANTS
  IInv
  RightPerson
  CachedReadsAreFree
  CallsAreBudgeted
PROPERTIES
  BudgetComponent
SYMMETRY Symmetric
CHECK_DEADLOCK FALSE
