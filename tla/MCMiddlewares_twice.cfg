SPECIFICATION Spec
CONSTANTS
  r1 = r1
  r2 = r2
  Requests <- TwoRequests
  Numeral <- NumeralTable
  Givens <- Deployments
  Calls <- CallerCalls
  Statuses = {200, 500}
INVARIANTS
  KeyRunsOnce
SYMMETRY Symmetric
CHECK_DEADLOCK FALSE
