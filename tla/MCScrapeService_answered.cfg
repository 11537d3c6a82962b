SPECIFICATION Spec
CONSTANTS
  r1 = r1
  r2 = r2
  Requests <- TwoRequests
  Slugs <- WithAlias
  Canonical <- CanonicalAlias
  Budget = 1
  Refreshes <- Either
  Faults <- AnswerFaults
  MaxVersion = 2
  MaxInFlight = 2
  LastDay = 0
  MaxAttempts = 1
  MaxRestarts = 0
INVARIANTS
  LiveMeansLive
  CacheSound
PROPERTIES
  EveryRequestAnswered
  ImplementsPromise
CHECK_DEADLOCK FALSE
