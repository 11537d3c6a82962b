SPECIFICATION Spec
CONSTANTS
  r1 = r1
  r2 = r2
  Requests <- TwoRequests
  AllSections <- FiveSections
  ProfileLevel <- Nested
  Unknown = "experiance"
  Configs <- TypicalConfigs
  Overrides <- TypicalOverrides
  Contents <- TypicalContents
INVARIANTS
  DefaultOn
CHECK_DEADLOCK FALSE
