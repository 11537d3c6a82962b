SPECIFICATION Spec
CONSTANTS
  Slugs <- TwoSlugs
  Folded <- Lower
  Subject = "asha"
  Complete <- MemberResponse
  Praise <- Recommended
  JoinedSections <- Joined
  CreditedSections <- Credited
  PlainSections <- Plain
  MaxChanges = 1
INVARIANTS
  FallsBackByType
CHECK_DEADLOCK FALSE
