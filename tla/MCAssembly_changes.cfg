SPECIFICATION Spec
CONSTANTS
  Slugs <- TwoSlugs
  Folded <- Lower
  Subject = "asha"
  Complete <- MemberResponse
  Praise <- Recommended
  JoinedSections <- Joined
  CreditedSections <- Credited
  PlainSections <- Plain
  MaxChanges = 2
INVARIANTS
  IInv
  RightMember
  ExperienceComplete
  CompanyFound
PROPERTIES
  SectionsAreIndependent
CHECK_DEADLOCK FALSE
