SPECIFICATION Spec
CONSTANTS
  Scrapes = {"scrape"}
  Probes = {"probe"}
  LowerCase <- LowerCaseTable
  Decoded <- DecodedTable
  Unescaped <- UnescapedTable
  Malformed = "malformed"
  LocaleShaped <- LocaleNames
  TooLong <- LongNames
  Inputs <- CallerInputs
  Statuses <- LinkedInStatuses
INVARIANTS
  IInv
  SlugIsTheMember
  BlamesTheRightSide
  LiveMeansSignedIn
  LossIsShown
  ReadyMeansProbed
CHECK_DEADLOCK FALSE
