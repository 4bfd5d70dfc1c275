CONSTANTS
  c1 = c1
  c2 = c2
  Call = {c1, c2}
  MaxPage = 2
  Requested = {1}
  MaxNext = 3
  MaxLimits = 1
  None = None
SPECIFICATION FairSpec
INVARIANTS
  PagesInSequence
  NextPageIsReturned
PROPERTY
  NextPageSettles
CHECK_DEADLOCK FALSE
