CONSTANTS
  r1 = r1
  r2 = r2
  Request = {r1, r2}
  Throttle = 1
  MaxTime = 3
  MaxOperations = 3
  MaxFailures = 1
  None = None
SPECIFICATION Spec
SYMMETRY RequestSymmetry
INVARIANTS
  ContextsAreUpToDate
PROPERTIES
  UpdatesKeepOtherClaims
  SetupContentIsThrottled
CHECK_DEADLOCK FALSE
