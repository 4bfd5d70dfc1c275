CONSTANTS
  r1 = r1
  r2 = r2
  Request = {r1, r2}
  DefaultLimit = 2
  ResetPeriod = 3
  ServerLimits = {1, 2}
  CooldownRate <- MCCooldownRate
  MaxWaitTime = 2
  MaxRetries = 1
SPECIFICATION Spec
INVARIANTS
  RetriesLandInALaterPeriod
PROPERTY
  RequestsEnd
