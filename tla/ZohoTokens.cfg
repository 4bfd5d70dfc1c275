CONSTANTS
  accounts = accounts
  recruit = recruit
  c1 = c1
  c2 = c2
  c3 = c3
  Service = {accounts, recruit}
  Caller = {c1, c2, c3}
  ServiceOf <- MCServiceOf
  Life = 2
  Buffer = 1
  MaxTokens = 3
  MaxCalls = 3
  MaxCrashes = 1
  None = None
SPECIFICATION Spec
SYMMETRY MCSymmetry
INVARIANTS
  LatestTokensAreKept
  ReturnedTokensWereUsable
PROPERTY
  NullOnlyWhileAnotherRetrieves
CHECK_DEADLOCK FALSE
