CONSTANTS
  MaxParallel = 2
  TaskCount = 4
  Key = {}
  KeyLists <- MCKeyLists
  NoTask = NoTask
  LastPage = 3
  MaxItems = 1
  MaxPages = {1, 9}
  IterateLimits = {1, 9}
  LoadLimits = {2, 9}
SPECIFICATION FetchSpec
INVARIANTS
  PagesInSequence
  LimitsOvershotByPagesInFlight
  ResolvesAtTheEnd
