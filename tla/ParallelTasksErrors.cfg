CONSTANTS
  a = a
  b = b
  MaxParallel = 2
  TaskCount = 2
  Key = {a, b}
  KeyLists <- MCKeyLists
  NoTask = NoTask
SPECIFICATION FairSpec
PROPERTY
  ErrorsReject
CHECK_DEADLOCK FALSE
