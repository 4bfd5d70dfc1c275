CONSTANTS
  a = a
  b = b
  MaxParallel = 2
  TaskCount = 4
  Key = {a, b}
  KeyLists <- MCKeyLists
  NoTask = NoTask
SPECIFICATION Spec
INVARIANTS
  KeyExclusion
  NoTaskIsLost
  DeliveryInvariant
  ResolvedMeansAllCompleted
PROPERTY
  CompletedTasksStayCompleted
