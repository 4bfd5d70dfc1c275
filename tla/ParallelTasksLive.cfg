CONSTANTS
  a = a
  b = b
  MaxParallel = 2
  TaskCount = 3
  Key = {a, b}
  KeyLists <- MCKeyLists
  NoTask = NoTask
SPECIFICATION FairSpec
PROPERTIES
  ImplementsPool
  ProducedTasksComplete
  Settles
