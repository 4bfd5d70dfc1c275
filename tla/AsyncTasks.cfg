CONSTANTS
  a = a
  b = b
  MaxParallel = 2
  TaskCount = 3
  Key = {a, b}
  KeyLists <- MCKeyLists
  NoTask = NoTask
  NoIndex = NoIndex
  Configs <- MCConfigs
SPECIFICATION AsyncSpec
INVARIANTS
  RetriesKeepTheirKeys
  EveryInputIsReportedOnce
  RejectionHasItsCause
  ReportedIndexFollowsTheCalls
PROPERTY
  BegunTasksEnd
