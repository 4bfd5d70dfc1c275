CONSTANTS
  d1 = d1
  d2 = d2
  d3 = d3
  none = none
  MaxParallel = 2
  TaskCount = 5
  Key = {}
  KeyLists <- MCKeyLists
  NoTask = NoTask
  Document = {d1, d2, d3}
  NoDocument = NoDocument
  LastPlace = 4
  ChangeCount = 1
  NoLimit = none
  LimitsPerCheckpoint <- MCLimitsPerCheckpoint
  TotalLimits <- MCTotalLimits
  RepeatAnswers <- MCRepeatAnswers
  MaxSafeInteger = 100
SYMMETRY DocumentSymmetry
SPECIFICATION IterationSpec
INVARIANTS
  WithinTotalLimit
  UnchangedDocumentsInOrder
  UnchangedDocumentsAllIterated
  RepeatCursorsBoundTheIteration
