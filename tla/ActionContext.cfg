CONSTANTS
  DisabledKey <- MCDisabledKey
  MaxTriggers = 2
  MaxChanges = 1
SPECIFICATION FairSpec
INVARIANTS
  OneWorkPerTrigger
  IdleMeansNothingUnderWay
  WorkEndsBeforeItsStore
PROPERTIES
  ActionSettles
  DestroyCompletes
