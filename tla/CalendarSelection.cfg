CONSTANTS
  FirstDayOfWeek = 4
  None = None
  LastDay = 4
  Today = 1
  Weeks <- MCWeeks
  Filters <- MCFilters
  MinMaxRanges <- MCMinMaxRanges
  Exclusions = {{3}}
  DaySets <- MCDaySets
  Values <- MCValues
  MaxOperations = 4
SPECIFICATION Spec
INVARIANT
  ToggleChangesOneDay
  SetIndexesAreSelected
  SetValueIsSelected
PROPERTY
  ValueIsTheSelection
CHECK_DEADLOCK FALSE
