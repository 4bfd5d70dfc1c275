--------------------------- MODULE CalendarSelection ---------------------------
(***************************************************************************)
(* DbxCalendarScheduleSelectionStore of @dereekb/dbx-form: the days that   *)
(* are selected in a calendar, and the schedule that stands for them.      *)
(*                                                                         *)
(* What is selected is a range of days, less those that are toggled off,   *)
(* and those toggled on besides.  Days count if the schedule has their day *)
(* of the week and the filter permits them.  Every update is a function    *)
(* from one state of the store to the next, as in the code.  The selection *)
(* is of days: times of day and time zones are left out, and so are filters*)
(* without a time zone.                                                    *)
(***************************************************************************)
EXTENDS ScheduleDays, FiniteSetsExt

CONSTANTS
  LastDay,        \* bound: the days are those from 0
  Today,          \* the day on which the store is made
  Weeks,          \* the sets of day codes that are chosen
  Filters,        \* the filters that are set,
  MinMaxRanges,   \* the ranges,
  Exclusions,     \* the sets of days,
  DaySets,        \* the sets of days that are selected at once,
  Values,         \* and the values
  MaxOperations   \* bound: the updates

Day == 0..LastDay

\* Indexes may be those of another start than today's.
Index == (0 - LastDay)..LastDay

ASSUME DaysAssumption == LastDay \in Nat /\ Today \in Day /\ MaxOperations \in Nat
ASSUME InputsAssumption ==
  /\ Weeks \subseteq SUBSET DayCode /\ Exclusions \subseteq SUBSET Day /\ DaySets \subseteq SUBSET Day
  /\ MinMaxRanges \subseteq [start : Day \cup {None}, end : Day \cup {None}]
  /\ Filters \subseteq [start : Day \cup {None}, end : Day \cup {None}, w : SUBSET DayCode,
                        ex : SUBSET Nat, minMaxDateRange : {NoRange}, setStartAsMinDate : {TRUE}]
  /\ Values \subseteq [start : Day, end : Day, w : SUBSET DayCode, ex : SUBSET Day]

\* What a store may hold for its days of the week, its filter and its value.
Filter == [start : Day \cup {None}, end : Day \cup {None}, w : SUBSET DayCode, ex : SUBSET Int,
           minMaxDateRange : [start : Day \cup {None}, end : Day \cup {None}], setStartAsMinDate : BOOLEAN]

SelectionValue == [start : Int, end : Int, w : SUBSET DayCode, ex : SUBSET Int]

ASSUME NothingAssumption == (\A codes \in SUBSET DayCode : codes # None) /\ None \notin Filter /\ None \notin SelectionValue

VARIABLES
  state,      \* the state of the store
  operations  \* updates so far

vars == <<state, operations>>

-----------------------------------------------------------------------------
(* What is selected *)

IndexOf(s, day) == day - s.start

IsAllowed(s, i) == DayOfWeekOf(s.start + i) \in DaysOfWeek(s.effectiveScheduleDays)

HasRange(s) == s.inputStart # None /\ s.inputEnd # None

InRange(s, i) == HasRange(s) /\ IndexOf(s, s.inputStart) <= i /\ i <= IndexOf(s, s.inputEnd)

\* The indexes for which isEnabledDayInCalendarScheduleSelectionState(s) answers true.
EnabledDays(s) == {i \in Index : IsAllowed(s, i) /\ (InRange(s, i) <=> i \notin s.toggledIndexes)}

\* The indexes that computeCalendarScheduleSelectionDateCellRange() finds.  It asks the
\* functions in the state, which are as old as the last update that made them.
SelectedIndexes(s) ==
  LET ends == {i \in s.toggledIndexes : IsAllowed(s, i)}
                \cup (IF HasRange(s) THEN {IndexOf(s, s.inputStart), IndexOf(s, s.inputEnd)} ELSE {})
  IN IF ends = {} THEN {}
     ELSE {i \in s.isEnabledDay \cap s.isEnabledFilterDay : Min(ends) <= i /\ i <= Max(ends)}

Excluded(s) == (Min(SelectedIndexes(s))..Max(SelectedIndexes(s))) \ (s.isEnabledDay \cap s.isEnabledFilterDay)

IsRelativeToFilter(s) ==
  s.computeSelectionResultRelativeToFilter /\ s.filter # None /\ s.filter.start # None

ExclusionsWithoutOffset(s, first, offset) == {i - first : i \in Excluded(s)}

\* The exclusions of a value are counted from its start, which may be the filter's.
ExclusionsFrom(s, first, offset) ==
  LET excluded == IF s.computeSelectionResultRelativeToFilter
                  THEN {i \in Excluded(s) : IsAllowed(s, i)} ELSE Excluded(s)
  IN {i - (first - offset) : i \in excluded}

computeScheduleSelectionValue(s) ==
  LET first == Min(SelectedIndexes(s))
      from == IF IsRelativeToFilter(s) THEN s.filter.start ELSE s.start + first
      offset == IF IsRelativeToFilter(s) THEN first - IndexOf(s, from) ELSE 0
      last == s.start + Max(SelectedIndexes(s))
  IN IF SelectedIndexes(s) = {} THEN None
     ELSE [start |-> from,
           end |-> IF last < from THEN from ELSE last,
           w |-> simplifyDateCellScheduleDayCodes(s.effectiveScheduleDays),
           ex |-> IndexesFrom(0, offset) \cup ExclusionsFrom(s, first, offset)]

-----------------------------------------------------------------------------
(* Changing the selection *)

Renewed(s) == [s EXCEPT !.isEnabledDay = EnabledDays(s)]

finalizeNewCalendarScheduleSelectionState(s) ==
  [Renewed(s) EXCEPT !.currentSelectionValue = computeScheduleSelectionValue(Renewed(s))]

noSelectionCalendarScheduleSelectionState(s) ==
  finalizeNewCalendarScheduleSelectionState(
    [s EXCEPT !.toggledIndexes = {}, !.inputStart = None, !.inputEnd = None])

\* The end of updateStateWithChangedDates(): the range and the toggled indexes are brought to
\* a range that begins and ends with what is selected, less the rest of it.
WithSelection(s, inputStart, inputEnd, toggledIndexes) ==
  LET next == Renewed([s EXCEPT !.inputStart = inputStart, !.inputEnd = inputEnd,
                                !.toggledIndexes = toggledIndexes])
      selected == SelectedIndexes(next)
  IN IF selected = {} THEN noSelectionCalendarScheduleSelectionState(next)
     ELSE finalizeNewCalendarScheduleSelectionState(
            [next EXCEPT !.toggledIndexes = Excluded(next),
                         !.inputStart = s.start + Min(selected),
                         !.inputEnd = s.start + Max(selected)])

MinDate(s) == Latest(IF s.filter = None THEN None ELSE s.filter.start, s.minMaxDateRange.start)

MaxDate(s) == Earliest(IF s.filter = None THEN None ELSE s.filter.end, s.minMaxDateRange.end)

HasMinAndMax(s) == MinDate(s) # None /\ MaxDate(s) # None

\* { set, invertSetBehavior: true }: the set is what is selected.
RetainOfSelection(s, set) ==
  IF HasMinAndMax(s) THEN WithSelection(s, MinDate(s), MaxDate(s), set)
  ELSE WithSelection(s, s.inputStart, s.inputEnd, set)

RetainSet(s, set) ==
  IF HasMinAndMax(s)
  THEN WithSelection(s, MinDate(s), MaxDate(s),
         IndexesFrom(IndexOf(s, MinDate(s)), IndexOf(s, MaxDate(s)) + 1) \ set)
  ELSE IF set # {}
  THEN WithSelection(s, s.start + Min(set), s.start + Max(set), (Min(set)..Max(set)) \ set)
  ELSE WithSelection(s, None, None, {})

\* In single mode the set is its first value; which one that is, is up to the caller.
FirstOf(set) == IF set = {} THEN {{}} ELSE {{i} : i \in set}

ToggledInAnyMode(s, i) ==
  WithSelection(s, s.inputStart, s.inputEnd, SymDiff(s.toggledIndexes, {i}))

Toggled(s, i) ==
  IF s.selectionMode = "single"
  THEN RetainSet(s, IF i \in s.toggledIndexes
                       \/ (s.inputStart # None /\ IndexOf(s, s.inputStart) = i) THEN {} ELSE {i})
  ELSE WithSelection(s, s.inputStart, s.inputEnd,
         IF IsAllowed(s, i) THEN SymDiff(s.toggledIndexes, {i}) ELSE s.toggledIndexes)

\* Without both ends 'all' only takes back what was toggled.
WithAllOrNone(s, all) ==
  IF all = "none" THEN WithSelection(s, None, None, {})
  ELSE IF HasMinAndMax(s) THEN WithSelection(s, MinDate(s), MaxDate(s), {})
  ELSE WithSelection(s, s.inputStart, s.inputEnd, {})

updateStateWithChangedRange(s, inputStart, inputEnd) ==
  LET isValid(day) == /\ MinDate(s) # None => day >= MinDate(s)
                      /\ MaxDate(s) # None => day <= MaxDate(s)
      next == [s EXCEPT !.inputStart = inputStart, !.inputEnd = inputEnd]
  IN IF /\ isValid(inputStart) /\ isValid(inputEnd)
        /\ <<inputStart, inputEnd>> # <<s.inputStart, s.inputEnd>>
     THEN finalizeNewCalendarScheduleSelectionState(
            [next EXCEPT !.toggledIndexes = {i \in @ : InRange(next, i)}])
     ELSE s

\* The day that is kept is looked for with the function as old as it is.
updateStateWithSelectionMode(s, mode) ==
  LET next == [s EXCEPT !.selectionMode = mode]
      selected == SelectedIndexes(next)
  IN IF s.selectionMode # mode /\ mode = "single" /\ selected # {}
     THEN RetainSet(next, {Min(selected)}) ELSE next

-----------------------------------------------------------------------------
(* The days of the week, and setting a value *)

finalizeUpdateStateWithChangedScheduleDays(s, next) ==
  LET days == IF next.scheduleDays # None THEN next.scheduleDays ELSE next.defaultScheduleDays
  IN IF dateCellScheduleDayCodesAreSetsEquivalent(days, s.effectiveScheduleDays) THEN next
     ELSE finalizeNewCalendarScheduleSelectionState(
            [next EXCEPT !.effectiveScheduleDays = simplifyDateCellScheduleDayCodes(days)])

updateStateWithChangedDefaultScheduleDays(s, days) ==
  IF dateCellScheduleDayCodesAreSetsEquivalent(days, s.defaultScheduleDays) THEN s
  ELSE finalizeUpdateStateWithChangedScheduleDays(s, [s EXCEPT !.defaultScheduleDays = days])

updateStateWithChangedScheduleDays(s, days) ==
  IF \/ days = None /\ s.scheduleDays = None
     \/ /\ days # None /\ s.scheduleDays # None
        /\ dateCellScheduleDayCodesAreSetsEquivalent(days, s.scheduleDays)
  THEN s
  ELSE finalizeUpdateStateWithChangedScheduleDays(s, [s EXCEPT !.scheduleDays = days])

\* The exclusions become toggled indexes as they are, though those count from the
\* start of the state and not of the value.
updateStateWithDateCellScheduleRangeValue(s, value) ==
  IF value = s.currentSelectionValue THEN s
  ELSE IF value = None THEN noSelectionCalendarScheduleSelectionState(s)
  ELSE updateStateWithChangedScheduleDays(
         finalizeNewCalendarScheduleSelectionState(
           [s EXCEPT !.inputStart = value.start, !.inputEnd = value.end, !.toggledIndexes = value.ex]),
         expandDateCellScheduleDayCodes(IF value.w = {} THEN fullWeekDateCellScheduleDayCodes ELSE value.w))

-----------------------------------------------------------------------------
(* The filter *)

updateStateWithInitialSelectionState(s, initial) ==
  [IF s.toggledIndexes = {} /\ initial = "all" THEN WithAllOrNone(s, initial) ELSE s
     EXCEPT !.initialSelectionState = initial]

updateStateWithComputeSelectionResultRelativeToFilter(s, isRelative) ==
  LET next == [s EXCEPT !.computeSelectionResultRelativeToFilter = isRelative]
  IN IF isRelative = s.computeSelectionResultRelativeToFilter THEN next
     ELSE WithSelection(next, s.inputStart, s.inputEnd, s.toggledIndexes)

\* enabledFilter, for which days are asked.
EnabledFilter(s, input) ==
  LET f == IF input # None THEN input
           ELSE [start |-> None, end |-> None, w |-> fullWeekDateCellScheduleDayCodes, ex |-> {},
                 minMaxDateRange |-> NoRange, setStartAsMinDate |-> TRUE]
  IN [f EXCEPT !.start = IF @ # None THEN @ ELSE s.start,
               !.ex = @ \cup s.computedExclusions,
               !.minMaxDateRange = IF s.minMaxDateRange # NoRange THEN s.minMaxDateRange ELSE @,
               !.setStartAsMinDate = IF s.minMaxDateRange # NoRange THEN f.start # None ELSE @]

\* The copy of the input filter is the enabled one itself, and gets what is set on that,
\* unless there are exclusions.
CopiedFilter(s, input) ==
  IF input = None \/ s.computedExclusions # {} THEN input ELSE EnabledFilter(s, input)

updateStateWithFilter(s, input) ==
  LET filter == CopiedFilter(s, input)
      filtered == [s EXCEPT
        !.filter = filter,
        !.isEnabledFilterDay =
          IF input = None /\ s.computedExclusions = {} /\ s.minMaxDateRange = NoRange THEN Index
          ELSE LET f == EnabledFilter(s, input)
               IN {i \in Index : FilterAllows(f, f.start + i)},
        !.start = IF filter # None /\ filter.start # None THEN filter.start ELSE @]
      next == IF filtered.initialSelectionState # None
              THEN updateStateWithInitialSelectionState(filtered, filtered.initialSelectionState)
              ELSE filtered
  IN IF HasRange(next) THEN updateStateWithChangedRange(next, next.inputStart, next.inputEnd) ELSE next

updateStateWithMinMaxDateRange(s, range) ==
  updateStateWithFilter([s EXCEPT !.minMaxDateRange = range], s.filter)

updateStateWithExclusions(s, days) ==
  updateStateWithFilter([s EXCEPT !.computedExclusions = {IndexOf(s, day) : day \in days}], s.filter)

-----------------------------------------------------------------------------
(* The specification *)

initialCalendarScheduleSelectionState ==
  [selectionMode |-> "multiple",
   start |-> Today,
   toggledIndexes |-> {}, inputStart |-> None, inputEnd |-> None,
   defaultScheduleDays |-> fullWeekDateCellScheduleDayCodes,
   scheduleDays |-> None,
   effectiveScheduleDays |-> fullWeekDateCellScheduleDayCodes,
   filter |-> None, computedExclusions |-> {}, minMaxDateRange |-> NoRange,
   isEnabledFilterDay |-> Index, isEnabledDay |-> {},
   currentSelectionValue |-> None,
   computeSelectionResultRelativeToFilter |-> TRUE,
   initialSelectionState |-> None]

Init == state = initialCalendarScheduleSelectionState /\ operations = 0

Indexes(days) == {IndexOf(state, day) : day \in days}

toggleSelectedDates == \E day \in Day : state' = Toggled(state, IndexOf(state, day))

\* NOTE: these are what is toggled, not what is selected.
addSelectedDates == \E days \in DaySets :
  state' = WithSelection(state, state.inputStart, state.inputEnd, state.toggledIndexes \cup Indexes(days))

removeSelectedDates == \E days \in DaySets :
  state' = WithSelection(state, state.inputStart, state.inputEnd, state.toggledIndexes \ Indexes(days))

setSelectedDates == \E days \in DaySets :
  \/ /\ state.selectionMode = "multiple"
     /\ state' = WithSelection(state, state.inputStart, state.inputEnd, Indexes(days))
  \/ /\ state.selectionMode = "single"
     /\ \E set \in FirstOf(Indexes(days)) : state' = RetainSet(state, set)

setSelectedIndexes == \E days \in DaySets :
  \/ state.selectionMode = "multiple" /\ state' = RetainSet(state, Indexes(days))
  \/ /\ state.selectionMode = "single"
     /\ \E set \in FirstOf(Indexes(days)) : state' = RetainSet(state, set)

selectAllDates == \E all \in {"all", "none"} : state' = WithAllOrNone(state, all)

setInputRange == \E first, last \in Day :
  first <= last /\ state' = updateStateWithChangedRange(state, first, last)

setSelectionMode == \E mode \in {"multiple", "single"} : state' = updateStateWithSelectionMode(state, mode)

setDefaultScheduleDays == \E days \in Weeks : state' = updateStateWithChangedDefaultScheduleDays(state, days)

setScheduleDays == \E days \in Weeks \cup {None} : state' = updateStateWithChangedScheduleDays(state, days)

setDateScheduleRangeValue == \E value \in Values \cup {None} :
  state' = updateStateWithDateCellScheduleRangeValue(state, value)

setInitialSelectionState == \E initial \in {"all", "none"} :
  state' = updateStateWithInitialSelectionState(state, initial)

setComputeSelectionResultRelativeToFilter == \E isRelative \in BOOLEAN :
  state' = updateStateWithComputeSelectionResultRelativeToFilter(state, isRelative)

setFilter == \E filter \in Filters \cup {None} : state' = updateStateWithFilter(state, filter)

setMinMaxDateRange == \E range \in MinMaxRanges \cup {NoRange} : state' = updateStateWithMinMaxDateRange(state, range)

setExclusions == \E days \in Exclusions \cup {{}} : state' = updateStateWithExclusions(state, days)

Next ==
  /\ operations < MaxOperations
  /\ operations' = operations + 1
  /\ \/ toggleSelectedDates \/ addSelectedDates \/ removeSelectedDates \/ setSelectedDates
     \/ setSelectedIndexes \/ selectAllDates \/ setInputRange \/ setSelectionMode
     \/ setDefaultScheduleDays \/ setScheduleDays \/ setDateScheduleRangeValue
     \/ setInitialSelectionState \/ setComputeSelectionResultRelativeToFilter
     \/ setFilter \/ setMinMaxDateRange \/ setExclusions

Spec == Init /\ [][Next]_vars

-----------------------------------------------------------------------------
(* Properties *)

CalendarScheduleSelectionState ==
  [selectionMode : {"multiple", "single"},
   start : Day,
   toggledIndexes : SUBSET Index, inputStart : Int \cup {None}, inputEnd : Int \cup {None},
   defaultScheduleDays : SUBSET DayCode,
   scheduleDays : {None} \cup SUBSET DayCode,
   effectiveScheduleDays : SUBSET DayCode,
   filter : Filter \cup {None}, computedExclusions : SUBSET Index,
   minMaxDateRange : [start : Day \cup {None}, end : Day \cup {None}],
   isEnabledFilterDay : SUBSET Index, isEnabledDay : SUBSET Index,
   currentSelectionValue : SelectionValue \cup {None},
   computeSelectionResultRelativeToFilter : BOOLEAN,
   initialSelectionState : {"all", "none", None}]

\* The values are of the kind the code declares.
TypeOK == state \in CalendarScheduleSelectionState /\ operations \in 0..MaxOperations

\* The days that are selected in state s.
Selected(s) == {s.start + i : i \in EnabledDays(s) \cap s.isEnabledFilterDay}

\* The value that is put out stands for the days that are selected, whenever the selection
\* or the value has been changed: as a range with days of the week and exclusions, counted
\* from its first day or from the start of the filter.  Days before that start, which only a
\* filter that was given none permits, cannot be put into it.
ValueIsTheSelection ==
  [][LET s == state' IN
     <<s.inputStart, s.inputEnd, s.toggledIndexes, s.effectiveScheduleDays, s.currentSelectionValue>>
       # <<state.inputStart, state.inputEnd, state.toggledIndexes, state.effectiveScheduleDays,
           state.currentSelectionValue>>
     => \/ IsRelativeToFilter(s) /\ \E day \in Selected(s) : day < s.filter.start
        \/ Selected(s) = IF s.currentSelectionValue = None THEN {} ELSE ExpandedDays(s.currentSelectionValue)]_vars

Permitted(s) == {s.start + i : i \in {j \in s.isEnabledFilterDay : IsAllowed(s, j)}}

\* The filter and the range have days in common, as far as both have two ends.
LeavesDays(s) == HasMinAndMax(s) => MinDate(s) <= MaxDate(s)

\* Toggling a day changes whether that day is selected, if it may be, and no other one, though
\* the range and what is toggled are brought to another form; in single mode it leaves at most
\* that day.
ToggleChangesOneDay ==
  \A day \in Day :
    LET selected == Selected(Toggled(state, IndexOf(state, day))) IN
    /\ state.selectionMode = "multiple" => selected = SymDiff(Selected(state), {day} \cap Permitted(state))
    /\ state.selectionMode = "single" /\ LeavesDays(state) => selected \subseteq {day}

\* Setting the selected indexes selects those that may be, and nothing else, from whatever was
\* selected before, with the range of the filter or without one.
SetIndexesAreSelected ==
  LeavesDays(state) => \A days \in DaySets :
    Selected(RetainSet(state, Indexes(days))) =
      {day \in days \cap Permitted(state) : HasMinAndMax(state) => MinDate(state) <= day /\ day <= MaxDate(state)}

\* Setting a value that is not the present one selects the days it stands for that the filter
\* permits, from whatever was selected before, if it names days of the week, and its exclusions
\* are within it and counted from the start of the state, or it has none.
SetValueIsSelected ==
  \A value \in Values :
    /\ value # state.currentSelectionValue
    /\ value.w # {}
    /\ value.ex = {} \/ (value.start = state.start /\ value.ex \subseteq 0..(value.end - value.start))
    => LET next == updateStateWithDateCellScheduleRangeValue(state, value)
       IN Selected(next) = {day \in ExpandedDays(value) : day - state.start \in state.isEnabledFilterDay}

\* The days of the week are those that were set, or else the default ones.
DaysFollow(s) ==
  dateCellScheduleDayCodesAreSetsEquivalent(
    IF s.scheduleDays # None THEN s.scheduleDays ELSE s.defaultScheduleDays, s.effectiveScheduleDays)

\* The inductive invariant the properties of the updates rest on.
CalendarInvariant == TypeOK /\ DaysFollow(state)
=============================================================================
