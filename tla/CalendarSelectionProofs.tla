------------------------ MODULE CalendarSelectionProofs ------------------------
(***************************************************************************)
(* What is proved of schedules and of the selection in a calendar: what    *)
(* the simplified codes of a week stand for, what the updates select, and  *)
(* that the value put out stands for what is selected.                     *)
(***************************************************************************)
EXTENDS CalendarSelection, WellFoundedInduction, TLAPS

-----------------------------------------------------------------------------
(* The least and the greatest of a set of numbers *)

\* A nonempty set of natural numbers has a least element.
LEMMA LeastElement ==
  ASSUME NEW T \in SUBSET Nat, T # {}
  PROVE  \E m \in T : \A k \in T : m <= k
<1> DEFINE R == OpToRel(<, Nat)
<1>1. IsWellFoundedOn(R, Nat)
  BY NatLessThanWellFounded
<1> HIDE DEF R
<1>2. PICK m \in T : \A k \in T : <<k, m>> \notin R
  BY <1>1, WFMin
<1>3. \A k \in T : ~(k < m)
  BY <1>2 DEF R, OpToRel
<1> QED BY <1>3

\* Min and Max return the ends of a set between two numbers.
LEMMA EndsOfSet ==
  ASSUME NEW low \in Int, NEW high \in Int, NEW T \in SUBSET (low..high), T # {}
  PROVE  /\ Min(T) \in T /\ Max(T) \in T
         /\ \A k \in T : Min(T) <= k /\ k <= Max(T)
<1> DEFINE up == {k - low : k \in T}
           down == {high - k : k \in T}
<1>1. \A k \in T : k \in Int /\ k - low \in Nat /\ high - k \in Nat
  OBVIOUS
<1>2. up \in SUBSET Nat /\ up # {} /\ down \in SUBSET Nat /\ down # {}
  BY <1>1
<1>3. PICK m \in T : \A j \in up : m - low <= j
  BY <1>2, LeastElement
<1>4. PICK n \in T : \A j \in down : high - n <= j
  BY <1>2, LeastElement
<1>5. ASSUME NEW k \in T
      PROVE  m <= k /\ k <= n
  <2>1. m - low <= k - low /\ high - n <= high - k
    BY <1>3, <1>4
  <2> QED BY <1>1, <2>1
<1> QED BY <1>5 DEF Min, Max

-----------------------------------------------------------------------------
(* Days of the week *)

\* The days that are neither of a working week nor of a weekend are none.
LEMMA DaysOfTheWeek ==
  /\ SUNDAY..SATURDAY = weekdayDateCellScheduleDayCodes \cup weekendDateCellScheduleDayCodes
  /\ WEEKDAY \notin SUNDAY..SATURDAY /\ WEEKEND \notin SUNDAY..SATURDAY
BY DEF SUNDAY, MONDAY, SATURDAY, WEEKDAY, WEEKEND,
       weekdayDateCellScheduleDayCodes, weekendDateCellScheduleDayCodes

\* Simplifying codes (simplifyDateCellScheduleDayCodes()) changes neither the days they
\* stand for nor, therefore, what a schedule with them permits.
THEOREM SimplifiedCodesKeepTheirDays ==
  ASSUME NEW codes \in SUBSET DayCode
  PROVE  /\ dateCellScheduleDayCodesAreSetsEquivalent(simplifyDateCellScheduleDayCodes(codes), codes)
         /\ DaysOfWeek(simplifyDateCellScheduleDayCodes(codes)) = DaysOfWeek(codes)
<1> DEFINE weekdays == weekdayDateCellScheduleDayCodes
           weekend == weekendDateCellScheduleDayCodes
           simple == simplifyDateCellScheduleDayCodes(codes)
           hasAllWeekDays == WEEKDAY \in codes \/ weekdays \subseteq codes
           hasAllWeekendDays == WEEKEND \in codes \/ weekend \subseteq codes
<1>1. /\ WEEKDAY # WEEKEND
      /\ WEEKDAY \notin weekdays \cup weekend /\ WEEKEND \notin weekdays \cup weekend
  BY DaysOfTheWeek DEF WEEKDAY, WEEKEND
<1>2. simple = (IF hasAllWeekDays THEN {WEEKDAY} ELSE codes \cap weekdays)
                 \cup (IF hasAllWeekendDays THEN {WEEKEND} ELSE codes \cap weekend)
  BY DEF simplifyDateCellScheduleDayCodes
<1>3. \A c \in SUBSET DayCode : \A day :
        day \in expandDateCellScheduleDayCodes(c) <=>
          \/ day \in weekdays /\ (day \in c \/ WEEKDAY \in c)
          \/ day \in weekend /\ (day \in c \/ WEEKEND \in c)
  BY DaysOfTheWeek DEF expandDateCellScheduleDayCodes
<1>4. simple \in SUBSET DayCode
  BY <1>2, DaysOfTheWeek DEF DayCode, WEEKDAY, WEEKEND, SUNDAY, SATURDAY
<1>5. weekdays \cap weekend = {}
  BY DEF weekdayDateCellScheduleDayCodes, weekendDateCellScheduleDayCodes, MONDAY, SATURDAY, SUNDAY
<1>6. /\ WEEKDAY \in simple <=> hasAllWeekDays
      /\ WEEKEND \in simple <=> hasAllWeekendDays
  BY <1>1, <1>2
<1>7. ASSUME NEW day
      PROVE  day \in expandDateCellScheduleDayCodes(simple)
               <=> day \in expandDateCellScheduleDayCodes(codes)
  <2>1. day \in weekdays => (day \in simple <=> (~hasAllWeekDays /\ day \in codes))
    BY <1>1, <1>2, <1>5
  <2>2. day \in weekend => (day \in simple <=> (~hasAllWeekendDays /\ day \in codes))
    BY <1>1, <1>2, <1>5
  <2> HIDE DEF weekdays, weekend, simple
  <2>3. day \in weekdays => ((day \in simple \/ WEEKDAY \in simple) <=> (day \in codes \/ WEEKDAY \in codes))
    BY <1>6, <2>1
  <2>4. day \in weekend => ((day \in simple \/ WEEKEND \in simple) <=> (day \in codes \/ WEEKEND \in codes))
    BY <1>6, <2>2
  <2> QED BY <1>3, <1>4, <2>3, <2>4
<1>8. expandDateCellScheduleDayCodes(simple) = expandDateCellScheduleDayCodes(codes)
  BY <1>7
<1> QED BY <1>8 DEF dateCellScheduleDayCodesAreSetsEquivalent, DaysOfWeek

\* Codes of single days are expanded already.
LEMMA ExpandedCodesAreDays ==
  ASSUME NEW codes \in SUBSET DayCode
  PROVE  LET days == expandDateCellScheduleDayCodes(codes) IN
         days \in SUBSET DayCode /\ expandDateCellScheduleDayCodes(days) = days
BY DaysOfTheWeek DEF expandDateCellScheduleDayCodes, DayCode, SUNDAY, SATURDAY,
  weekdayDateCellScheduleDayCodes, weekendDateCellScheduleDayCodes, MONDAY, WEEKDAY, WEEKEND

-----------------------------------------------------------------------------
(* What is selected *)

\* Index i is that of a day from a to b.
Between(start, a, b, i) == a # None /\ b # None /\ a - start <= i /\ i <= b - start

\* The indexes a range and toggled indexes stand for.
Chosen(s, a, b, toggled) ==
  {i \in s.isEnabledFilterDay : IsAllowed(s, i) /\ (Between(s.start, a, b, i) <=> i \notin toggled)}

\* The days and the value are those of the range, the toggled indexes, the days of the week
\* and the filter.
IsFresh(s) == s.isEnabledDay = EnabledDays(s) /\ s.currentSelectionValue = computeScheduleSelectionValue(s)

\* The days that are enabled are those of the range and the toggled indexes.
LEMMA EnabledAreChosen ==
  ASSUME NEW s \in CalendarScheduleSelectionState
  PROVE  /\ EnabledDays(s) \in SUBSET Index
         /\ EnabledDays(s) \cap s.isEnabledFilterDay = Chosen(s, s.inputStart, s.inputEnd, s.toggledIndexes)
<1>1. s.isEnabledFilterDay \in SUBSET Index
  BY DEF CalendarScheduleSelectionState
<1>2. \A i : InRange(s, i) <=> Between(s.start, s.inputStart, s.inputEnd, i)
  BY DEF InRange, HasRange, IndexOf, Between
<1> QED BY <1>1, <1>2 DEF EnabledDays, Chosen

\* The scan of computeCalendarScheduleSelectionDateCellRange() finds every selected index,
\* once isEnabledDay has been renewed: none is outside of the range and the toggled indexes.
LEMMA ScanFindsAll ==
  ASSUME NEW s \in CalendarScheduleSelectionState, s.isEnabledDay = EnabledDays(s)
  PROVE  SelectedIndexes(s) = EnabledDays(s) \cap s.isEnabledFilterDay
<1> DEFINE selected == EnabledDays(s) \cap s.isEnabledFilterDay
           first == IndexOf(s, s.inputStart)
           last == IndexOf(s, s.inputEnd)
           ends == {i \in s.toggledIndexes : IsAllowed(s, i)}
                     \cup (IF HasRange(s) THEN {first, last} ELSE {})
<1>1. /\ s.start \in Int /\ s.toggledIndexes \in SUBSET Index
      /\ HasRange(s) => first \in Int /\ last \in Int
  BY DEF CalendarScheduleSelectionState, Day, HasRange, IndexOf
<1>2. Index \in SUBSET Int /\ Index = (0 - LastDay)..LastDay /\ LastDay \in Nat
  BY DaysAssumption DEF Index
<1>3. \E low, high \in Int : ends \in SUBSET (low..high)
  <2>1. CASE ~HasRange(s)
    BY <1>1, <1>2, <2>1
  <2>2. CASE HasRange(s)
    <3>1. PICK low \in Int : low <= first /\ low <= last /\ low <= 0 - LastDay
      <4>1. \A a, b, c \in Int : \E d \in Int : d <= a /\ d <= b /\ d <= c
        <5>1. SUFFICES ASSUME NEW a \in Int, NEW b \in Int, NEW c \in Int
                       PROVE  \E d \in Int : d <= a /\ d <= b /\ d <= c
          OBVIOUS
        <5>2. CASE a <= b /\ a <= c
          BY <5>2
        <5>3. CASE b <= a /\ b <= c
          BY <5>3
        <5>4. CASE c <= a /\ c <= b
          BY <5>4
        <5> QED BY <5>2, <5>3, <5>4
      <4> QED BY <1>1, <1>2, <2>2, <4>1
    <3>2. PICK high \in Int : first <= high /\ last <= high /\ LastDay <= high
      <4>1. \A a, b, c \in Int : \E d \in Int : a <= d /\ b <= d /\ c <= d
        <5>1. SUFFICES ASSUME NEW a \in Int, NEW b \in Int, NEW c \in Int
                       PROVE  \E d \in Int : a <= d /\ b <= d /\ c <= d
          OBVIOUS
        <5>2. CASE b <= a /\ c <= a
          BY <5>2
        <5>3. CASE a <= b /\ c <= b
          BY <5>3
        <5>4. CASE a <= c /\ b <= c
          BY <5>4
        <5> QED BY <5>2, <5>3, <5>4
      <4> QED BY <1>1, <1>2, <2>2, <4>1
    <3>3. \A i \in ends : i \in low..high
      BY <1>1, <1>2, <2>2, <3>1, <3>2
    <3> QED BY <3>3
  <2> QED BY <2>1, <2>2
<1>4. ASSUME NEW i \in selected
      PROVE  ends # {} /\ Min(ends) <= i /\ i <= Max(ends)
  <2>1. i \in Int /\ IsAllowed(s, i) /\ (InRange(s, i) \/ i \in s.toggledIndexes)
    BY <1>2 DEF EnabledDays
  <2>2. \E a, b \in ends : a <= i /\ i <= b
    BY <1>1, <2>1 DEF InRange
  <2>3. PICK low \in Int, high \in Int : ends \in SUBSET (low..high)
    BY <1>3
  <2>4. /\ Min(ends) \in low..high /\ Max(ends) \in low..high
        /\ \A k \in ends : Min(ends) <= k /\ k <= Max(ends) /\ k \in Int
    <3> HIDE DEF ends
    <3>1. ends # {}
      BY <2>2
    <3>2. /\ Min(ends) \in ends /\ Max(ends) \in ends
          /\ \A k \in ends : Min(ends) <= k /\ k <= Max(ends)
      BY <2>3, <3>1, EndsOfSet
    <3>3. \A k \in ends : k \in low..high
      BY <2>3
    <3> QED BY <3>2, <3>3
  <2> HIDE DEF ends
  <2> QED BY <2>1, <2>2, <2>4
<1>5. SelectedIndexes(s) = IF ends = {} THEN {} ELSE {i \in selected : Min(ends) <= i /\ i <= Max(ends)}
  BY DEF SelectedIndexes
<1> HIDE DEF ends, selected
<1>6. SelectedIndexes(s) = selected
  BY <1>4, <1>5
<1> QED BY <1>6 DEF selected

\* Two states agree on what the selected days, and the value, are made of.
SameSelection(n, s) ==
  /\ n.start = s.start /\ n.effectiveScheduleDays = s.effectiveScheduleDays
  /\ n.inputStart = s.inputStart /\ n.inputEnd = s.inputEnd /\ n.toggledIndexes = s.toggledIndexes

SameValue(n, s) ==
  /\ SameSelection(n, s)
  /\ n.isEnabledDay = s.isEnabledDay /\ n.isEnabledFilterDay = s.isEnabledFilterDay
  /\ n.filter = s.filter
  /\ n.computeSelectionResultRelativeToFilter = s.computeSelectionResultRelativeToFilter

\* Such states have the same days enabled.
LEMMA SameDaysAreEnabled ==
  ASSUME NEW n, NEW s, SameSelection(n, s)
  PROVE  EnabledDays(n) = EnabledDays(s)
BY DEF SameSelection, EnabledDays, IsAllowed, InRange, HasRange, IndexOf

\* Such states have the same value computed of them.
LEMMA SameValueIsComputed ==
  ASSUME NEW n, NEW s, SameValue(n, s)
  PROVE  computeScheduleSelectionValue(n) = computeScheduleSelectionValue(s)
<1>1. /\ \A i : IsAllowed(n, i) <=> IsAllowed(s, i)
      /\ HasRange(n) <=> HasRange(s)
      /\ \A day : IndexOf(n, day) = IndexOf(s, day)
  BY DEF SameValue, SameSelection, IsAllowed, HasRange, IndexOf
<1>2. {i \in n.toggledIndexes : IsAllowed(n, i)} = {i \in s.toggledIndexes : IsAllowed(s, i)}
  BY <1>1 DEF SameValue, SameSelection
<1>3. SelectedIndexes(n) = SelectedIndexes(s)
  BY <1>1, <1>2 DEF SelectedIndexes, SameValue, SameSelection
<1>4. Excluded(n) = Excluded(s)
  BY <1>3 DEF Excluded, SameValue
<1>5. /\ {i \in Excluded(n) : IsAllowed(n, i)} = {i \in Excluded(s) : IsAllowed(s, i)}
      /\ IsRelativeToFilter(n) <=> IsRelativeToFilter(s)
  BY <1>1, <1>4 DEF IsRelativeToFilter, SameValue
<1>6. \A first, offset : ExclusionsFrom(n, first, offset) = ExclusionsFrom(s, first, offset)
  BY <1>4, <1>5 DEF ExclusionsFrom, SameValue
<1> QED BY <1>1, <1>3, <1>5, <1>6 DEF computeScheduleSelectionValue, SameValue, SameSelection

\* Simplified codes are codes.
LEMMA SimplifiedCodesAreCodes ==
  ASSUME NEW codes \in SUBSET DayCode
  PROVE  simplifyDateCellScheduleDayCodes(codes) \in SUBSET DayCode
<1>1. codes \cap weekdayDateCellScheduleDayCodes \in SUBSET DayCode
  OBVIOUS
<1>2. codes \cap weekendDateCellScheduleDayCodes \in SUBSET DayCode
  OBVIOUS
<1>3. {WEEKDAY} \in SUBSET DayCode /\ {WEEKEND} \in SUBSET DayCode
  BY DEF DayCode, WEEKDAY, WEEKEND
<1> QED BY <1>1, <1>2, <1>3 DEF simplifyDateCellScheduleDayCodes

\* range() returns numbers.
LEMMA RangesAreOfNumbers ==
  ASSUME NEW first \in Int, NEW end \in Int
  PROVE  IndexesFrom(first, end) \in SUBSET Int
BY DEF IndexesFrom

\* What is selected, and what is left out of the range it spans, are indexes.
LEMMA SelectedAreIndexes ==
  ASSUME NEW s \in CalendarScheduleSelectionState, SelectedIndexes(s) # {}
  PROVE  /\ SelectedIndexes(s) \in SUBSET Index
         /\ Min(SelectedIndexes(s)) \in SelectedIndexes(s) /\ Max(SelectedIndexes(s)) \in SelectedIndexes(s)
         /\ \A i \in SelectedIndexes(s) : Min(SelectedIndexes(s)) <= i /\ i <= Max(SelectedIndexes(s))
         /\ Excluded(s) \in SUBSET Index
<1>1. LastDay \in Nat /\ Index = (0 - LastDay)..LastDay
  BY DaysAssumption DEF Index
<1>2. SelectedIndexes(s) \in SUBSET Index
  <2>1. s.isEnabledDay \in SUBSET Index
    BY DEF CalendarScheduleSelectionState
  <2> QED BY <2>1 DEF SelectedIndexes
<1>3. /\ Min(SelectedIndexes(s)) \in SelectedIndexes(s) /\ Max(SelectedIndexes(s)) \in SelectedIndexes(s)
      /\ \A i \in SelectedIndexes(s) : Min(SelectedIndexes(s)) <= i /\ i <= Max(SelectedIndexes(s))
  <2>1. 0 - LastDay \in Int /\ LastDay \in Int
    BY <1>1
  <2>2. SelectedIndexes(s) \in SUBSET ((0 - LastDay)..LastDay)
    BY <1>1, <1>2
  <2> QED BY <2>1, <2>2, EndsOfSet
<1>4. Excluded(s) \in SUBSET Index
  <2>1. Min(SelectedIndexes(s)) \in Index /\ Max(SelectedIndexes(s)) \in Index
    BY <1>2, <1>3
  <2>2. Min(SelectedIndexes(s))..Max(SelectedIndexes(s)) \in SUBSET Index
    BY <1>1, <2>1
  <2> QED BY <2>2 DEF Excluded
<1> QED BY <1>2, <1>3, <1>4

\* The value that is put out is one.
LEMMA ValueType ==
  ASSUME NEW s \in CalendarScheduleSelectionState
  PROVE  /\ computeScheduleSelectionValue(s) \in SelectionValue \cup {None}
         /\ SelectedIndexes(s) # {} => computeScheduleSelectionValue(s) \in SelectionValue
<1>1. CASE SelectedIndexes(s) = {}
  BY <1>1 DEF computeScheduleSelectionValue
<1>2. CASE SelectedIndexes(s) # {}
  <2> DEFINE first == Min(SelectedIndexes(s))
             from == IF IsRelativeToFilter(s) THEN s.filter.start ELSE s.start + first
             offset == IF IsRelativeToFilter(s) THEN first - IndexOf(s, from) ELSE 0
             last == s.start + Max(SelectedIndexes(s))
             w == simplifyDateCellScheduleDayCodes(s.effectiveScheduleDays)
             ex == IndexesFrom(0, offset) \cup ExclusionsFrom(s, first, offset)
  <2>1. Index \in SUBSET Int /\ Day \in SUBSET Int
    BY DaysAssumption DEF Index, Day
  <2>2. /\ first \in Int /\ Max(SelectedIndexes(s)) \in Int
        /\ Excluded(s) \in SUBSET Int
    BY <1>2, <2>1, SelectedAreIndexes
  <2>3. s.start \in Int /\ s.effectiveScheduleDays \in SUBSET DayCode /\ s.filter \in Filter \cup {None}
    BY <2>1 DEF CalendarScheduleSelectionState
  <2> HIDE DEF first
  <2>4. IsRelativeToFilter(s) => s.filter.start \in Int
    BY <2>1, <2>3 DEF IsRelativeToFilter, Filter
  <2>5. from \in Int /\ last \in Int
    BY <2>2, <2>3, <2>4
  <2> HIDE DEF from
  <2>6. offset \in Int
    BY <2>2, <2>3, <2>5 DEF IndexOf
  <2> HIDE DEF offset
  <2>7. ExclusionsFrom(s, first, offset) \in SUBSET Int
    BY <2>2, <2>6 DEF ExclusionsFrom
  <2>8. ex \in SUBSET Int
    BY <2>6, <2>7, RangesAreOfNumbers
  <2>9. w \in SUBSET DayCode
    BY <2>3, SimplifiedCodesAreCodes
  <2> HIDE DEF ex, w, last
  <2>10. [start |-> from, end |-> IF last < from THEN from ELSE last, w |-> w, ex |-> ex] \in SelectionValue
    BY <2>5, <2>8, <2>9 DEF SelectionValue
  <2> QED BY <1>2, <2>10 DEF computeScheduleSelectionValue, first, from, offset, last, w, ex
<1> QED BY <1>1, <1>2

-----------------------------------------------------------------------------
(* What an update of the selection selects *)

\* Two states differ in the selection and the value at most.
SameSettings(n, s) ==
  /\ n.selectionMode = s.selectionMode /\ n.start = s.start
  /\ n.defaultScheduleDays = s.defaultScheduleDays /\ n.scheduleDays = s.scheduleDays
  /\ n.effectiveScheduleDays = s.effectiveScheduleDays
  /\ n.filter = s.filter /\ n.computedExclusions = s.computedExclusions
  /\ n.minMaxDateRange = s.minMaxDateRange /\ n.isEnabledFilterDay = s.isEnabledFilterDay
  /\ n.computeSelectionResultRelativeToFilter = s.computeSelectionResultRelativeToFilter
  /\ n.initialSelectionState = s.initialSelectionState

\* Finalizing a state leaves the selection and makes the rest agree with it.
LEMMA FinalizedIsFresh ==
  ASSUME NEW s \in CalendarScheduleSelectionState
  PROVE  LET n == finalizeNewCalendarScheduleSelectionState(s) IN
         /\ n \in CalendarScheduleSelectionState
         /\ SameSettings(n, s) /\ SameSelection(n, s)
         /\ IsFresh(n)
<1> DEFINE r == Renewed(s)
           n == finalizeNewCalendarScheduleSelectionState(s)
           value == computeScheduleSelectionValue(r)
<1>1. EnabledDays(s) \in SUBSET Index
  BY EnabledAreChosen
<1>2. r = [s EXCEPT !.isEnabledDay = EnabledDays(s)]
  BY DEF Renewed
<1>3. r \in CalendarScheduleSelectionState
  BY <1>1, <1>2 DEF CalendarScheduleSelectionState
<1>4. value \in SelectionValue \cup {None}
  BY <1>3, ValueType
<1>5. n = [r EXCEPT !.currentSelectionValue = value]
  BY DEF finalizeNewCalendarScheduleSelectionState
<1> HIDE DEF r, n, value
<1>6. n \in CalendarScheduleSelectionState
  BY <1>3, <1>4, <1>5 DEF CalendarScheduleSelectionState
<1>7. SameSettings(r, s) /\ SameSelection(r, s) /\ r.isEnabledDay = EnabledDays(s)
  BY <1>1, <1>2 DEF CalendarScheduleSelectionState, SameSettings, SameSelection
<1>8. SameSettings(n, r) /\ SameValue(n, r) /\ n.currentSelectionValue = value
  BY <1>3, <1>4, <1>5 DEF CalendarScheduleSelectionState, SameSettings, SameSelection, SameValue
<1>9. SameSettings(n, s) /\ SameSelection(n, s) /\ n.isEnabledDay = EnabledDays(s)
  BY <1>7, <1>8 DEF SameSettings, SameSelection, SameValue
<1>10. n.isEnabledDay = EnabledDays(n)
  BY <1>9, SameDaysAreEnabled
<1>11. n.currentSelectionValue = computeScheduleSelectionValue(n)
  BY <1>8, SameValueIsComputed DEF value
<1> QED BY <1>6, <1>9, <1>10, <1>11 DEF IsFresh, n

\* A state with another range and other toggled indexes, before anything is renewed.
Selecting(s, a, b, toggled) == [s EXCEPT !.inputStart = a, !.inputEnd = b, !.toggledIndexes = toggled]

\* It is a state of the store, with the settings it had.
LEMMA SelectionType ==
  ASSUME NEW s \in CalendarScheduleSelectionState,
         NEW a \in Int \cup {None}, NEW b \in Int \cup {None}, NEW toggled \in SUBSET Index
  PROVE  LET n == Selecting(s, a, b, toggled) IN
         /\ n \in CalendarScheduleSelectionState
         /\ SameSettings(n, s)
         /\ n.inputStart = a /\ n.inputEnd = b /\ n.toggledIndexes = toggled
<1> DEFINE n == Selecting(s, a, b, toggled)
<1>1. n \in CalendarScheduleSelectionState
  BY DEF CalendarScheduleSelectionState, Selecting
<1>2. n.inputStart = a /\ n.inputEnd = b /\ n.toggledIndexes = toggled
  BY DEF CalendarScheduleSelectionState, Selecting
<1>3. SameSettings(n, s)
  BY DEF CalendarScheduleSelectionState, Selecting, SameSettings
<1> QED BY <1>1, <1>2, <1>3

\* A fresh state shows what its range and toggled indexes stand for.
LEMMA FreshShowsTheChosen ==
  ASSUME NEW n \in CalendarScheduleSelectionState, NEW s, SameSettings(n, s), IsFresh(n)
  PROVE  n.isEnabledDay \cap n.isEnabledFilterDay = Chosen(s, n.inputStart, n.inputEnd, n.toggledIndexes)
BY EnabledAreChosen DEF IsFresh, SameSettings, Chosen, IsAllowed

\* Without a range and toggled indexes nothing is selected.
LEMMA NothingIsSelected ==
  ASSUME NEW s \in CalendarScheduleSelectionState
  PROVE  LET n == noSelectionCalendarScheduleSelectionState(s) IN
         /\ n \in CalendarScheduleSelectionState
         /\ SameSettings(n, s)
         /\ IsFresh(n)
         /\ n.isEnabledDay = {}
<1> DEFINE r == [s EXCEPT !.toggledIndexes = {}, !.inputStart = None, !.inputEnd = None]
           n == noSelectionCalendarScheduleSelectionState(s)
<1>1. r \in CalendarScheduleSelectionState /\ SameSettings(r, s)
  BY DEF CalendarScheduleSelectionState, SameSettings
<1>2. r.inputStart = None /\ r.toggledIndexes = {}
  BY DEF CalendarScheduleSelectionState
<1> HIDE DEF r
<1>3. n = finalizeNewCalendarScheduleSelectionState(r)
  BY DEF noSelectionCalendarScheduleSelectionState, r
<1> HIDE DEF n
<1>4. n \in CalendarScheduleSelectionState /\ SameSettings(n, r) /\ SameSelection(n, r) /\ IsFresh(n)
  BY <1>1, <1>3, FinalizedIsFresh
<1>5. n.inputStart = None /\ n.toggledIndexes = {}
  BY <1>2, <1>4 DEF SameSelection
<1>6. n.isEnabledDay = {}
  BY <1>4, <1>5 DEF IsFresh, EnabledDays, InRange, HasRange
<1>7. SameSettings(n, s)
  BY <1>1, <1>4 DEF SameSettings
<1> QED BY <1>4, <1>6, <1>7 DEF n

\* updateStateWithChangedDates() brings the range and the toggled indexes to another form,
\* but selects what they stand for.
LEMMA ChosenIsSelected ==
  ASSUME NEW s \in CalendarScheduleSelectionState,
         NEW a \in Int \cup {None}, NEW b \in Int \cup {None}, NEW toggled \in SUBSET Index
  PROVE  LET n == WithSelection(s, a, b, toggled) IN
         /\ n \in CalendarScheduleSelectionState
         /\ SameSettings(n, s)
         /\ IsFresh(n)
         /\ n.isEnabledDay \cap n.isEnabledFilterDay = Chosen(s, a, b, toggled)
<1> DEFINE q == Selecting(s, a, b, toggled)
           next == Renewed(q)
           selected == SelectedIndexes(next)
           first == Min(selected)
           last == Max(selected)
           r == [next EXCEPT !.toggledIndexes = Excluded(next),
                             !.inputStart = s.start + first, !.inputEnd = s.start + last]
           n == WithSelection(s, a, b, toggled)
           chosen == Chosen(s, a, b, toggled)
<1>1. /\ q \in CalendarScheduleSelectionState /\ SameSettings(q, s)
      /\ q.inputStart = a /\ q.inputEnd = b /\ q.toggledIndexes = toggled
  BY DEF Selecting, CalendarScheduleSelectionState, SameSettings
<1>2. n = IF selected = {} THEN noSelectionCalendarScheduleSelectionState(next)
          ELSE finalizeNewCalendarScheduleSelectionState(r)
  BY DEF WithSelection, Selecting
<1> HIDE DEF q, n
<1>3. /\ next \in CalendarScheduleSelectionState /\ SameSettings(next, q) /\ SameSelection(next, q)
      /\ next.isEnabledDay = EnabledDays(q)
  <2>1. EnabledDays(q) \in SUBSET Index
    BY <1>1, EnabledAreChosen
  <2> QED BY <1>1, <2>1 DEF Renewed, CalendarScheduleSelectionState, SameSettings, SameSelection
<1>4. next.isEnabledDay = EnabledDays(next)
  BY <1>3, SameDaysAreEnabled
<1>5. SameSettings(next, s) /\ next.inputStart = a /\ next.inputEnd = b /\ next.toggledIndexes = toggled
  BY <1>1, <1>3 DEF SameSettings, SameSelection
<1> HIDE DEF next
<1>6. selected = next.isEnabledDay \cap next.isEnabledFilterDay
  BY <1>3, <1>4, ScanFindsAll
<1>7. selected = chosen
  <2>1. selected = Chosen(next, a, b, toggled)
    BY <1>3, <1>4, <1>5, <1>6, EnabledAreChosen
  <2> QED BY <1>5, <2>1 DEF Chosen, IsAllowed, SameSettings
<1>8. CASE selected = {}
  <2>1. n = noSelectionCalendarScheduleSelectionState(next)
    BY <1>2, <1>8
  <2>2. /\ n \in CalendarScheduleSelectionState /\ SameSettings(n, next)
        /\ IsFresh(n) /\ n.isEnabledDay = {}
    BY <1>3, <2>1, NothingIsSelected
  <2>3. SameSettings(n, s)
    BY <1>5, <2>2 DEF SameSettings
  <2> HIDE DEF selected, chosen
  <2> QED BY <1>7, <1>8, <2>2, <2>3 DEF n, chosen
<1>9. CASE selected # {}
  <2>1. n = finalizeNewCalendarScheduleSelectionState(r)
    BY <1>2, <1>9
  <2>2. /\ selected \in SUBSET Index /\ Excluded(next) \in SUBSET Index
        /\ first \in selected /\ last \in selected
        /\ \A i \in selected : first <= i /\ i <= last
    BY <1>3, <1>9, SelectedAreIndexes
  <2>3. Index \in SUBSET Int /\ s.start \in Int
    BY DaysAssumption DEF Index, Day, CalendarScheduleSelectionState
  <2>4. Excluded(next) = (first..last) \ selected
    BY <1>6 DEF Excluded
  <2> HIDE DEF selected, first, last
  <2>5. s.start + first \in Int /\ s.start + last \in Int /\ first \in Int /\ last \in Int
    BY <2>2, <2>3
  <2>6. /\ r \in CalendarScheduleSelectionState /\ SameSettings(r, next)
        /\ r.inputStart = s.start + first /\ r.inputEnd = s.start + last
        /\ r.toggledIndexes = Excluded(next)
    BY <1>3, <2>2, <2>5 DEF CalendarScheduleSelectionState, SameSettings
  <2> HIDE DEF r
  <2>7. n \in CalendarScheduleSelectionState /\ SameSettings(n, r) /\ SameSelection(n, r) /\ IsFresh(n)
    BY <2>1, <2>6, FinalizedIsFresh
  <2>8. SameSettings(n, s)
    BY <1>5, <2>6, <2>7 DEF SameSettings
  <2>9. n.isEnabledDay \cap n.isEnabledFilterDay
          = Chosen(s, s.start + first, s.start + last, Excluded(next))
    BY <2>6, <2>7, <2>8, FreshShowsTheChosen DEF SameSelection
  <2>10. ASSUME NEW i \in Int
         PROVE  Between(s.start, s.start + first, s.start + last, i) <=> i \in first..last
    BY <2>3, <2>5, NoneAssumption DEF Between
  <2>11. chosen = {i \in s.isEnabledFilterDay : IsAllowed(s, i) /\ i \in selected}
    BY <1>7 DEF Chosen
  <2>12. ASSUME NEW i \in s.isEnabledFilterDay
         PROVE  (Between(s.start, s.start + first, s.start + last, i) <=> i \notin Excluded(next))
                  <=> i \in selected
    <3>1. i \in Int
      BY <2>3 DEF CalendarScheduleSelectionState
    <3>2. i \in selected => i \in first..last
      BY <2>2, <2>5, <3>1
    <3> QED BY <2>4, <2>10, <3>1, <3>2
  <2>13. Chosen(s, s.start + first, s.start + last, Excluded(next)) = chosen
    <3> HIDE DEF chosen
    <3> QED BY <2>11, <2>12 DEF Chosen
  <2> QED BY <2>7, <2>8, <2>9, <2>13 DEF n
<1> QED BY <1>8, <1>9

\* Days and their indexes.
LEMMA DaysOfIndexes ==
  ASSUME NEW start \in Int, NEW C \in SUBSET Int
  PROVE  \A day : day \in {start + i : i \in C} <=> day \in Int /\ day - start \in C
<1>1. ASSUME NEW day \in Int, day - start \in C
      PROVE  day \in {start + i : i \in C}
  <2>1. day = start + (day - start)
    OBVIOUS
  <2> QED BY <1>1, <2>1
<1>2. ASSUME NEW i \in C
      PROVE  start + i \in Int /\ (start + i) - start \in C
  <2>1. (start + i) - start = i
    OBVIOUS
  <2> QED BY <2>1
<1> QED BY <1>1, <1>2

\* The days that are selected in a state, and those of one that is fresh.
LEMMA SelectedDays ==
  ASSUME NEW s \in CalendarScheduleSelectionState
  PROVE  /\ Selected(s) = {s.start + i : i \in Chosen(s, s.inputStart, s.inputEnd, s.toggledIndexes)}
         /\ IsFresh(s) => Selected(s) = {s.start + i : i \in s.isEnabledDay \cap s.isEnabledFilterDay}
BY EnabledAreChosen DEF Selected, IsFresh

\* Days and indexes are numbers, and the distance of two days is an index.
LEMMA DaysAreNumbers ==
  /\ Day \in SUBSET Int /\ Index \in SUBSET Int
  /\ \A a, b \in Day : a - b \in Index
  /\ \A a, b \in Index : a..b \in SUBSET Index
BY DaysAssumption DEF Day, Index

\* The ends of the filter and of the range are days.
LEMMA MinAndMaxType ==
  ASSUME NEW s \in CalendarScheduleSelectionState
  PROVE  MinDate(s) \in Day \cup {None} /\ MaxDate(s) \in Day \cup {None}
<1>1. /\ s.minMaxDateRange.start \in Day \cup {None} /\ s.minMaxDateRange.end \in Day \cup {None}
      /\ s.filter # None => s.filter.start \in Day \cup {None} /\ s.filter.end \in Day \cup {None}
  BY DEF CalendarScheduleSelectionState, Filter
<1> QED BY <1>1 DEF MinDate, MaxDate, Latest, Earliest

\* { set, invertSetBehavior: true } selects what is in the set, between the ends if there
\* are two.
LEMMA SetIsRetained ==
  ASSUME NEW s \in CalendarScheduleSelectionState, NEW set \in SUBSET Index
  PROVE  LET n == RetainSet(s, set) IN
         /\ n \in CalendarScheduleSelectionState
         /\ SameSettings(n, s)
         /\ IsFresh(n)
         /\ LeavesDays(s) =>
              n.isEnabledDay \cap n.isEnabledFilterDay =
                {i \in s.isEnabledFilterDay :
                   /\ IsAllowed(s, i)
                   /\ i \in set
                   /\ HasMinAndMax(s) => MinDate(s) <= s.start + i /\ s.start + i <= MaxDate(s)}
<1> DEFINE n == RetainSet(s, set)
<1>1. s.start \in Day /\ s.start \in Int /\ s.isEnabledFilterDay \in SUBSET Int
  BY DaysAreNumbers DEF CalendarScheduleSelectionState
<1>2. CASE HasMinAndMax(s)
  <2> DEFINE a == MinDate(s)
             b == MaxDate(s)
             toggled == IndexesFrom(IndexOf(s, a), IndexOf(s, b) + 1) \ set
  <2>1. a \in Day /\ b \in Day /\ a # None /\ b # None
    BY <1>2, MinAndMaxType DEF HasMinAndMax
  <2> HIDE DEF a, b
  <2>2. /\ IndexOf(s, a) = a - s.start /\ IndexOf(s, b) = b - s.start
        /\ IndexOf(s, a) \in Index /\ IndexOf(s, b) \in Index
        /\ a \in Int /\ b \in Int
    BY <1>1, <2>1, DaysAreNumbers DEF IndexOf
  <2>3. toggled \in SUBSET Index
    BY <2>2, DaysAssumption DEF IndexesFrom, Index
  <2>4. n = WithSelection(s, a, b, toggled)
    BY <1>2 DEF RetainSet, a, b
  <2>5. /\ n \in CalendarScheduleSelectionState /\ SameSettings(n, s) /\ IsFresh(n)
        /\ n.isEnabledDay \cap n.isEnabledFilterDay = Chosen(s, a, b, toggled)
    <3> HIDE DEF toggled, n
    <3> QED BY <2>2, <2>3, <2>4, ChosenIsSelected
  <2>6. ASSUME LeavesDays(s), NEW i \in s.isEnabledFilterDay
        PROVE  (Between(s.start, a, b, i) <=> i \notin toggled)
                 <=> i \in set /\ a <= s.start + i /\ s.start + i <= b
    <3>1. i \in Int /\ a <= b
      BY <1>1, <1>2, <2>6 DEF LeavesDays, a, b
    <3>2. Between(s.start, a, b, i) <=> a <= s.start + i /\ s.start + i <= b
      BY <1>1, <2>1, <2>2, <3>1 DEF Between
    <3>3. i \in IndexesFrom(IndexOf(s, a), IndexOf(s, b) + 1) <=> a <= s.start + i /\ s.start + i <= b
      BY <1>1, <2>2, <3>1 DEF IndexesFrom
    <3> QED BY <3>2, <3>3
  <2> HIDE DEF toggled
  <2>7. LeavesDays(s) =>
          Chosen(s, a, b, toggled) =
            {i \in s.isEnabledFilterDay :
               IsAllowed(s, i) /\ i \in set /\ a <= s.start + i /\ s.start + i <= b}
    BY <2>6 DEF Chosen
  <2> QED BY <1>2, <2>5, <2>7 DEF a, b
<1>3. CASE ~HasMinAndMax(s) /\ set # {}
  <2> DEFINE first == Min(set)
             last == Max(set)
             toggled == (first..last) \ set
  <2>1. /\ first \in set /\ last \in set
        /\ \A i \in set : first <= i /\ i <= last
    <3>1. 0 - LastDay \in Int /\ LastDay \in Int /\ set \in SUBSET ((0 - LastDay)..LastDay)
      BY DaysAssumption DEF Index
    <3> QED BY <1>3, <3>1, EndsOfSet
  <2>2. n = WithSelection(s, s.start + first, s.start + last, toggled)
    BY <1>3 DEF RetainSet
  <2> HIDE DEF first, last, n
  <2>3. first \in Int /\ last \in Int /\ first \in Index /\ last \in Index
    BY <2>1, DaysAreNumbers
  <2>4. /\ toggled \in SUBSET Index
        /\ s.start + first \in Int /\ s.start + last \in Int
    BY <1>1, <2>3, DaysAreNumbers
  <2> HIDE DEF toggled
  <2>5. /\ n \in CalendarScheduleSelectionState /\ SameSettings(n, s) /\ IsFresh(n)
        /\ n.isEnabledDay \cap n.isEnabledFilterDay = Chosen(s, s.start + first, s.start + last, toggled)
    BY <2>2, <2>4, ChosenIsSelected
  <2>6. ASSUME NEW i \in s.isEnabledFilterDay
        PROVE  (Between(s.start, s.start + first, s.start + last, i) <=> i \notin toggled) <=> i \in set
    <3>1. i \in Int
      BY <1>1
    <3>2. Between(s.start, s.start + first, s.start + last, i) <=> i \in first..last
      BY <1>1, <2>3, <2>4, <3>1, NoneAssumption DEF Between
    <3>3. i \in set => i \in first..last
      BY <2>1, <2>3, <3>1
    <3> QED BY <3>2, <3>3 DEF toggled
  <2>7. Chosen(s, s.start + first, s.start + last, toggled)
          = {i \in s.isEnabledFilterDay : IsAllowed(s, i) /\ i \in set}
    BY <2>6 DEF Chosen
  <2> QED BY <1>3, <2>5, <2>7 DEF n
<1>4. CASE ~HasMinAndMax(s) /\ set = {}
  <2>1. n = WithSelection(s, None, None, {})
    BY <1>4 DEF RetainSet
  <2> HIDE DEF n
  <2>2. /\ n \in CalendarScheduleSelectionState /\ SameSettings(n, s) /\ IsFresh(n)
        /\ n.isEnabledDay \cap n.isEnabledFilterDay = Chosen(s, None, None, {})
    BY <2>1, ChosenIsSelected
  <2>3. Chosen(s, None, None, {}) = {}
    BY DEF Chosen, Between
  <2> QED BY <1>4, <2>2, <2>3 DEF n
<1> QED BY <1>2, <1>3, <1>4

-----------------------------------------------------------------------------
(* The days of the week change *)

\* Two states show the same selection and value.
SameShown(n, s) ==
  /\ n.inputStart = s.inputStart /\ n.inputEnd = s.inputEnd /\ n.toggledIndexes = s.toggledIndexes
  /\ n.effectiveScheduleDays = s.effectiveScheduleDays
  /\ n.currentSelectionValue = s.currentSelectionValue

\* What is made of the same is fresh if the other one is.
LEMMA SameIsFresh ==
  ASSUME NEW n, NEW s, SameValue(n, s), n.currentSelectionValue = s.currentSelectionValue, IsFresh(s)
  PROVE  IsFresh(n)
BY SameDaysAreEnabled, SameValueIsComputed DEF SameValue, IsFresh

\* The days of the week are brought up to date.
LEMMA DaysAreUpToDate ==
  ASSUME NEW s \in CalendarScheduleSelectionState, NEW next \in CalendarScheduleSelectionState,
         next.effectiveScheduleDays = s.effectiveScheduleDays
  PROVE  LET n == finalizeUpdateStateWithChangedScheduleDays(s, next) IN
         /\ n \in CalendarScheduleSelectionState
         /\ DaysFollow(n)
         /\ n.scheduleDays = next.scheduleDays
         /\ n.start = next.start /\ n.isEnabledFilterDay = next.isEnabledFilterDay
         /\ n.inputStart = next.inputStart /\ n.inputEnd = next.inputEnd
         /\ n.toggledIndexes = next.toggledIndexes
         /\ IsFresh(n) \/ n = next
<1> DEFINE n == finalizeUpdateStateWithChangedScheduleDays(s, next)
           days == IF next.scheduleDays # None THEN next.scheduleDays ELSE next.defaultScheduleDays
           simple == simplifyDateCellScheduleDayCodes(days)
           q == [next EXCEPT !.effectiveScheduleDays = simple]
<1>1. days \in SUBSET DayCode
  BY DEF CalendarScheduleSelectionState
<1>2. simple \in SUBSET DayCode /\ dateCellScheduleDayCodesAreSetsEquivalent(simple, days)
  <2> HIDE DEF days
  <2> QED BY <1>1, SimplifiedCodesAreCodes, SimplifiedCodesKeepTheirDays
<1>3. CASE dateCellScheduleDayCodesAreSetsEquivalent(days, s.effectiveScheduleDays)
  <2>1. n = next
    BY <1>3 DEF finalizeUpdateStateWithChangedScheduleDays
  <2>2. DaysFollow(next)
    BY <1>3 DEF DaysFollow
  <2> QED BY <2>1, <2>2
<1>4. CASE ~dateCellScheduleDayCodesAreSetsEquivalent(days, s.effectiveScheduleDays)
  <2>1. n = finalizeNewCalendarScheduleSelectionState(q)
    BY <1>4 DEF finalizeUpdateStateWithChangedScheduleDays
  <2> HIDE DEF n, simple
  <2>2. /\ q \in CalendarScheduleSelectionState
        /\ q.effectiveScheduleDays = simple
        /\ q.scheduleDays = next.scheduleDays /\ q.defaultScheduleDays = next.defaultScheduleDays
        /\ q.start = next.start /\ q.isEnabledFilterDay = next.isEnabledFilterDay
        /\ q.inputStart = next.inputStart /\ q.inputEnd = next.inputEnd
        /\ q.toggledIndexes = next.toggledIndexes
    BY <1>2 DEF CalendarScheduleSelectionState
  <2> HIDE DEF q
  <2>3. n \in CalendarScheduleSelectionState /\ SameSettings(n, q) /\ SameSelection(n, q) /\ IsFresh(n)
    BY <2>1, <2>2, FinalizedIsFresh
  <2>4. DaysFollow(n)
    BY <1>2, <2>2, <2>3 DEF DaysFollow, SameSettings, dateCellScheduleDayCodesAreSetsEquivalent
  <2> QED BY <2>2, <2>3, <2>4 DEF SameSettings, SameSelection, n
<1> QED BY <1>3, <1>4

\* Setting the days of the week leaves everything else, and the selection fresh if it was.
LEMMA ScheduleDaysAreSet ==
  ASSUME NEW s \in CalendarScheduleSelectionState, DaysFollow(s),
         NEW days \in {None} \cup SUBSET DayCode
  PROVE  LET n == updateStateWithChangedScheduleDays(s, days) IN
         /\ n \in CalendarScheduleSelectionState
         /\ DaysFollow(n)
         /\ n.start = s.start /\ n.isEnabledFilterDay = s.isEnabledFilterDay
         /\ n.inputStart = s.inputStart /\ n.inputEnd = s.inputEnd
         /\ n.toggledIndexes = s.toggledIndexes
         /\ IsFresh(n) \/ SameShown(n, s)
         /\ IsFresh(s) => IsFresh(n)
         /\ days # None => dateCellScheduleDayCodesAreSetsEquivalent(days, n.effectiveScheduleDays)
<1> DEFINE n == updateStateWithChangedScheduleDays(s, days)
           next == [s EXCEPT !.scheduleDays = days]
           isSame == \/ days = None /\ s.scheduleDays = None
                     \/ /\ days # None /\ s.scheduleDays # None
                        /\ dateCellScheduleDayCodesAreSetsEquivalent(days, s.scheduleDays)
<1>1. CASE isSame
  <2>1. n = s
    BY <1>1 DEF updateStateWithChangedScheduleDays
  <2>2. days # None => dateCellScheduleDayCodesAreSetsEquivalent(days, s.effectiveScheduleDays)
    BY <1>1 DEF DaysFollow, dateCellScheduleDayCodesAreSetsEquivalent
  <2> QED BY <2>1, <2>2 DEF SameShown
<1>2. CASE ~isSame
  <2>1. n = finalizeUpdateStateWithChangedScheduleDays(s, next)
    BY <1>2 DEF updateStateWithChangedScheduleDays
  <2>2. /\ next \in CalendarScheduleSelectionState /\ next.scheduleDays = days
        /\ SameValue(next, s) /\ next.currentSelectionValue = s.currentSelectionValue
    BY DEF CalendarScheduleSelectionState, SameValue, SameSelection
  <2> HIDE DEF n, next, isSame
  <2>3. /\ n \in CalendarScheduleSelectionState
        /\ DaysFollow(n)
        /\ n.scheduleDays = next.scheduleDays
        /\ n.start = next.start /\ n.isEnabledFilterDay = next.isEnabledFilterDay
        /\ n.inputStart = next.inputStart /\ n.inputEnd = next.inputEnd
        /\ n.toggledIndexes = next.toggledIndexes
        /\ IsFresh(n) \/ n = next
    BY <2>1, <2>2, DaysAreUpToDate DEF SameValue, SameSelection
  <2>4. IsFresh(s) => IsFresh(next)
    BY <2>2, SameIsFresh
  <2>5. SameShown(next, s)
    BY <2>2 DEF SameShown, SameValue, SameSelection
  <2>6. days # None => dateCellScheduleDayCodesAreSetsEquivalent(days, n.effectiveScheduleDays)
    BY <2>2, <2>3 DEF DaysFollow
  <2> QED BY <2>2, <2>3, <2>4, <2>5, <2>6 DEF SameValue, SameSelection, n
<1> QED BY <1>1, <1>2

-----------------------------------------------------------------------------
(* Every update *)

\* An update leaves a state whose value is that of its selection, or neither changes.
IsUpdateOf(n, s) ==
  /\ n \in CalendarScheduleSelectionState
  /\ DaysFollow(n)
  /\ IsFresh(n) \/ SameShown(n, s)

\* The state before an update.
IsKept(s) == s \in CalendarScheduleSelectionState /\ DaysFollow(s)

\* A fresh state with the settings of another one is an update of any.
LEMMA FreshIsUpdate ==
  ASSUME NEW n, NEW r, NEW s, IsKept(r),
         n \in CalendarScheduleSelectionState, SameSettings(n, r), IsFresh(n)
  PROVE  IsUpdateOf(n, s)
BY DEF IsUpdateOf, IsKept, SameSettings, DaysFollow

\* An update of the range and the toggled indexes.
LEMMA SelectionUpdates ==
  ASSUME NEW r, IsKept(r), NEW s,
         NEW a \in Int \cup {None}, NEW b \in Int \cup {None}, NEW toggled \in SUBSET Index
  PROVE  IsUpdateOf(WithSelection(r, a, b, toggled), s)
<1> DEFINE n == WithSelection(r, a, b, toggled)
<1>1. n \in CalendarScheduleSelectionState /\ SameSettings(n, r) /\ IsFresh(n)
  BY ChosenIsSelected DEF IsKept
<1> HIDE DEF n
<1> QED BY <1>1, FreshIsUpdate DEF n

\* Selecting what is in a set is an update.
LEMMA RetainingUpdates ==
  ASSUME NEW r, IsKept(r), NEW s, NEW set \in SUBSET Index
  PROVE  IsUpdateOf(RetainSet(r, set), s)
<1> DEFINE n == RetainSet(r, set)
<1>1. n \in CalendarScheduleSelectionState /\ SameSettings(n, r) /\ IsFresh(n)
  BY SetIsRetained DEF IsKept
<1> HIDE DEF n
<1> QED BY <1>1, FreshIsUpdate DEF n

\* Toggling an index is one, in either mode.
LEMMA TogglingUpdates ==
  ASSUME NEW s, IsKept(s), NEW i \in Index
  PROVE  IsUpdateOf(Toggled(s, i), s)
<1>1. s \in CalendarScheduleSelectionState
  BY DEF IsKept
<1>2. s.inputStart \in Int \cup {None} /\ s.inputEnd \in Int \cup {None} /\ s.toggledIndexes \in SUBSET Index
  BY <1>1 DEF CalendarScheduleSelectionState
<1>3. CASE s.selectionMode = "single"
  <2>1. \E set \in SUBSET Index : Toggled(s, i) = RetainSet(s, set)
    <3>1. {} \in SUBSET Index /\ {i} \in SUBSET Index
      OBVIOUS
    <3> QED BY <1>3, <3>1 DEF Toggled
  <2> QED BY <2>1, RetainingUpdates
<1>4. CASE s.selectionMode # "single"
  <2>1. PICK toggled \in SUBSET Index : Toggled(s, i) = WithSelection(s, s.inputStart, s.inputEnd, toggled)
    <3>1. SymDiff(s.toggledIndexes, {i}) \in SUBSET Index
      BY <1>2 DEF SymDiff
    <3> QED BY <1>2, <1>4, <3>1 DEF Toggled
  <2>2. IsUpdateOf(WithSelection(s, s.inputStart, s.inputEnd, toggled), s)
    BY <1>2, SelectionUpdates
  <2> QED BY <2>1, <2>2
<1> QED BY <1>3, <1>4

\* So is selecting all or nothing,
LEMMA AllOrNoneUpdates ==
  ASSUME NEW r, IsKept(r), NEW s, NEW all
  PROVE  IsUpdateOf(WithAllOrNone(r, all), s)
<1>1. r \in CalendarScheduleSelectionState
  BY DEF IsKept
<1>2. /\ r.inputStart \in Int \cup {None} /\ r.inputEnd \in Int \cup {None}
      /\ MinDate(r) \in Int \cup {None} /\ MaxDate(r) \in Int \cup {None}
  BY <1>1, MinAndMaxType, DaysAreNumbers DEF CalendarScheduleSelectionState
<1>3. \E a, b \in Int \cup {None} : WithAllOrNone(r, all) = WithSelection(r, a, b, {})
  BY <1>2 DEF WithAllOrNone
<1> QED BY <1>3, SelectionUpdates

\* setting the range, or leaving it,
LEMMA RangeUpdates ==
  ASSUME NEW s, IsKept(s), NEW a \in Int, NEW b \in Int
  PROVE  IsUpdateOf(updateStateWithChangedRange(s, a, b), s)
<1> DEFINE next == [s EXCEPT !.inputStart = a, !.inputEnd = b]
           q == [next EXCEPT !.toggledIndexes = {i \in @ : InRange(next, i)}]
           n == updateStateWithChangedRange(s, a, b)
<1>1. n = finalizeNewCalendarScheduleSelectionState(q) \/ n = s
  BY DEF updateStateWithChangedRange
<1>2. s \in CalendarScheduleSelectionState
  BY DEF IsKept
<1>3. next \in CalendarScheduleSelectionState /\ SameSettings(next, s)
  BY <1>2 DEF CalendarScheduleSelectionState, SameSettings
<1> HIDE DEF next
<1>4. {i \in next.toggledIndexes : InRange(next, i)} \in SUBSET Index
  BY <1>3 DEF CalendarScheduleSelectionState
<1>5. q \in CalendarScheduleSelectionState /\ SameSettings(q, next)
  BY <1>3, <1>4 DEF CalendarScheduleSelectionState, SameSettings
<1> HIDE DEF q, n
<1>6. CASE n = s
  BY <1>6 DEF IsUpdateOf, IsKept, SameShown, n
<1>7. CASE n = finalizeNewCalendarScheduleSelectionState(q)
  <2>1. n \in CalendarScheduleSelectionState /\ SameSettings(n, q) /\ IsFresh(n)
    BY <1>5, <1>7, FinalizedIsFresh
  <2>2. SameSettings(n, s)
    BY <1>3, <1>5, <2>1 DEF SameSettings
  <2> QED BY <2>1, <2>2, FreshIsUpdate DEF n
<1> QED BY <1>1, <1>6, <1>7

\* What is not part of the selection may be set alone.
LEMMA SettingsUpdate ==
  ASSUME NEW n \in CalendarScheduleSelectionState, NEW s, IsKept(s), SameShown(n, s),
         n.scheduleDays = s.scheduleDays, n.defaultScheduleDays = s.defaultScheduleDays
  PROVE  IsUpdateOf(n, s) /\ IsKept(n)
BY DEF IsUpdateOf, IsKept, SameShown, DaysFollow

\* setting the mode, which may reduce the selection to one day,
LEMMA ModeUpdates ==
  ASSUME NEW s, IsKept(s), NEW mode \in {"multiple", "single"}
  PROVE  IsUpdateOf(updateStateWithSelectionMode(s, mode), s)
<1> DEFINE next == [s EXCEPT !.selectionMode = mode]
           selected == SelectedIndexes(next)
           n == updateStateWithSelectionMode(s, mode)
<1>1. n = next \/ (selected # {} /\ n = RetainSet(next, {Min(selected)}))
  BY DEF updateStateWithSelectionMode
<1>2. s \in CalendarScheduleSelectionState
  BY DEF IsKept
<1>3. /\ next \in CalendarScheduleSelectionState /\ SameShown(next, s)
      /\ next.scheduleDays = s.scheduleDays /\ next.defaultScheduleDays = s.defaultScheduleDays
  BY <1>2 DEF CalendarScheduleSelectionState, SameShown
<1> HIDE DEF next, n
<1>4. IsUpdateOf(next, s) /\ IsKept(next)
  BY <1>3, SettingsUpdate
<1>5. selected # {} => {Min(selected)} \in SUBSET Index
  BY <1>3, SelectedAreIndexes
<1> HIDE DEF selected
<1>6. CASE selected # {} /\ n = RetainSet(next, {Min(selected)})
  BY <1>4, <1>5, <1>6, RetainingUpdates DEF n
<1> QED BY <1>1, <1>4, <1>6 DEF n

\* and setting the default days of the week.
LEMMA DefaultDaysUpdate ==
  ASSUME NEW s, IsKept(s), NEW days \in SUBSET DayCode
  PROVE  IsUpdateOf(updateStateWithChangedDefaultScheduleDays(s, days), s)
<1> DEFINE next == [s EXCEPT !.defaultScheduleDays = days]
           n == updateStateWithChangedDefaultScheduleDays(s, days)
<1>1. n = s \/ n = finalizeUpdateStateWithChangedScheduleDays(s, next)
  BY DEF updateStateWithChangedDefaultScheduleDays
<1>2. s \in CalendarScheduleSelectionState
  BY DEF IsKept
<1>3. next \in CalendarScheduleSelectionState /\ SameShown(next, s)
  BY <1>2 DEF CalendarScheduleSelectionState, SameShown
<1> HIDE DEF next, n
<1>4. CASE n = finalizeUpdateStateWithChangedScheduleDays(s, next)
  <2>1. n \in CalendarScheduleSelectionState /\ DaysFollow(n) /\ (IsFresh(n) \/ n = next)
    BY <1>2, <1>3, <1>4, DaysAreUpToDate DEF SameShown
  <2> QED BY <1>3, <2>1 DEF IsUpdateOf, n
<1>5. CASE n = s
  BY <1>5 DEF IsUpdateOf, IsKept, SameShown, n
<1> QED BY <1>1, <1>4, <1>5

\* Setting the days of the week, or taking them back, is an update.
LEMMA ScheduleDaysUpdate ==
  ASSUME NEW s, IsKept(s), NEW days \in {None} \cup SUBSET DayCode
  PROVE  IsUpdateOf(updateStateWithChangedScheduleDays(s, days), s)
<1> DEFINE n == updateStateWithChangedScheduleDays(s, days)
<1>1. n \in CalendarScheduleSelectionState /\ DaysFollow(n) /\ (IsFresh(n) \/ SameShown(n, s))
  BY ScheduleDaysAreSet DEF IsKept
<1> QED BY <1>1 DEF IsUpdateOf

\* A value is set: the range and the exclusions are taken from it, and its days of the week.
LEMMA ValueIsSet ==
  ASSUME NEW s, IsKept(s), NEW value \in Values, value # s.currentSelectionValue
  PROVE  LET n == updateStateWithDateCellScheduleRangeValue(s, value) IN
         /\ n \in CalendarScheduleSelectionState
         /\ DaysFollow(n)
         /\ IsFresh(n)
         /\ n.start = s.start /\ n.isEnabledFilterDay = s.isEnabledFilterDay
         /\ n.inputStart = value.start /\ n.inputEnd = value.end /\ n.toggledIndexes = value.ex
         /\ value.w # {} => DaysOfWeek(n.effectiveScheduleDays) = DaysOfWeek(value.w)
<1> DEFINE codes == IF value.w = {} THEN fullWeekDateCellScheduleDayCodes ELSE value.w
           days == expandDateCellScheduleDayCodes(codes)
           q == Selecting(s, value.start, value.end, value.ex)
           f == finalizeNewCalendarScheduleSelectionState(q)
           n == updateStateWithDateCellScheduleRangeValue(s, value)
<1>1. s \in CalendarScheduleSelectionState
  BY DEF IsKept
<1>2. /\ value \in [start : Day, end : Day, w : SUBSET DayCode, ex : SUBSET Day]
      /\ value.start \in Int /\ value.end \in Int /\ value.ex \in SUBSET Index
      /\ value.w \in SUBSET DayCode
      /\ value # None
  <2>1. value \in [start : Day, end : Day, w : SUBSET DayCode, ex : SUBSET Day]
    BY InputsAssumption
  <2>2. Day \in SUBSET Index
    BY DaysAssumption DEF Day, Index
  <2>3. value \in SelectionValue
    BY <2>1, DaysAreNumbers DEF SelectionValue
  <2> QED BY <2>1, <2>2, <2>3, DaysAreNumbers, NothingAssumption
<1>3. codes \in SUBSET DayCode /\ days \in SUBSET DayCode /\ expandDateCellScheduleDayCodes(days) = days
  <2>1. codes \in SUBSET DayCode
    BY <1>2 DEF fullWeekDateCellScheduleDayCodes, DayCode, WEEKDAY, WEEKEND
  <2> HIDE DEF codes
  <2> QED BY <2>1, ExpandedCodesAreDays
<1>4. n = updateStateWithChangedScheduleDays(f, days)
  BY <1>2 DEF updateStateWithDateCellScheduleRangeValue, Selecting
<1> HIDE DEF q, n, days
<1>5. /\ q \in CalendarScheduleSelectionState /\ SameSettings(q, s)
      /\ q.inputStart = value.start /\ q.inputEnd = value.end /\ q.toggledIndexes = value.ex
  BY <1>1, <1>2, SelectionType DEF q
<1>6. f \in CalendarScheduleSelectionState /\ SameSettings(f, q) /\ SameSelection(f, q) /\ IsFresh(f)
  BY <1>5, FinalizedIsFresh
<1> HIDE DEF f
<1>7. DaysFollow(f)
  BY <1>5, <1>6 DEF IsKept, DaysFollow, SameSettings
<1>8. days # None
  BY <1>3, NothingAssumption
<1>9. /\ n \in CalendarScheduleSelectionState /\ DaysFollow(n)
      /\ n.start = f.start /\ n.isEnabledFilterDay = f.isEnabledFilterDay
      /\ n.inputStart = f.inputStart /\ n.inputEnd = f.inputEnd /\ n.toggledIndexes = f.toggledIndexes
      /\ IsFresh(n)
      /\ dateCellScheduleDayCodesAreSetsEquivalent(days, n.effectiveScheduleDays)
  BY <1>3, <1>4, <1>6, <1>7, <1>8, ScheduleDaysAreSet
<1>10. value.w # {} => DaysOfWeek(n.effectiveScheduleDays) = DaysOfWeek(value.w)
  BY <1>3, <1>9 DEF dateCellScheduleDayCodesAreSetsEquivalent, DaysOfWeek, days
<1> QED BY <1>5, <1>6, <1>9, <1>10 DEF SameSettings, SameSelection, n

\* Setting a value or none is an update.
LEMMA ValueUpdates ==
  ASSUME NEW s, IsKept(s), NEW value \in Values \cup {None}
  PROVE  IsUpdateOf(updateStateWithDateCellScheduleRangeValue(s, value), s)
<1> DEFINE n == updateStateWithDateCellScheduleRangeValue(s, value)
<1>1. CASE value = s.currentSelectionValue
  <2>1. n = s
    BY <1>1 DEF updateStateWithDateCellScheduleRangeValue
  <2> QED BY <2>1 DEF IsUpdateOf, IsKept, SameShown
<1>2. CASE value # s.currentSelectionValue /\ value = None
  <2>1. n = noSelectionCalendarScheduleSelectionState(s)
    BY <1>2 DEF updateStateWithDateCellScheduleRangeValue
  <2>2. n \in CalendarScheduleSelectionState /\ SameSettings(n, s) /\ IsFresh(n)
    BY <2>1, NothingIsSelected DEF IsKept
  <2> HIDE DEF n
  <2> QED BY <2>2, FreshIsUpdate DEF n
<1>3. CASE value # s.currentSelectionValue /\ value # None
  <2>1. value \in Values
    BY <1>3
  <2> QED BY <1>3, <2>1, ValueIsSet DEF IsUpdateOf
<1> QED BY <1>1, <1>2, <1>3

\* Setting the initial selection is one, which may select everything,
LEMMA InitialSelectionUpdates ==
  ASSUME NEW r, IsKept(r), NEW initial \in {"all", "none"}
  PROVE  IsUpdateOf(updateStateWithInitialSelectionState(r, initial), r)
<1> DEFINE q == IF r.toggledIndexes = {} /\ initial = "all" THEN WithAllOrNone(r, initial) ELSE r
           n == updateStateWithInitialSelectionState(r, initial)
<1>1. IsUpdateOf(q, r)
  <2>1. IsUpdateOf(r, r)
    BY DEF IsUpdateOf, IsKept, SameShown
  <2> QED BY <2>1, AllOrNoneUpdates
<1>2. n = [q EXCEPT !.initialSelectionState = initial]
  BY DEF updateStateWithInitialSelectionState
<1> HIDE DEF q
<1>3. q \in CalendarScheduleSelectionState
  BY <1>1 DEF IsUpdateOf
<1>4. /\ n \in CalendarScheduleSelectionState /\ SameValue(n, q) /\ SameShown(n, q)
      /\ n.scheduleDays = q.scheduleDays /\ n.defaultScheduleDays = q.defaultScheduleDays
      /\ n.currentSelectionValue = q.currentSelectionValue
  BY <1>2, <1>3 DEF CalendarScheduleSelectionState, SameValue, SameSelection, SameShown
<1> HIDE DEF n
<1>5. IsFresh(q) => IsFresh(n)
  BY <1>4, SameIsFresh
<1>6. SameShown(q, r) => SameShown(n, r)
  BY <1>4 DEF SameShown
<1>7. DaysFollow(n)
  BY <1>1, <1>4 DEF IsUpdateOf, DaysFollow, SameShown
<1> QED BY <1>1, <1>4, <1>5, <1>6, <1>7 DEF IsUpdateOf, n

\* and so is setting whether values are relative to the filter.
LEMMA RelativeUpdates ==
  ASSUME NEW s, IsKept(s), NEW isRelative \in BOOLEAN
  PROVE  IsUpdateOf(updateStateWithComputeSelectionResultRelativeToFilter(s, isRelative), s)
<1> DEFINE next == [s EXCEPT !.computeSelectionResultRelativeToFilter = isRelative]
           n == updateStateWithComputeSelectionResultRelativeToFilter(s, isRelative)
<1>1. n = next \/ n = WithSelection(next, s.inputStart, s.inputEnd, s.toggledIndexes)
  BY DEF updateStateWithComputeSelectionResultRelativeToFilter
<1>2. s \in CalendarScheduleSelectionState
  BY DEF IsKept
<1>3. /\ next \in CalendarScheduleSelectionState /\ SameShown(next, s)
      /\ next.scheduleDays = s.scheduleDays /\ next.defaultScheduleDays = s.defaultScheduleDays
  BY <1>2 DEF CalendarScheduleSelectionState, SameShown
<1> HIDE DEF next
<1>4. IsUpdateOf(next, s) /\ IsKept(next)
  BY <1>3, SettingsUpdate
<1>5. s.inputStart \in Int \cup {None} /\ s.inputEnd \in Int \cup {None} /\ s.toggledIndexes \in SUBSET Index
  BY <1>2 DEF CalendarScheduleSelectionState
<1>6. IsUpdateOf(WithSelection(next, s.inputStart, s.inputEnd, s.toggledIndexes), s)
  BY <1>4, <1>5, SelectionUpdates
<1> QED BY <1>1, <1>4, <1>6

\* The filter that is kept is one.
LEMMA FilterType ==
  ASSUME NEW s \in CalendarScheduleSelectionState, NEW input \in Filter \cup {None}
  PROVE  CopiedFilter(s, input) \in Filter \cup {None}
<1> DEFINE f == IF input # None THEN input
                ELSE [start |-> None, end |-> None, w |-> fullWeekDateCellScheduleDayCodes, ex |-> {},
                      minMaxDateRange |-> NoRange, setStartAsMinDate |-> TRUE]
           start == IF f.start # None THEN f.start ELSE s.start
           ex == f.ex \cup s.computedExclusions
           range == IF s.minMaxDateRange # NoRange THEN s.minMaxDateRange ELSE f.minMaxDateRange
           isMin == IF s.minMaxDateRange # NoRange THEN f.start # None ELSE f.setStartAsMinDate
<1>1. f \in Filter
  <2>1. fullWeekDateCellScheduleDayCodes \in SUBSET DayCode
    BY DEF fullWeekDateCellScheduleDayCodes, DayCode, WEEKDAY, WEEKEND
  <2>2. [start |-> None, end |-> None, w |-> fullWeekDateCellScheduleDayCodes, ex |-> {},
         minMaxDateRange |-> NoRange, setStartAsMinDate |-> TRUE] \in Filter
    BY <2>1 DEF Filter, NoRange
  <2> QED BY <2>2
<1>2. EnabledFilter(s, input) =
        [f EXCEPT !.start = start, !.ex = ex, !.minMaxDateRange = range, !.setStartAsMinDate = isMin]
  BY <1>1 DEF EnabledFilter, Filter
<1> HIDE DEF f
<1>3. /\ start \in Day \cup {None} /\ ex \in SUBSET Int /\ isMin \in BOOLEAN
      /\ range \in [start : Day \cup {None}, end : Day \cup {None}]
  <2>1. s.computedExclusions \in SUBSET Int
    BY DaysAreNumbers DEF CalendarScheduleSelectionState
  <2> QED BY <1>1, <2>1 DEF Filter, CalendarScheduleSelectionState
<1> HIDE DEF start, ex, range, isMin
<1>4. EnabledFilter(s, input) \in Filter
  BY <1>1, <1>2, <1>3 DEF Filter
<1> QED BY <1>4 DEF CopiedFilter

\* Setting the filter is an update, with what it sets after it.
LEMMA FilterUpdates ==
  ASSUME NEW s, IsKept(s), NEW input \in Filter \cup {None}
  PROVE  IsUpdateOf(updateStateWithFilter(s, input), s)
<1> DEFINE filter == CopiedFilter(s, input)
           enabled == IF input = None /\ s.computedExclusions = {} /\ s.minMaxDateRange = NoRange THEN Index
                      ELSE LET f == EnabledFilter(s, input)
                           IN {i \in Index : FilterAllows(f, f.start + i)}
           start == IF filter # None /\ filter.start # None THEN filter.start ELSE s.start
           filtered == [s EXCEPT !.filter = filter, !.isEnabledFilterDay = enabled, !.start = start]
           next == IF filtered.initialSelectionState # None
                   THEN updateStateWithInitialSelectionState(filtered, filtered.initialSelectionState)
                   ELSE filtered
           n == updateStateWithFilter(s, input)
<1>1. n = IF HasRange(next) THEN updateStateWithChangedRange(next, next.inputStart, next.inputEnd) ELSE next
  BY DEF updateStateWithFilter
<1>2. s \in CalendarScheduleSelectionState
  BY DEF IsKept
<1>3. filter \in Filter \cup {None} /\ enabled \in SUBSET Index
  BY <1>2, FilterType
<1> HIDE DEF filter, enabled
<1>4. start \in Day
  BY <1>2, <1>3 DEF Filter, CalendarScheduleSelectionState
<1> HIDE DEF start
<1>5. /\ filtered \in CalendarScheduleSelectionState /\ SameShown(filtered, s)
      /\ filtered.scheduleDays = s.scheduleDays /\ filtered.defaultScheduleDays = s.defaultScheduleDays
  BY <1>2, <1>3, <1>4 DEF CalendarScheduleSelectionState, SameShown
<1> HIDE DEF filtered
<1>6. IsUpdateOf(filtered, s) /\ IsKept(filtered)
  BY <1>5, SettingsUpdate
<1>7. IsUpdateOf(next, filtered)
  <2>1. CASE filtered.initialSelectionState # None
    <3>1. filtered.initialSelectionState \in {"all", "none"}
      BY <1>5, <2>1 DEF CalendarScheduleSelectionState
    <3> QED BY <1>6, <2>1, <3>1, InitialSelectionUpdates
  <2>2. CASE filtered.initialSelectionState = None
    BY <1>6, <2>2 DEF IsUpdateOf, IsKept, SameShown
  <2> QED BY <2>1, <2>2
<1> HIDE DEF next
<1>8. IsUpdateOf(next, s)
  BY <1>5, <1>7 DEF IsUpdateOf, SameShown
<1>9. \* the range has not changed
      updateStateWithChangedRange(next, next.inputStart, next.inputEnd) = next
  BY DEF updateStateWithChangedRange
<1> QED BY <1>1, <1>8, <1>9

\* Exclusions and the range are set before the filter is.
LEMMA FilterOfOthersUpdates ==
  ASSUME NEW s, IsKept(s), NEW r \in CalendarScheduleSelectionState, SameShown(r, s),
         r.scheduleDays = s.scheduleDays, r.defaultScheduleDays = s.defaultScheduleDays
  PROVE  IsUpdateOf(updateStateWithFilter(r, s.filter), s)
<1> DEFINE n == updateStateWithFilter(r, s.filter)
<1>1. IsKept(r)
  BY SettingsUpdate
<1>2. s.filter \in Filter \cup {None}
  BY DEF IsKept, CalendarScheduleSelectionState
<1>3. IsUpdateOf(n, r)
  BY <1>1, <1>2, FilterUpdates
<1> HIDE DEF n
<1>4. IsUpdateOf(n, s)
  BY <1>3 DEF IsUpdateOf, SameShown
<1> QED BY <1>4 DEF n

\* Setting the range of days that are permitted is an update,
LEMMA MinMaxUpdates ==
  ASSUME NEW s, IsKept(s), NEW range \in [start : Day \cup {None}, end : Day \cup {None}]
  PROVE  IsUpdateOf(updateStateWithMinMaxDateRange(s, range), s)
<1> DEFINE r == [s EXCEPT !.minMaxDateRange = range]
<1>1. /\ r \in CalendarScheduleSelectionState /\ SameShown(r, s)
      /\ r.scheduleDays = s.scheduleDays /\ r.defaultScheduleDays = s.defaultScheduleDays
  BY DEF IsKept, CalendarScheduleSelectionState, SameShown
<1>2. updateStateWithMinMaxDateRange(s, range) = updateStateWithFilter(r, s.filter)
  BY DEF updateStateWithMinMaxDateRange
<1> HIDE DEF r
<1> QED BY <1>1, <1>2, FilterOfOthersUpdates

\* and so is setting the days that are excluded.
LEMMA ExclusionsUpdate ==
  ASSUME NEW s, IsKept(s), NEW days \in SUBSET Day
  PROVE  IsUpdateOf(updateStateWithExclusions(s, days), s)
<1> DEFINE indexes == {IndexOf(s, day) : day \in days}
           r == [s EXCEPT !.computedExclusions = indexes]
<1>1. indexes \in SUBSET Index
  <2>1. s.start \in Day
    BY DEF IsKept, CalendarScheduleSelectionState
  <2>2. \A day \in days : IndexOf(s, day) \in Index
    BY <2>1, DaysAreNumbers DEF IndexOf
  <2> QED BY <2>2
<1>2. updateStateWithExclusions(s, days) = updateStateWithFilter(r, s.filter)
  BY DEF updateStateWithExclusions
<1> HIDE DEF indexes
<1>3. /\ r \in CalendarScheduleSelectionState /\ SameShown(r, s)
      /\ r.scheduleDays = s.scheduleDays /\ r.defaultScheduleDays = s.defaultScheduleDays
  BY <1>1 DEF IsKept, CalendarScheduleSelectionState, SameShown
<1> HIDE DEF r
<1> QED BY <1>2, <1>3, FilterOfOthersUpdates

-----------------------------------------------------------------------------
(* The value *)

\* The value of a fresh state stands for the days that are selected, unless it is to begin
\* with the filter and there are days before that.
LEMMA FreshValueStands ==
  ASSUME NEW s \in CalendarScheduleSelectionState, IsFresh(s),
         ~(IsRelativeToFilter(s) /\ \E day \in Selected(s) : day < s.filter.start)
  PROVE  Selected(s) = IF s.currentSelectionValue = None THEN {} ELSE ExpandedDays(s.currentSelectionValue)
<1> DEFINE selected == SelectedIndexes(s)
           value == computeScheduleSelectionValue(s)
<1>1. /\ s.start \in Int /\ s.effectiveScheduleDays \in SUBSET DayCode /\ s.filter \in Filter \cup {None}
      /\ s.isEnabledDay \in SUBSET Int
  BY DaysAreNumbers DEF CalendarScheduleSelectionState
<1>2. s.isEnabledDay = EnabledDays(s) /\ s.currentSelectionValue = value
  BY DEF IsFresh
<1>3. selected = s.isEnabledDay \cap s.isEnabledFilterDay
  BY <1>2, ScanFindsAll
<1>4. Selected(s) = {s.start + i : i \in selected} /\ selected \in SUBSET Int
  BY <1>1, <1>3, SelectedDays
<1>5. CASE selected = {}
  <2>1. value = None
    BY <1>5 DEF computeScheduleSelectionValue
  <2> QED BY <1>2, <1>4, <1>5, <2>1
<1>6. CASE selected # {}
  <2> DEFINE first == Min(selected)
             last == Max(selected)
             from == IF IsRelativeToFilter(s) THEN s.filter.start ELSE s.start + first
             offset == IF IsRelativeToFilter(s) THEN first - IndexOf(s, from) ELSE 0
             before == IndexesFrom(0, offset)
             left == IF s.computeSelectionResultRelativeToFilter
                     THEN {i \in Excluded(s) : IsAllowed(s, i)} ELSE Excluded(s)
             w == simplifyDateCellScheduleDayCodes(s.effectiveScheduleDays)
             ex == before \cup ExclusionsFrom(s, first, offset)
             end == IF s.start + last < from THEN from ELSE s.start + last
  <2>1. value = [start |-> from, end |-> end, w |-> w, ex |-> ex]
    BY <1>6 DEF computeScheduleSelectionValue
  <2>2. value # None
    BY <1>6, ValueType, NothingAssumption
  <2>3. /\ first \in selected /\ last \in selected /\ first \in Int /\ last \in Int
        /\ \A i \in selected : first <= i /\ i <= last
    BY <1>4, <1>6, SelectedAreIndexes
  <2>4. Excluded(s) = (first..last) \ selected
    BY <1>3 DEF Excluded
  <2>5. ExclusionsFrom(s, first, offset) = {i - (first - offset) : i \in left}
    BY DEF ExclusionsFrom
  <2>6. DaysOfWeek(w) = DaysOfWeek(s.effectiveScheduleDays)
    BY <1>1, SimplifiedCodesKeepTheirDays
  <2>7. \A i \in selected : IsAllowed(s, i)
    BY <1>2, <1>3 DEF EnabledDays
  <2> HIDE DEF selected, value, first, last, w
  <2>8. from \in Int /\ from <= s.start + first
    <3>1. CASE IsRelativeToFilter(s)
      <4>1. s.filter.start \in Int
        BY <1>1, <3>1, DaysAreNumbers DEF IsRelativeToFilter, Filter
      <4>2. s.start + first \in Selected(s)
        BY <1>4, <2>3
      <4>3. ~(s.start + first < s.filter.start)
        BY <3>1, <4>2
      <4> QED BY <1>1, <2>3, <3>1, <4>1, <4>3
    <3>2. CASE ~IsRelativeToFilter(s)
      BY <1>1, <2>3, <3>2
    <3> QED BY <3>1, <3>2
  <2>9. offset \in Nat /\ first - offset = from - s.start
    <3>1. CASE IsRelativeToFilter(s)
      BY <1>1, <2>3, <2>8, <3>1 DEF IndexOf
    <3>2. CASE ~IsRelativeToFilter(s)
      BY <1>1, <2>3, <3>2
    <3> QED BY <3>1, <3>2
  <2> HIDE DEF from, offset
  <2>10. end = s.start + last
    BY <1>1, <2>3, <2>8
  <2>11. ASSUME NEW day \in Int
         PROVE  day - from \in before <=> from <= day /\ day < s.start + first
    <3>1. before = 0..(offset - 1)
      BY <2>9 DEF IndexesFrom
    <3> HIDE DEF before
    <3> QED BY <1>1, <2>3, <2>8, <2>9, <3>1
  <2>12. left \in SUBSET Int
    BY <2>3, <2>4
  <2>13. ASSUME NEW day \in Int
         PROVE  day - from \in ExclusionsFrom(s, first, offset) <=> day - s.start \in left
    <3> HIDE DEF left
    <3>1. ASSUME day - s.start \in left
          PROVE  day - from \in {i - (first - offset) : i \in left}
      <4>1. day - from = (day - s.start) - (first - offset)
        BY <1>1, <2>8, <2>9
      <4> QED BY <3>1, <4>1
    <3>2. ASSUME NEW i \in left, day - from = i - (first - offset)
          PROVE  day - s.start \in left
      <4>1. i = day - s.start
        BY <1>1, <2>3, <2>8, <2>9, <2>12, <3>2
      <4> QED BY <4>1
    <3> QED BY <2>5, <3>1, <3>2
  <2>14. ASSUME NEW day \in Int
         PROVE  IsAllowed(s, day - s.start) <=> DayOfWeekOf(day) \in DaysOfWeek(w)
    <3>1. s.start + (day - s.start) = day
      BY <1>1
    <3> QED BY <2>6, <3>1 DEF IsAllowed
  <2>15. ASSUME NEW day \in Int
         PROVE  day - s.start \in selected
                  <=> /\ from <= day /\ day <= end
                      /\ IsAllowed(s, day - s.start)
                      /\ day - from \notin ex
    <3> DEFINE i == day - s.start
    <3>1. /\ i \in Int
          /\ first <= i <=> s.start + first <= day
          /\ i <= last <=> day <= s.start + last
      BY <1>1, <2>3
    <3> HIDE DEF i
    <3>2. i \in selected => first <= i /\ i <= last /\ IsAllowed(s, i) /\ i \notin left
      BY <2>3, <2>4, <2>7
    <3>3. first <= i /\ i <= last /\ IsAllowed(s, i) /\ i \notin left => i \in selected
      BY <2>3, <2>4, <3>1
    <3>4. day - from \notin ex <=> ~(from <= day /\ day < s.start + first) /\ i \notin left
      BY <2>11, <2>13 DEF i
    <3> HIDE DEF ex, left, end
    <3>5. i \in selected <=> from <= day /\ day <= end /\ IsAllowed(s, i) /\ day - from \notin ex
      BY <1>1, <2>3, <2>8, <2>10, <3>1, <3>2, <3>3, <3>4
    <3> QED BY <3>5 DEF i
  <2> HIDE DEF ex, left, end
  <2>16. end \in Int
    BY <1>1, <2>3, <2>10
  <2>17. ASSUME NEW day
         PROVE  day \in ExpandedDays(value) <=> day \in Int /\ day - s.start \in selected
    <3>1. day \in ExpandedDays(value)
            <=> day \in from..end /\ DayOfWeekOf(day) \in DaysOfWeek(w) /\ day - from \notin ex
      BY <2>1 DEF ExpandedDays
    <3>2. day \in from..end <=> day \in Int /\ from <= day /\ day <= end
      BY <2>8, <2>16
    <3> QED BY <2>14, <2>15, <3>1, <3>2
  <2>18. \A day : day \in Selected(s) <=> day \in Int /\ day - s.start \in selected
    BY <1>1, <1>4, DaysOfIndexes
  <2>19. Selected(s) = ExpandedDays(value)
    BY <2>17, <2>18
  <2> QED BY <1>2, <2>2, <2>19
<1> QED BY <1>5, <1>6

-----------------------------------------------------------------------------
(* The properties *)

\* Every step is an update.
LEMMA StepUpdates ==
  ASSUME IsKept(state), Next
  PROVE  IsUpdateOf(state', state)
<1>1. /\ state \in CalendarScheduleSelectionState
      /\ state.start \in Day /\ state.toggledIndexes \in SUBSET Index
      /\ state.inputStart \in Int \cup {None} /\ state.inputEnd \in Int \cup {None}
  BY DEF IsKept, CalendarScheduleSelectionState
<1>2. ASSUME NEW days \in DaySets
      PROVE  Indexes(days) \in SUBSET Index
  <2>1. \A day \in days : day \in Day /\ IndexOf(state, day) \in Index
    BY <1>1, DaysAreNumbers, InputsAssumption DEF IndexOf
  <2> QED BY <2>1 DEF Indexes
<1>3. ASSUME NEW days \in DaySets, NEW set \in FirstOf(Indexes(days))
      PROVE  set \in SUBSET Index
  BY <1>2 DEF FirstOf
<1>4. CASE toggleSelectedDates
  <2>1. PICK day \in Day : state' = Toggled(state, IndexOf(state, day))
    BY <1>4 DEF toggleSelectedDates
  <2>2. IndexOf(state, day) \in Index
    BY <1>1, DaysAreNumbers DEF IndexOf
  <2> QED BY <2>1, <2>2, TogglingUpdates
<1>5. CASE addSelectedDates
  <2>1. PICK days \in DaySets :
          state' = WithSelection(state, state.inputStart, state.inputEnd, state.toggledIndexes \cup Indexes(days))
    BY <1>5 DEF addSelectedDates
  <2>2. state.toggledIndexes \cup Indexes(days) \in SUBSET Index
    BY <1>1, <1>2
  <2> QED BY <1>1, <2>1, <2>2, SelectionUpdates
<1>6. CASE removeSelectedDates
  <2>1. PICK days \in DaySets :
          state' = WithSelection(state, state.inputStart, state.inputEnd, state.toggledIndexes \ Indexes(days))
    BY <1>6 DEF removeSelectedDates
  <2>2. state.toggledIndexes \ Indexes(days) \in SUBSET Index
    BY <1>1
  <2> QED BY <1>1, <2>1, <2>2, SelectionUpdates
<1>7. CASE setSelectedDates
  <2>1. PICK days \in DaySets :
          \/ state' = WithSelection(state, state.inputStart, state.inputEnd, Indexes(days))
          \/ \E set \in FirstOf(Indexes(days)) : state' = RetainSet(state, set)
    BY <1>7 DEF setSelectedDates
  <2>2. IsUpdateOf(WithSelection(state, state.inputStart, state.inputEnd, Indexes(days)), state)
    BY <1>1, <1>2, SelectionUpdates
  <2>3. \A set \in FirstOf(Indexes(days)) : IsUpdateOf(RetainSet(state, set), state)
    BY <1>3, RetainingUpdates
  <2> QED BY <2>1, <2>2, <2>3
<1>8. CASE setSelectedIndexes
  <2>1. PICK days \in DaySets :
          \/ state' = RetainSet(state, Indexes(days))
          \/ \E set \in FirstOf(Indexes(days)) : state' = RetainSet(state, set)
    BY <1>8 DEF setSelectedIndexes
  <2>2. IsUpdateOf(RetainSet(state, Indexes(days)), state)
    BY <1>2, RetainingUpdates
  <2>3. \A set \in FirstOf(Indexes(days)) : IsUpdateOf(RetainSet(state, set), state)
    BY <1>3, RetainingUpdates
  <2> QED BY <2>1, <2>2, <2>3
<1>9. CASE selectAllDates
  BY <1>9, AllOrNoneUpdates DEF selectAllDates
<1>10. CASE setInputRange
  BY <1>10, RangeUpdates, DaysAreNumbers DEF setInputRange
<1>11. CASE setSelectionMode
  BY <1>11, ModeUpdates DEF setSelectionMode
<1>12. CASE setDefaultScheduleDays
  <2>1. PICK days \in Weeks : state' = updateStateWithChangedDefaultScheduleDays(state, days)
    BY <1>12 DEF setDefaultScheduleDays
  <2>2. days \in SUBSET DayCode
    BY InputsAssumption
  <2> QED BY <2>1, <2>2, DefaultDaysUpdate
<1>13. CASE setScheduleDays
  <2>1. PICK days \in Weeks \cup {None} : state' = updateStateWithChangedScheduleDays(state, days)
    BY <1>13 DEF setScheduleDays
  <2>2. days \in {None} \cup SUBSET DayCode
    BY InputsAssumption
  <2> QED BY <2>1, <2>2, ScheduleDaysUpdate
<1>14. CASE setDateScheduleRangeValue
  BY <1>14, ValueUpdates DEF setDateScheduleRangeValue
<1>15. CASE setInitialSelectionState
  BY <1>15, InitialSelectionUpdates DEF setInitialSelectionState
<1>16. CASE setComputeSelectionResultRelativeToFilter
  BY <1>16, RelativeUpdates DEF setComputeSelectionResultRelativeToFilter
<1>17. CASE setFilter
  <2>1. PICK filter \in Filters \cup {None} : state' = updateStateWithFilter(state, filter)
    BY <1>17 DEF setFilter
  <2>2. Filters \subseteq Filter
    <3>1. NoRange \in [start : Day \cup {None}, end : Day \cup {None}]
      BY DEF NoRange
    <3>2. SUBSET Nat \subseteq SUBSET Int
      OBVIOUS
    <3>3. [start : Day \cup {None}, end : Day \cup {None}, w : SUBSET DayCode, ex : SUBSET Nat,
           minMaxDateRange : {NoRange}, setStartAsMinDate : {TRUE}] \subseteq Filter
      BY <3>1, <3>2 DEF Filter
    <3> QED BY <3>3, InputsAssumption
  <2>3. filter \in Filter \cup {None}
    BY <2>2
  <2> QED BY <2>1, <2>3, FilterUpdates
<1>18. CASE setMinMaxDateRange
  <2>1. PICK range \in MinMaxRanges \cup {NoRange} : state' = updateStateWithMinMaxDateRange(state, range)
    BY <1>18 DEF setMinMaxDateRange
  <2>2. range \in [start : Day \cup {None}, end : Day \cup {None}]
    BY InputsAssumption DEF NoRange
  <2> QED BY <2>1, <2>2, MinMaxUpdates
<1>19. CASE setExclusions
  <2>1. PICK days \in Exclusions \cup {{}} : state' = updateStateWithExclusions(state, days)
    BY <1>19 DEF setExclusions
  <2>2. days \in SUBSET Day
    BY InputsAssumption
  <2> QED BY <2>1, <2>2, ExclusionsUpdate
<1> QED BY <1>4, <1>5, <1>6, <1>7, <1>8, <1>9, <1>10, <1>11, <1>12, <1>13, <1>14, <1>15,
           <1>16, <1>17, <1>18, <1>19 DEF Next

\* The initial state has the invariant.
LEMMA InvariantStarts == Init => CalendarInvariant
<1> SUFFICES ASSUME Init PROVE CalendarInvariant
  OBVIOUS
<1>1. fullWeekDateCellScheduleDayCodes \in SUBSET DayCode
  BY DEF fullWeekDateCellScheduleDayCodes, DayCode, WEEKDAY, WEEKEND
<1>2. state \in CalendarScheduleSelectionState
  BY <1>1, DaysAssumption
  DEF Init, initialCalendarScheduleSelectionState, CalendarScheduleSelectionState, NoRange
<1>3. DaysFollow(state)
  BY DEF Init, initialCalendarScheduleSelectionState, DaysFollow, dateCellScheduleDayCodesAreSetsEquivalent
<1>4. operations \in 0..MaxOperations
  BY DaysAssumption DEF Init
<1> QED BY <1>2, <1>3, <1>4 DEF CalendarInvariant, TypeOK

\* Every update keeps it.
LEMMA InvariantIsKept == CalendarInvariant /\ [Next]_vars => CalendarInvariant'
<1> SUFFICES ASSUME CalendarInvariant, [Next]_vars PROVE CalendarInvariant'
  OBVIOUS
<1>1. CASE Next
  <2>1. IsUpdateOf(state', state)
    BY <1>1, StepUpdates DEF CalendarInvariant, TypeOK, IsKept
  <2>2. operations' \in 0..MaxOperations
    BY <1>1, DaysAssumption DEF Next, CalendarInvariant, TypeOK
  <2> QED BY <2>1, <2>2 DEF IsUpdateOf, CalendarInvariant, TypeOK
<1>2. CASE UNCHANGED vars
  BY <1>2 DEF vars, CalendarInvariant, TypeOK
<1> QED BY <1>1, <1>2

\* The state of the store is one, and its days of the week are those that were set.
THEOREM CalendarInvariantHolds == Spec => []CalendarInvariant
BY InvariantStarts, InvariantIsKept, PTL DEF Spec

\* The value stands for the days that are selected after every update that changes either.
THEOREM ValueStandsForTheSelection == Spec => ValueIsTheSelection
<1> DEFINE isSame == <<state'.inputStart, state'.inputEnd, state'.toggledIndexes,
                       state'.effectiveScheduleDays, state'.currentSelectionValue>>
                   = <<state.inputStart, state.inputEnd, state.toggledIndexes,
                       state.effectiveScheduleDays, state.currentSelectionValue>>
           stands == LET s == state' IN
                     \/ IsRelativeToFilter(s) /\ \E day \in Selected(s) : day < s.filter.start
                     \/ Selected(s) = IF s.currentSelectionValue = None THEN {}
                                      ELSE ExpandedDays(s.currentSelectionValue)
<1>1. CalendarInvariant /\ [Next]_vars => [~isSame => stands]_vars
  <2> SUFFICES ASSUME CalendarInvariant, Next, ~isSame PROVE stands
    OBVIOUS
  <2>1. IsUpdateOf(state', state)
    BY StepUpdates DEF CalendarInvariant, TypeOK, IsKept
  <2>2. state' \in CalendarScheduleSelectionState /\ IsFresh(state')
    BY <2>1 DEF IsUpdateOf, SameShown
  <2> QED BY <2>2, FreshValueStands
<1>2. CalendarInvariant /\ [Next]_vars =>
        [LET s == state' IN
         <<s.inputStart, s.inputEnd, s.toggledIndexes, s.effectiveScheduleDays, s.currentSelectionValue>>
           # <<state.inputStart, state.inputEnd, state.toggledIndexes, state.effectiveScheduleDays,
               state.currentSelectionValue>>
         => \/ IsRelativeToFilter(s) /\ \E day \in Selected(s) : day < s.filter.start
            \/ Selected(s) = IF s.currentSelectionValue = None THEN {} ELSE ExpandedDays(s.currentSelectionValue)]_vars
  BY <1>1
<1> QED BY <1>2, CalendarInvariantHolds, PTL DEF Spec, ValueIsTheSelection

\* Toggling a day selects it, or no longer, if it may be, and no other one; in single mode it
\* leaves at most that day.
THEOREM TogglingChangesOneDay == Spec => []ToggleChangesOneDay
<1>1. CalendarInvariant => ToggleChangesOneDay
  <2> SUFFICES ASSUME CalendarInvariant, NEW day \in Day
               PROVE  LET selected == Selected(Toggled(state, IndexOf(state, day))) IN
                      /\ state.selectionMode = "multiple" =>
                           selected = SymDiff(Selected(state), {day} \cap Permitted(state))
                      /\ state.selectionMode = "single" /\ LeavesDays(state) => selected \subseteq {day}
    BY DEF ToggleChangesOneDay
  <2> DEFINE s == state
             i == IndexOf(s, day)
             n == Toggled(s, i)
             filtered == s.isEnabledFilterDay
  <2>1. /\ s \in CalendarScheduleSelectionState
        /\ s.start \in Day /\ s.start \in Int /\ s.toggledIndexes \in SUBSET Index
        /\ filtered \in SUBSET Int
        /\ s.inputStart \in Int \cup {None} /\ s.inputEnd \in Int \cup {None}
    BY DaysAreNumbers DEF CalendarInvariant, TypeOK, CalendarScheduleSelectionState
  <2>2. i \in Index /\ i = day - s.start /\ i \in Int /\ day \in Int
    BY <2>1, DaysAreNumbers DEF IndexOf
  <2> HIDE DEF i
  <2>3. CASE s.selectionMode = "multiple"
    <3> DEFINE toggled == IF IsAllowed(s, i) THEN SymDiff(s.toggledIndexes, {i}) ELSE s.toggledIndexes
               before == Chosen(s, s.inputStart, s.inputEnd, s.toggledIndexes)
               after == Chosen(s, s.inputStart, s.inputEnd, toggled)
    <3>1. n = WithSelection(s, s.inputStart, s.inputEnd, toggled)
      BY <2>3 DEF Toggled
    <3>2. toggled \in SUBSET Index
      BY <2>1, <2>2 DEF SymDiff
    <3>3. /\ \A j : j # i => (j \in toggled <=> j \in s.toggledIndexes)
          /\ IsAllowed(s, i) => (i \in toggled <=> i \notin s.toggledIndexes)
      BY DEF SymDiff
    <3> HIDE DEF toggled
    <3>4. LET m == WithSelection(s, s.inputStart, s.inputEnd, toggled) IN
          /\ m \in CalendarScheduleSelectionState
          /\ SameSettings(m, s)
          /\ IsFresh(m)
          /\ m.isEnabledDay \cap m.isEnabledFilterDay
               = Chosen(s, s.inputStart, s.inputEnd, toggled)
      <4> HIDE DEF s
      <4> QED BY <2>1, <3>2, ChosenIsSelected
    <3> HIDE DEF n
    <3>5. /\ n \in CalendarScheduleSelectionState /\ n.start = s.start /\ IsFresh(n)
          /\ n.isEnabledDay \cap n.isEnabledFilterDay = after
      BY <3>1, <3>4 DEF SameSettings
    <3>6. Selected(n) = {s.start + j : j \in after}
      BY <3>5, SelectedDays
    <3>7. Selected(s) = {s.start + j : j \in before}
      BY <2>1, SelectedDays
    <3>8. before \in SUBSET Int /\ after \in SUBSET Int
      BY <2>1 DEF Chosen
    <3>9. \A j : j \in after <=> IF j = i /\ j \in filtered /\ IsAllowed(s, j)
                               THEN j \notin before ELSE j \in before
      BY <3>3 DEF Chosen
    <3> DEFINE permitted == {j \in filtered : IsAllowed(s, j)}
    <3>10. Permitted(s) = {s.start + j : j \in permitted} /\ permitted \in SUBSET Int
      BY <2>1 DEF Permitted
    <3>11. \A j : j \in permitted <=> j \in filtered /\ IsAllowed(s, j)
      OBVIOUS
    <3> HIDE DEF before, after, permitted
    <3>12. ASSUME NEW d
           PROVE  d \in Selected(n) <=> d \in SymDiff(Selected(s), {day} \cap Permitted(s))
      <4>1. /\ d \in Selected(n) <=> d \in Int /\ d - s.start \in after
            /\ d \in Selected(s) <=> d \in Int /\ d - s.start \in before
            /\ d \in Permitted(s) <=> d \in Int /\ d - s.start \in permitted
        BY <2>1, <3>6, <3>7, <3>8, <3>10, DaysOfIndexes
      <4>2. d \in Int => (d - s.start = i <=> d = day)
        BY <2>1, <2>2
      <4> QED BY <3>9, <3>11, <4>1, <4>2 DEF SymDiff
    <3>13. Selected(n) = SymDiff(Selected(s), {day} \cap Permitted(s))
      BY <3>12
    <3> QED BY <2>3, <3>13 DEF n, i
  <2>4. CASE s.selectionMode = "single" /\ LeavesDays(s)
    <3>1. PICK set \in SUBSET {i} : n = RetainSet(s, set)
      BY <2>4 DEF Toggled
    <3>2. set \in SUBSET Index
      BY <2>2
    <3> HIDE DEF n
    <3>3. /\ n \in CalendarScheduleSelectionState /\ n.start = s.start /\ IsFresh(n)
          /\ n.isEnabledDay \cap n.isEnabledFilterDay \subseteq {i}
      BY <2>1, <2>4, <3>1, <3>2, SetIsRetained DEF SameSettings
    <3>4. Selected(n) = {s.start + j : j \in n.isEnabledDay \cap n.isEnabledFilterDay}
      BY <3>3, SelectedDays
    <3>5. s.start + i = day
      BY <2>1, <2>2
    <3>6. Selected(n) \subseteq {day}
      BY <3>3, <3>4, <3>5
    <3> QED BY <2>4, <3>6 DEF n, i
  <2> QED BY <2>3, <2>4 DEF i
<1> QED BY <1>1, CalendarInvariantHolds, PTL

\* Setting the selected indexes selects those that may be and nothing else.
THEOREM SetIndexesBecomeSelected == Spec => []SetIndexesAreSelected
<1>1. CalendarInvariant => SetIndexesAreSelected
  <2> SUFFICES ASSUME CalendarInvariant, LeavesDays(state), NEW days \in DaySets
               PROVE  Selected(RetainSet(state, Indexes(days))) =
                        {day \in days \cap Permitted(state) :
                           HasMinAndMax(state) => MinDate(state) <= day /\ day <= MaxDate(state)}
    BY DEF SetIndexesAreSelected
  <2> DEFINE s == state
             set == Indexes(days)
             n == RetainSet(s, set)
             chosen == {i \in s.isEnabledFilterDay :
                          /\ IsAllowed(s, i)
                          /\ i \in set
                          /\ HasMinAndMax(s) => MinDate(s) <= s.start + i /\ s.start + i <= MaxDate(s)}
             permitted == {i \in s.isEnabledFilterDay : IsAllowed(s, i)}
  <2>1. /\ s \in CalendarScheduleSelectionState
        /\ s.start \in Day /\ s.start \in Int
        /\ s.isEnabledFilterDay \in SUBSET Int
    BY DaysAreNumbers DEF CalendarInvariant, TypeOK, CalendarScheduleSelectionState
  <2>2. \A day \in days : day \in Day /\ day \in Int /\ IndexOf(s, day) \in Index /\ IndexOf(s, day) = day - s.start
    BY <2>1, DaysAreNumbers, InputsAssumption DEF IndexOf
  <2>3. set \in SUBSET Index
    BY <2>2 DEF Indexes
  <2>4. \A day \in Int : day - s.start \in set <=> day \in days
    <3>1. ASSUME NEW day \in Int, day - s.start \in set
          PROVE  day \in days
      <4>1. PICK d \in days : day - s.start = d - s.start
        BY <2>2, <3>1 DEF Indexes
      <4>2. day = d
        BY <2>1, <2>2, <4>1
      <4> QED BY <4>2
    <3>2. ASSUME NEW day \in days
          PROVE  day - s.start \in set
      BY <2>2 DEF Indexes
    <3> QED BY <3>1, <3>2
  <2> HIDE DEF set, n
  <2>5. /\ n \in CalendarScheduleSelectionState /\ n.start = s.start /\ IsFresh(n)
        /\ n.isEnabledDay \cap n.isEnabledFilterDay = chosen
    BY <2>1, <2>3, SetIsRetained DEF n, SameSettings
  <2>6. Selected(n) = {s.start + i : i \in chosen}
    BY <2>5, SelectedDays
  <2>7. Permitted(s) = {s.start + i : i \in permitted}
    BY DEF Permitted
  <2>8. chosen \in SUBSET Int /\ permitted \in SUBSET Int
    BY <2>1
  <2>9. ASSUME NEW day
        PROVE  day \in Selected(n) <=>
                 /\ day \in days /\ day \in Permitted(s)
                 /\ HasMinAndMax(s) => MinDate(s) <= day /\ day <= MaxDate(s)
    <3>1. /\ day \in Selected(n) <=> day \in Int /\ day - s.start \in chosen
          /\ day \in Permitted(s) <=> day \in Int /\ day - s.start \in permitted
      <4> HIDE DEF chosen, permitted
      <4> QED BY <2>1, <2>6, <2>7, <2>8, DaysOfIndexes
    <3>2. day \in Int => s.start + (day - s.start) = day
      BY <2>1
    <3> QED BY <2>2, <2>4, <3>1, <3>2
  <2> QED BY <2>9 DEF n, set
<1> QED BY <1>1, CalendarInvariantHolds, PTL

\* Setting a value selects the days it stands for that the filter permits.
THEOREM SetValuesBecomeSelected == Spec => []SetValueIsSelected
<1>1. CalendarInvariant => SetValueIsSelected
  <2> SUFFICES ASSUME CalendarInvariant, NEW value \in Values,
                      value # state.currentSelectionValue,
                      value.w # {},
                      \/ value.ex = {}
                      \/ value.start = state.start /\ value.ex \subseteq 0..(value.end - value.start)
               PROVE  Selected(updateStateWithDateCellScheduleRangeValue(state, value))
                        = {day \in ExpandedDays(value) : day - state.start \in state.isEnabledFilterDay}
    BY DEF SetValueIsSelected
  <2> DEFINE s == state
             n == updateStateWithDateCellScheduleRangeValue(s, value)
             chosen == Chosen(n, n.inputStart, n.inputEnd, n.toggledIndexes)
  <2>1. /\ IsKept(s) /\ s.start \in Int
        /\ value.start \in Int /\ value.end \in Int /\ value.start # None /\ value.end # None
    <3>1. value \in [start : Day, end : Day, w : SUBSET DayCode, ex : SUBSET Day]
      BY InputsAssumption
    <3> QED BY <3>1, DaysAreNumbers, NoneAssumption
            DEF CalendarInvariant, TypeOK, IsKept, CalendarScheduleSelectionState
  <2>2. /\ n \in CalendarScheduleSelectionState
        /\ n.start = s.start /\ n.isEnabledFilterDay = s.isEnabledFilterDay
        /\ n.inputStart = value.start /\ n.inputEnd = value.end /\ n.toggledIndexes = value.ex
        /\ DaysOfWeek(n.effectiveScheduleDays) = DaysOfWeek(value.w)
    BY <2>1, ValueIsSet
  <2> HIDE DEF n
  <2>3. Selected(n) = {s.start + i : i \in chosen}
    BY <2>2, SelectedDays
  <2>4. chosen \in SUBSET Int
    BY <2>2, DaysAreNumbers DEF Chosen, CalendarScheduleSelectionState
  <2>5. \A i : i \in chosen <=>
          /\ i \in s.isEnabledFilterDay /\ IsAllowed(n, i)
          /\ Between(s.start, value.start, value.end, i) <=> i \notin value.ex
    BY <2>2 DEF Chosen
  <2> HIDE DEF chosen
  <2>6. ASSUME NEW day
        PROVE  day \in Selected(n) <=> day \in ExpandedDays(value) /\ day - s.start \in s.isEnabledFilterDay
    <3>1. day \in Selected(n) <=> day \in Int /\ day - s.start \in chosen
      BY <2>1, <2>3, <2>4, DaysOfIndexes
    <3>2. CASE day \notin Int
      BY <2>1, <3>1, <3>2 DEF ExpandedDays
    <3>3. CASE day \in Int
      <4>1. s.start + (day - s.start) = day
        BY <2>1, <3>3
      <4>2. IsAllowed(n, day - s.start) <=> DayOfWeekOf(day) \in DaysOfWeek(value.w)
        BY <2>2, <4>1 DEF IsAllowed
      <4>3. Between(s.start, value.start, value.end, day - s.start) <=> day \in value.start..value.end
        BY <2>1, <3>3 DEF Between
      <4>4. (day \in value.start..value.end <=> day - s.start \notin value.ex)
              <=> day \in value.start..value.end /\ day - value.start \notin value.ex
        <5>1. CASE value.ex = {}
          BY <5>1
        <5>2. CASE value.start = s.start /\ value.ex \subseteq 0..(value.end - value.start)
          <6>1. day - s.start \in 0..(value.end - value.start) => day \in value.start..value.end
            BY <2>1, <3>3, <5>2
          <6> QED BY <5>2, <6>1
        <5> QED BY <5>1, <5>2
      <4> QED BY <2>5, <3>1, <3>3, <4>2, <4>3, <4>4 DEF ExpandedDays
    <3> QED BY <3>2, <3>3
  <2> QED BY <2>6 DEF n
<1> QED BY <1>1, CalendarInvariantHolds, PTL
=============================================================================
