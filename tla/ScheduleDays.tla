----------------------------- MODULE ScheduleDays -----------------------------
(***************************************************************************)
(* Schedules of @dereekb/date: days of the week given by codes, and days   *)
(* counted from a start, some of which are left out (DateCellSchedule).    *)
(*                                                                         *)
(* A day is a number, its index the distance from the start of whatever it *)
(* is an index of.  Times of day and time zones are left out.              *)
(***************************************************************************)
EXTENDS Integers

CONSTANTS
  FirstDayOfWeek,  \* the day of the week of day 0
  None             \* null or undefined

ASSUME FirstDayOfWeekAssumption == FirstDayOfWeek \in 0..6
ASSUME NoneAssumption == None \notin Int

-----------------------------------------------------------------------------
(* Days of the week *)

WEEKDAY == 8

WEEKEND == 9

\* 0 is the code of no day.  A set of codes stands for the encoded week, whose digits
\* have no order that matters.
DayCode == 0..9

SUNDAY == 1
MONDAY == 2
SATURDAY == 7

weekdayDateCellScheduleDayCodes == MONDAY..SATURDAY - 1

weekendDateCellScheduleDayCodes == {SUNDAY, SATURDAY}

fullWeekDateCellScheduleDayCodes == {WEEKDAY, WEEKEND}

expandDateCellScheduleDayCodes(codes) ==
  (codes \cap SUNDAY..SATURDAY)
    \cup (IF WEEKDAY \in codes THEN weekdayDateCellScheduleDayCodes ELSE {})
    \cup (IF WEEKEND \in codes THEN weekendDateCellScheduleDayCodes ELSE {})

\* DayOfWeek values, from 0 for a Sunday.
DaysOfWeek(codes) == {code - 1 : code \in expandDateCellScheduleDayCodes(codes)}

dateCellScheduleDayCodesAreSetsEquivalent(a, b) ==
  expandDateCellScheduleDayCodes(a) = expandDateCellScheduleDayCodes(b)

\* All the days of a working week, or of a weekend, become one code.
simplifyForgettingSunday(codes) ==
  LET hasAllWeekDays == WEEKDAY \in codes \/ weekdayDateCellScheduleDayCodes \subseteq codes
      hasAllWeekendDays == WEEKEND \in codes \/ SATURDAY \in codes
  IN (IF hasAllWeekDays THEN {WEEKDAY} ELSE codes \cap weekdayDateCellScheduleDayCodes)
       \cup (IF hasAllWeekendDays THEN {WEEKEND} ELSE codes \cap weekendDateCellScheduleDayCodes)

simplifyDateCellScheduleDayCodes(codes) ==
  LET hasAllWeekDays == WEEKDAY \in codes \/ weekdayDateCellScheduleDayCodes \subseteq codes
      hasAllWeekendDays == WEEKEND \in codes \/ weekendDateCellScheduleDayCodes \subseteq codes
  IN (IF hasAllWeekDays THEN {WEEKDAY} ELSE codes \cap weekdayDateCellScheduleDayCodes)
       \cup (IF hasAllWeekendDays THEN {WEEKEND} ELSE codes \cap weekendDateCellScheduleDayCodes)

DayOfWeekOf(day) == (FirstDayOfWeek + day) % 7

-----------------------------------------------------------------------------
(* Schedules *)

\* range() of @dereekb/util, which counts down when the end is before the start.
IndexesFrom(first, end) == IF end >= first THEN first..(end - 1) ELSE (end + 1)..first

Latest(a, b) == IF a = None \/ (b # None /\ b > a) THEN b ELSE a

Earliest(a, b) == IF a = None \/ (b # None /\ b < a) THEN b ELSE a

NoRange == [start |-> None, end |-> None]

\* dateCellScheduleDateFilter(): f has a start.  Without setStartAsMinDate there may be days
\* before it; an end of its own goes before that of minMaxDateRange.
FilterAllows(f, day) ==
  LET floor == IF f.setStartAsMinDate THEN f.start ELSE None
      min == Latest(floor, f.minMaxDateRange.start)
      max == IF f.end # None THEN f.end ELSE f.minMaxDateRange.end
  IN /\ min # None => day >= min
     /\ max # None => day <= max
     /\ DayOfWeekOf(day) \in DaysOfWeek(f.w)
     /\ day - f.start \notin f.ex

\* expandDateCellScheduleRange(): the days a DateCellScheduleDateRange stands for.
ExpandedDays(range) ==
  {day \in range.start..range.end :
     DayOfWeekOf(day) \in DaysOfWeek(range.w) /\ day - range.start \notin range.ex}
=============================================================================
