------------------------- MODULE MCCalendarSelection -------------------------
(* Values for checking CalendarSelection with TLC. *)
EXTENDS CalendarSelection

MCWeeks == {{WEEKDAY}, {WEEKDAY, SATURDAY}}

FilterOf(start, end, w, ex) ==
  [start |-> start, end |-> end, w |-> w, ex |-> ex, minMaxDateRange |-> NoRange, setStartAsMinDate |-> TRUE]

\* The last filter and the ranges have no day in common.
MCFilters ==
  {FilterOf(2, None, {WEEKDAY, WEEKEND}, {1}), FilterOf(0, 4, {WEEKDAY}, {}),
   FilterOf(None, None, {WEEKDAY}, {}), FilterOf(4, 4, {WEEKDAY}, {})}

MCMinMaxRanges == {[start |-> 1, end |-> 3], [start |-> None, end |-> 2]}

MCDaySets == {{}, {1, 3}, {4}}

MCValues ==
  {[start |-> start, end |-> 4, w |-> w, ex |-> ex] :
     start \in 1..2, w \in MCWeeks, ex \in {{}, {1}}}
=============================================================================
