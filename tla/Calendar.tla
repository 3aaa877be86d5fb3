------------------------------- MODULE Calendar -------------------------------
(***************************************************************************)
(* The calendar and the billing zones, as Python's datetime and zoneinfo   *)
(* have them.  Time is in hours from Monday 2024-01-01, 00:00 UTC; a date  *)
(* is a number of days from there.                                         *)
(***************************************************************************)
EXTENDS Integers

Day(t) == t \div 24

\* Every fourth year, which holds until 2100.
Leap(y) == y % 4 = 0
YearStart(y) == 365 * (y - 2024) + ((y - 2021) \div 4)
YearOf(d) == CHOOSE y \in 2023 .. 2035 : YearStart(y) <= d /\ d < YearStart(y + 1)

MonthStart(y, m) ==
  YearStart(y) + <<0, 31, 59, 90, 120, 151, 181, 212, 243, 273, 304, 334, 365>>[m]
    + (IF Leap(y) /\ m > 2 THEN 1 ELSE 0)
MonthOf(d) ==
  CHOOSE m \in 1 .. 12 :
    MonthStart(YearOf(d), m) <= d /\ d < MonthStart(YearOf(d), m + 1)

\* Days of a month.
MonthRange(y, m) == MonthStart(y, m + 1) - MonthStart(y, m)

\* The ISO week of a date, whose year is the year of its Thursday, and the Monday
\* of a week: the first week has January 4 in it.
Monday(d) == d - (d % 7)
IsoYear(d) == YearOf(Monday(d) + 3)
IsoWeek(d) == ((Monday(d) + 3 - YearStart(IsoYear(d))) \div 7) + 1
FromIso(y, w) == Monday(YearStart(y) + 3) + 7 * (w - 1)

----------------------------------------------------------------------------
(* Zones: `dst' ahead of UTC from `spring' to `fall', `std' outside *)

Offset(zone, t) == IF zone.spring <= t /\ t < zone.fall THEN zone.dst ELSE zone.std

\* The offset a wall clock time is read with: of two, or where there is none, the
\* one before the change.
WallOffset(zone, wall) ==
  IF zone.spring + zone.dst <= wall /\ wall < zone.fall + zone.dst
  THEN zone.dst ELSE zone.std

Utc == [std |-> 0, dst |-> 0, spring |-> 0, fall |-> 0]
===============================================================================
