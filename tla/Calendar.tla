-------------------------------- MODULE Calendar --------------------------------
(***************************************************************************)
(* The days of datetime.cc: a date is a number of days since the pivot     *)
(* date, a weekday the number of its bit in a day of week mask.            *)
(***************************************************************************)
EXTENDS Integers

Weekdays == 0 .. 6    \* Sunday is 0: kSunday is bit 0 of the day of week mask

\* The pivot date, January 1 2014, is a Wednesday.
DayOfWeek(date) == (date + 3) % 7
================================================================================
