------------------------------ MODULE Calendar ------------------------------
(***************************************************************************)
(* The date of the documents (crates/emit/src/lib.rs): timestamp divides   *)
(* the seconds since 1970 and civil_from_days turns the days into a date   *)
(* without a date library, by arithmetic on years that begin in March.     *)
(***************************************************************************)
EXTENDS Integers

Date(y, m, d) == [year |-> y, month |-> m, day |-> d]

\* Mutant: the last day of an era is taken for one of the next.
Bug_YearOfEra(doe) == (doe - doe \div 1460 + doe \div 36524) \div 365

\* The year within 400 years: leap days, centuries and the last day of the
\* era are taken out before dividing.
YearOfEra(doe) ==
  (doe - doe \div 1460 + doe \div 36524 - doe \div 146096) \div 365

DayOfYear(doe) ==
  LET yoe == YearOfEra(doe) IN doe - (365 * yoe + yoe \div 4 - yoe \div 100)

\* Months from March, the lengths of which go as 153 days in five.
MonthFromMarch(doy) == (5 * doy + 2) \div 153

Month(doy) ==
  IF MonthFromMarch(doy) < 10 THEN MonthFromMarch(doy) + 3 ELSE MonthFromMarch(doy) - 9

DayOfMonth(doy) == doy - (153 * MonthFromMarch(doy) + 2) \div 5 + 1

CivilFromDays(days) ==
  LET z   == days + 719468
      era == z \div 146097
      doe == z % 146097
      doy == DayOfYear(doe)
      y   == YearOfEra(doe) + era * 400
  IN  Date(IF Month(doy) <= 2 THEN y + 1 ELSE y, Month(doy), DayOfMonth(doy))

\* The clock shows secs seconds of a day; the two are the quotient and the
\* remainder of the 64-bit number of seconds the code starts from.
Timestamp(days, secs) ==
  [date |-> CivilFromDays(days),
   h |-> secs \div 3600, m |-> (secs % 3600) \div 60, s |-> secs % 60]

-----------------------------------------------------------------------------
(***************************************************************************)
(* The calendar itself: its rule of leap years and the lengths of months.  *)
(***************************************************************************)
Leap(y) == y % 4 = 0 /\ (y % 100 # 0 \/ y % 400 = 0)

MonthLength(y, m) ==
  CASE m = 2 -> IF Leap(y) THEN 29 ELSE 28
    [] m \in {4, 6, 9, 11} -> 30
    [] OTHER -> 31

IsDate(c) == c.month \in 1 .. 12 /\ c.day \in 1 .. MonthLength(c.year, c.month)

\* The leap years from 1 to y.
Leaps(y) == y \div 4 - y \div 100 + y \div 400

\* The days of a common year before month m.
MonthStart(m) ==
  CASE m = 1 -> 0    [] m = 2 -> 31   [] m = 3 -> 59   [] m = 4 -> 90
    [] m = 5 -> 120  [] m = 6 -> 151  [] m = 7 -> 181  [] m = 8 -> 212
    [] m = 9 -> 243  [] m = 10 -> 273 [] m = 11 -> 304 [] m = 12 -> 334

\* The days from 1 January 1970 to a date; no two dates have the same.
DayNumber(c) ==
  365 * (c.year - 1970) + Leaps(c.year - 1) - Leaps(1969)
    + MonthStart(c.month) + (IF c.month > 2 /\ Leap(c.year) THEN 1 ELSE 0)
    + c.day - 1

\* t is what the calendar and a clock call this moment.
Names(t, days, secs) ==
  /\ IsDate(t.date)
  /\ DayNumber(t.date) = days
  /\ t.h \in 0 .. 23 /\ t.m \in 0 .. 59 /\ t.s \in 0 .. 59
  /\ t.h * 3600 + t.m * 60 + t.s = secs
=============================================================================
