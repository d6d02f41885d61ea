---------------------------- MODULE MCCalendar ----------------------------
(***************************************************************************)
(* civil_from_days against a calendar that is counted day by day.          *)
(***************************************************************************)
EXTENDS Calendar

CONSTANT LastDay  \* the last day that is counted
ASSUME LastDay \in Nat

VARIABLES day,   \* days since 1970-01-01
          date   \* the year, month and day of that day

Leap(year) == (year % 4 = 0 /\ year % 100 # 0) \/ year % 400 = 0

DaysIn(year, month) ==
  IF month = 2 THEN (IF Leap(year) THEN 29 ELSE 28)
  ELSE IF month \in {4, 6, 9, 11} THEN 30 ELSE 31

DayAfter(d) ==
  IF d[3] < DaysIn(d[1], d[2]) THEN <<d[1], d[2], d[3] + 1>>
  ELSE IF d[2] < 12 THEN <<d[1], d[2] + 1, 1>>
  ELSE <<d[1] + 1, 1, 1>>

CalendarInit ==
  /\ day = 0
  /\ date = <<1970, 1, 1>>

Midnight ==
  /\ day < LastDay
  /\ day' = day + 1
  /\ date' = DayAfter(date)

\* The calendar is not counted further.
Stop ==
  /\ day = LastDay
  /\ UNCHANGED <<day, date>>

CalendarSpec == CalendarInit /\ [][Midnight \/ Stop]_<<day, date>>

\* The formula of civil_from_days gives the date that counting day by day from
\* 1970-01-01 gives, over leap years and centuries ("valid for 1970 onwards",
\* utils.rs:18).
DateIsCivil == civil_from_days(day) = date

\* 400 years later the formula gives the same month and day: 146097 days are one
\* era, so that what holds for one era holds for all the later ones.
ErasRepeat ==
  LET now == civil_from_days(day)
  IN civil_from_days(day + 146097) = <<now[1] + 400, now[2], now[3]>>
=============================================================================
