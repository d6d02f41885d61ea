----------------------------- MODULE Calendar -----------------------------
(***************************************************************************)
(* The date of a dump: utils.rs turns the milliseconds since 1970 of the   *)
(* file header into a civil date with a closed formula.                    *)
(***************************************************************************)
EXTENDS Integers, Sequences

\* Mutant: the century correction is left out.
year_of_era_NO_CENTURY(doe) == (doe - doe \div 1460 - doe \div 146096) \div 365

\* The year of an era of 400 years that starts in March, from the day of the era.
year_of_era(doe) == (doe - doe \div 1460 + doe \div 36524 - doe \div 146096) \div 365

day_of_year(doe) ==
  LET yoe == year_of_era(doe) IN doe - (365 * yoe + yoe \div 4 - yoe \div 100)

\* The date of the day doe of an era.
civil_in_era(era, doe) ==
  LET doy == day_of_year(doe)
      mp == (5 * doy + 2) \div 153
      day == doy - (153 * mp + 2) \div 5 + 1
      year == year_of_era(doe) + era * 400
  IN IF mp < 10 THEN <<year, mp + 3, day>> ELSE <<year + 1, mp - 9, day>>

\* Mutant: an era is a day too short.
civil_from_days_SHORT_ERA(days) ==
  LET z == days + 719468 IN civil_in_era(z \div 146096, z % 146096)

\* Year, month and day of the day that lies days after 1970-01-01.
civil_from_days(days) ==
  LET z == days + 719468 IN civil_in_era(z \div 146097, z % 146097)

\* A timestamp is split in the days since 1970 and the milliseconds of the day:
\* together they are the 64 bit number of milliseconds of the header.
NoTimestamp == [days |-> 0, millis |-> 0]

\* The date and the time of day that are printed, as numbers.
pretty_timestamp_utc(t) ==
  LET secs_of_day == t.millis \div 1000
  IN civil_from_days(t.days)
       \o <<secs_of_day \div 3600, (secs_of_day % 3600) \div 60, secs_of_day % 60>>

\* The capture time of a dump, if its dumper recorded one.
CaptureTime(t) == IF t = NoTimestamp THEN << >> ELSE pretty_timestamp_utc(t)
=============================================================================
