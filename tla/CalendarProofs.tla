-------------------------- MODULE CalendarProofs --------------------------
(***************************************************************************)
(* The formula of civil_from_days, for every day from 1970 on: it repeats  *)
(* after an era, and it gives the date that counting day by day gives.     *)
(* Within an era the argument follows the formula: the year of the day and *)
(* the day of its year, counted from March, then the month of that day.    *)
(***************************************************************************)
EXTENDS MCCalendar, TLAPS

\* A day and the day one era later are the same day of their eras.
LEMMA EraShift ==
  ASSUME NEW z \in Nat
  PROVE  /\ (z + 146097) \div 146097 = z \div 146097 + 1
         /\ (z + 146097) % 146097 = z % 146097
  BY SMT

\* The day of the year is a number.
LEMMA DayOfYearType ==
  ASSUME NEW doe \in Nat
  PROVE  year_of_era(doe) \in Int /\ day_of_year(doe) \in Int
<1>1. year_of_era(doe) \in Int
  BY SMT DEF year_of_era
<1> QED
  BY <1>1, SMT DEF day_of_year

\* One era more adds 400 years to the date and nothing else.
LEMMA NextEra ==
  ASSUME NEW era \in Nat, NEW doe \in Nat
  PROVE  civil_in_era(era + 1, doe) =
           <<civil_in_era(era, doe)[1] + 400, civil_in_era(era, doe)[2], civil_in_era(era, doe)[3]>>
<1>1. (era + 1) * 400 = era * 400 + 400
  BY SMT
<1> QED
  BY <1>1, DayOfYearType, SMT DEF civil_in_era

\* Days are counted from 0.
LEMMA DayIsNatural == CalendarSpec => [](day \in Nat)
<1>1. CalendarInit => day \in Nat
  BY DEF CalendarInit
<1>2. day \in Nat /\ [Midnight \/ Stop]_<<day, date>> => (day \in Nat)'
  BY DEF Midnight, Stop
<1> QED
  BY <1>1, <1>2, PTL DEF CalendarSpec

\* ErasRepeat for every day, however far: civil_from_days (utils.rs:20-34) gives the
\* same month and day and 400 years more after 146097 days.
THEOREM ErasAlwaysRepeat == CalendarSpec => []ErasRepeat
<1>1. ASSUME day \in Nat PROVE ErasRepeat
  <2> DEFINE z == day + 719468
             era == z \div 146097
             doe == z % 146097
  <2>1. era \in Nat /\ doe \in Nat
    BY <1>1, SMT
  <2>2. civil_from_days(day) = civil_in_era(era, doe)
    BY SMT DEF civil_from_days
  <2>3. day + 146097 + 719468 = z + 146097
    BY <1>1, SMT
  <2>4. civil_from_days(day + 146097) = civil_in_era(era + 1, doe)
    BY <1>1, <2>3, EraShift, SMT DEF civil_from_days
  <2> HIDE DEF z, era, doe
  <2>5. civil_in_era(era + 1, doe) =
          <<civil_in_era(era, doe)[1] + 400, civil_in_era(era, doe)[2], civil_in_era(era, doe)[3]>>
    BY <2>1, NextEra, ZenonT(60)
  <2> QED
    BY <2>2, <2>4, <2>5, SMT DEF ErasRepeat
<1> QED
  BY <1>1, DayIsNatural, PTL

\* A quotient by a number is between two multiples of it.
LEMMA Quotients ==
  ASSUME NEW n \in Nat
  PROVE  /\ n \div 4 \in Nat /\ 4 * (n \div 4) <= n /\ n < 4 * (n \div 4) + 4
         /\ n \div 5 \in Nat /\ 5 * (n \div 5) <= n /\ n < 5 * (n \div 5) + 5
         /\ n \div 100 \in Nat /\ 100 * (n \div 100) <= n /\ n < 100 * (n \div 100) + 100
         /\ n \div 153 \in Nat /\ 153 * (n \div 153) <= n /\ n < 153 * (n \div 153) + 153
         /\ n \div 365 \in Nat /\ 365 * (n \div 365) <= n /\ n < 365 * (n \div 365) + 365
         /\ n \div 1460 \in Nat /\ 1460 * (n \div 1460) <= n /\ n < 1460 * (n \div 1460) + 1460
         /\ n \div 36524 \in Nat /\ 36524 * (n \div 36524) <= n /\ n < 36524 * (n \div 36524) + 36524
         /\ n \div 146096 \in Nat /\ 146096 * (n \div 146096) <= n
         /\ n < 146096 * (n \div 146096) + 146096
  BY Z3

\* The year that ends in February of a leap year.
LongYear(y) == (y = 4 * (y \div 4) + 3 /\ y # 100 * (y \div 100) + 99) \/ y = 399

\* The year and the day of the year that the formula finds for a day of an era; only the years
\* that end in a leap February have a day 365.
LEMMA YearOfDay ==
  ASSUME NEW doe \in Nat, doe <= 146096
  PROVE  /\ year_of_era(doe) \in 0..399
         /\ day_of_year(doe) \in 0..365
         /\ day_of_year(doe) = 365 => LongYear(year_of_era(doe))
<1>1. PICK a \in Nat, b \in Nat, c \in Nat : a = doe \div 1460 /\ b = doe \div 36524 /\ c = doe \div 146096
  BY Quotients, SMT
<1>2. /\ 1460 * a <= doe /\ doe < 1460 * a + 1460 /\ 36524 * b <= doe /\ doe < 36524 * b + 36524
      /\ 146096 * c <= doe /\ doe < 146096 * c + 146096
  BY <1>1, Quotients, SMT
<1>3. doe - a + b - c \in Nat
  BY <1>2, SMT
<1>4. PICK y \in Nat : y = (doe - a + b - c) \div 365
  BY <1>3, Quotients, SMT
<1>5. 365 * y <= doe - a + b - c /\ doe - a + b - c < 365 * y + 365
  BY <1>3, <1>4, Quotients, SMT
<1>6. PICK p \in Nat, q \in Nat : p = y \div 4 /\ q = y \div 100
  BY Quotients, SMT
<1>7. 4 * p <= y /\ y < 4 * p + 4 /\ 100 * q <= y /\ y < 100 * q + 100
  BY <1>6, Quotients, SMT
<1>8. year_of_era(doe) = y
  BY <1>1, <1>4, SMT DEF year_of_era
<1>9. PICK n \in Int : n = doe - (365 * y + p - q)
  BY SMT
<1>10. day_of_year(doe) = n
  BY <1>6, <1>8, <1>9, SMT DEF day_of_year
<1>11. y \in 0..399 /\ n \in 0..365
  BY <1>2, <1>5, <1>7, <1>9, Z3
<1>12. n = 365 => (y = 4 * p + 3 /\ y # 100 * q + 99) \/ y = 399
  BY <1>2, <1>5, <1>7, <1>9, Z3
<1> QED
  BY <1>6, <1>8, <1>10, <1>11, <1>12, SMT DEF LongYear

\* The formula finds the day after a day in the same year, or at the start of the next
\* one, if the year was over.
LEMMA NextDay ==
  ASSUME NEW doe \in Nat, doe + 1 <= 146096
  PROVE  \/ /\ year_of_era(doe + 1) = year_of_era(doe)
            /\ day_of_year(doe + 1) = day_of_year(doe) + 1
         \/ /\ year_of_era(doe + 1) = year_of_era(doe) + 1
            /\ day_of_year(doe + 1) = 0
            /\ day_of_year(doe) = IF LongYear(year_of_era(doe)) THEN 365 ELSE 364
<1>1. \A d \in Nat : d <= 146096 =>
        /\ year_of_era(d) \in 0..399 /\ day_of_year(d) \in 0..365
        /\ day_of_year(d) = 365 => LongYear(year_of_era(d))
  BY YearOfDay, SMT
<1>2. PICK e \in Nat : e = doe + 1
  BY SMT
<1>13. /\ year_of_era(doe) \in 0..399 /\ day_of_year(doe) \in 0..365
       /\ day_of_year(doe) = 365 => LongYear(year_of_era(doe))
  <2>1. doe <= 146096
    BY SMT
  <2> QED
    BY <1>1, <2>1, SMT
<1>14. /\ year_of_era(e) \in 0..399 /\ day_of_year(e) \in 0..365
       /\ day_of_year(e) = 365 => LongYear(year_of_era(e))
  <2>1. e <= 146096
    BY <1>2, SMT
  <2> QED
    BY <1>1, <2>1, SMT
<1>3. PICK y, n, y2, n2 : /\ y = year_of_era(doe) /\ n = day_of_year(doe)
                          /\ y2 = year_of_era(e) /\ n2 = day_of_year(e)
  BY SMT
<1>4. y \in 0..399 /\ n \in 0..365 /\ y2 \in 0..399 /\ n2 \in 0..365
  BY <1>3, <1>13, <1>14, SMT
<1>15. (n = 365 => LongYear(y)) /\ (n2 = 365 => LongYear(y2))
  BY <1>3, <1>4, <1>13, <1>14, SMT
<1>5. PICK p \in Nat, q \in Nat : /\ p = y \div 4 /\ q = y \div 100
                                  /\ 4 * p <= y /\ y < 4 * p + 4 /\ 100 * q <= y /\ y < 100 * q + 100
  BY <1>4, Quotients, SMT
<1>6. PICK p2 \in Nat, q2 \in Nat : /\ p2 = y2 \div 4 /\ q2 = y2 \div 100
                                    /\ 4 * p2 <= y2 /\ y2 < 4 * p2 + 4
                                    /\ 100 * q2 <= y2 /\ y2 < 100 * q2 + 100
  BY <1>4, Quotients, SMT
<1>7. n = doe - (365 * y + p - q)
  BY <1>3, <1>4, <1>5, SMT DEF day_of_year
<1>8. n2 = e - (365 * y2 + p2 - q2)
  BY <1>3, <1>4, <1>6, SMT DEF day_of_year
<1>9. 365 * y + p - q + n + 1 = 365 * y2 + p2 - q2 + n2
  BY <1>2, <1>4, <1>7, <1>8, SMT
<1>10. LongYear(y) <=> (y = 4 * p + 3 /\ y # 100 * q + 99) \/ y = 399
  BY <1>5, SMT DEF LongYear
<1>11. LongYear(y2) <=> (y2 = 4 * p2 + 3 /\ y2 # 100 * q2 + 99) \/ y2 = 399
  BY <1>6, SMT DEF LongYear
<1>12. \/ y2 = y /\ n2 = n + 1
       \/ y2 = y + 1 /\ n2 = 0 /\ n = IF LongYear(y) THEN 365 ELSE 364
  <2> DEFINE long == (y = 4 * p + 3 /\ y # 100 * q + 99) \/ y = 399
  <2>1. /\ n = 365 => (y = 4 * p + 3 /\ y # 100 * q + 99) \/ y = 399
        /\ n2 = 365 => (y2 = 4 * p2 + 3 /\ y2 # 100 * q2 + 99) \/ y2 = 399
    BY <1>10, <1>11, <1>15, SMT
  <2>2. \/ y2 = y /\ n2 = n + 1
        \/ y2 = y + 1 /\ n2 = 0 /\ n = IF long THEN 365 ELSE 364
    BY <1>4, <1>5, <1>6, <1>9, <2>1, Z3
  <2> QED
    BY <1>10, <2>2, SMT
<1> QED
  BY <1>2, <1>3, <1>4, <1>12, SMT

\* The years that end in a leap February, in every era.
LEMMA LongIsLeap ==
  ASSUME NEW era \in Nat, NEW y \in Nat, y <= 399, NEW year \in Nat, year = y + era * 400
  PROVE  Leap(year + 1) <=> LongYear(y)
<1>1. PICK p \in Nat, q \in Nat : /\ p = y \div 4 /\ q = y \div 100
                                  /\ 4 * p <= y /\ y < 4 * p + 4 /\ 100 * q <= y /\ y < 100 * q + 100
  BY Quotients, SMT
<1>2. PICK t \in Nat : t = year + 1 /\ t = y + era * 400 + 1
  BY SMT
<1>3. t % 4 = 0 <=> y = 4 * p + 3
  BY <1>1, <1>2, Z3
<1>4. t % 100 = 0 <=> y = 100 * q + 99
  BY <1>1, <1>2, Z3
<1>5. t % 400 = 0 <=> y = 399
  BY <1>1, <1>2, Z3
<1>6. LongYear(y) <=> (y = 4 * p + 3 /\ y # 100 * q + 99) \/ y = 399
  BY <1>1, SMT DEF LongYear
<1>7. Leap(t) <=> (t % 4 = 0 /\ t % 100 # 0) \/ t % 400 = 0
  BY SMT DEF Leap
<1> QED
  BY <1>2, <1>3, <1>4, <1>5, <1>6, <1>7, SMT

\* The days of the year, counted from March, before the month m.
DaysBefore(m) ==
  CASE m = 0 -> 0 [] m = 1 -> 31 [] m = 2 -> 61 [] m = 3 -> 92 [] m = 4 -> 122 [] m = 5 -> 153
    [] m = 6 -> 184 [] m = 7 -> 214 [] m = 8 -> 245 [] m = 9 -> 275 [] m = 10 -> 306
    [] m = 11 -> 337 [] m = 12 -> 366

\* The month of a day of the year, and the days of the year before it.
LEMMA MonthOfDay ==
  ASSUME NEW n \in Nat, n <= 365
  PROVE  LET mp == (5 * n + 2) \div 153
         IN /\ mp \in 0..11 /\ (153 * mp + 2) \div 5 = DaysBefore(mp)
            /\ DaysBefore(mp) <= n /\ n < DaysBefore(mp + 1)
<1>1. PICK m \in Nat : m = (5 * n + 2) \div 153 /\ 153 * m <= 5 * n + 2 /\ 5 * n + 2 < 153 * m + 153
  BY Quotients, SMT
<1>2. m \in 0..11
  BY <1>1, SMT
<1>3. PICK u \in Nat : u = (153 * m + 2) \div 5 /\ 5 * u <= 153 * m + 2 /\ 153 * m + 2 < 5 * u + 5
  BY Quotients, SMT
<1>4. u = DaysBefore(m)
  BY <1>2, <1>3, SMT DEF DaysBefore
<1>5. u <= n
  BY <1>1, <1>3, SMT
<1>6. n < DaysBefore(m + 1)
  <2>1. PICK k \in 1..12 : k = m + 1
    BY <1>2, SMT
  <2>2. 5 * n + 2 < 153 * k
    BY <1>1, <2>1, SMT
  <2>3. n < DaysBefore(k)
    BY <2>2, SMT DEF DaysBefore
  <2> QED
    BY <2>1, <2>3, SMT
<1> QED
  BY <1>1, <1>2, <1>3, <1>4, <1>5, <1>6, SMT

\* The date of the day n of the year that starts in March of the given one.
Month(m)       == IF m < 10 THEN m + 3 ELSE m - 9
YearIn(m, year) == IF m < 10 THEN year ELSE year + 1
DateOf(year, n) ==
  LET mp == (5 * n + 2) \div 153
      day_of_month == n - (153 * mp + 2) \div 5 + 1
  IN IF mp < 10 THEN <<year, mp + 3, day_of_month>> ELSE <<year + 1, mp - 9, day_of_month>>

\* The months have the lengths that the formula gives them, February aside.
LEMMA MonthLengths ==
  ASSUME NEW year \in Nat, NEW m \in Nat, m <= 11
  PROVE  /\ m # 11 => DaysIn(YearIn(m, year), Month(m)) = DaysBefore(m + 1) - DaysBefore(m)
         /\ m = 11 => DaysIn(YearIn(m, year), Month(m)) = DaysIn(year + 1, 2)
<1>3. PICK k \in 1..12 : k = m + 1
  BY SMT
<1>5. m # 11 => Month(m) # 2 /\ DaysIn(YearIn(m, year), Month(m)) = DaysBefore(k) - DaysBefore(m)
  BY <1>3, SMT DEF Month, DaysBefore, DaysIn
<1>6. m = 11 => Month(m) = 2 /\ YearIn(m, year) = year + 1
  BY SMT DEF Month, YearIn
<1>7. m = 11 => DaysIn(YearIn(m, year), Month(m)) = DaysIn(year + 1, 2)
  BY <1>6, SMT
<1> QED
  BY <1>3, <1>5, <1>7, SMT

\* The month of a day of the year, counted from March.
MonthOf(n) == (5 * n + 2) \div 153

\* The date of a day, by its month.
LEMMA DateByMonth ==
  ASSUME NEW year \in Nat, NEW n \in Nat, n <= 365, NEW m \in Nat, m = MonthOf(n)
  PROVE  /\ m \in 0..11
         /\ DateOf(year, n) = <<YearIn(m, year), Month(m), n - DaysBefore(m) + 1>>
         /\ DaysBefore(m) <= n /\ n < DaysBefore(m + 1)
<1>2. m \in 0..11 /\ (153 * m + 2) \div 5 = DaysBefore(m) /\ DaysBefore(m) <= n /\ n < DaysBefore(m + 1)
  BY MonthOfDay, SMT DEF MonthOf
<1>3. DateOf(year, n) = <<YearIn(m, year), Month(m), n - DaysBefore(m) + 1>>
  BY <1>2, SMT DEF DateOf, YearIn, Month, MonthOf
<1> QED
  BY <1>2, <1>3, SMT

\* The day after a day of the same year.
LEMMA WithinYear ==
  ASSUME NEW year \in Nat, NEW n \in Nat, n <= 365, NEW n2 \in Nat, n2 <= 365, n2 = n + 1,
         NEW february \in 28..29, february = DaysIn(year + 1, 2), n2 < 337 + february
  PROVE  DayAfter(DateOf(year, n)) = DateOf(year, n2)
<1>1. PICK m \in Nat : m = MonthOf(n)
  BY Quotients, SMT DEF MonthOf
<1>2. PICK k \in Nat : k = MonthOf(n2)
  BY Quotients, SMT DEF MonthOf
<1>3. /\ m \in 0..11 /\ DateOf(year, n) = <<YearIn(m, year), Month(m), n - DaysBefore(m) + 1>>
      /\ DaysBefore(m) <= n /\ n < DaysBefore(m + 1)
  BY <1>1, DateByMonth, SMT
<1>4. /\ k \in 0..11 /\ DateOf(year, n2) = <<YearIn(k, year), Month(k), n2 - DaysBefore(k) + 1>>
      /\ DaysBefore(k) <= n2 /\ n2 < DaysBefore(k + 1)
  BY <1>2, DateByMonth, SMT
<1>5. k = m \/ (k = m + 1 /\ n2 = DaysBefore(k))
  BY <1>3, <1>4, SMT DEF DaysBefore
<1>6. /\ Month(m) \in Nat /\ YearIn(m, year) \in Nat
      /\ m # 11 => DaysIn(YearIn(m, year), Month(m)) = DaysBefore(m + 1) - DaysBefore(m)
      /\ m = 11 => DaysIn(YearIn(m, year), Month(m)) = DaysIn(year + 1, 2)
      /\ DaysBefore(m) \in Nat /\ DaysBefore(m + 1) \in Nat
  <2>1. m \in Nat /\ m <= 11
    BY <1>3, SMT
  <2>2. Month(m) \in Nat /\ YearIn(m, year) \in Nat
    BY <2>1, SMT DEF Month, YearIn
  <2>3. DaysBefore(m) \in Nat /\ DaysBefore(m + 1) \in Nat
    BY <2>1, SMT DEF DaysBefore
  <2>4. m # 11 => DaysIn(YearIn(m, year), Month(m)) = DaysBefore(m + 1) - DaysBefore(m)
    BY <2>1, MonthLengths, SMT
  <2>5. m = 11 => DaysIn(YearIn(m, year), Month(m)) = DaysIn(year + 1, 2)
    BY <2>1, MonthLengths, SMT
  <2> QED
    BY <2>2, <2>3, <2>4, <2>5, SMT
<1>7. PICK d, u, y, len :
        d = n - DaysBefore(m) + 1 /\ u = Month(m) /\ y = YearIn(m, year) /\ len = DaysIn(y, u)
  BY SMT
<1>11. d \in Int /\ u \in Int /\ y \in Nat
  BY <1>6, <1>7, SMT
<1>8. DayAfter(DateOf(year, n)) = IF d < len THEN <<y, u, d + 1>>
                                  ELSE IF u < 12 THEN <<y, u + 1, 1>> ELSE <<y + 1, 1, 1>>
  BY <1>3, <1>7, <1>11, SMT DEF DayAfter
<1>9. CASE k = m
  <2>1. d < len
    <3>1. CASE m # 11
      BY <1>4, <1>6, <1>7, <1>9, <1>11, <3>1, SMT
    <3>2. CASE m = 11
      <4>1. DaysBefore(m) = 337
        BY <3>2, SMT DEF DaysBefore
      <4>2. len = february
        BY <1>6, <1>7, <3>2, SMT
      <4> QED
        BY <1>7, <4>1, <4>2, SMT
    <3> QED
      BY <3>1, <3>2, SMT
  <2>2. DateOf(year, n2) = <<y, u, d + 1>>
    BY <1>4, <1>6, <1>7, <1>9, SMT
  <2> QED
    BY <1>8, <2>1, <2>2, SMT
<1>10. CASE k = m + 1 /\ n2 = DaysBefore(k)
  <2>1. len = d
    BY <1>4, <1>6, <1>7, <1>10, SMT
  <2>2. /\ u < 12 => Month(k) = u + 1 /\ YearIn(k, year) = y
        /\ u >= 12 => Month(k) = 1 /\ YearIn(k, year) = y + 1
    BY <1>3, <1>4, <1>7, <1>10, SMT DEF Month, YearIn
  <2>3. DateOf(year, n2) = <<YearIn(k, year), Month(k), 1>>
    BY <1>4, <1>6, <1>10, SMT
  <2>4. CASE u < 12
    BY <1>8, <1>11, <2>1, <2>2, <2>3, <2>4, SMT
  <2>5. CASE u >= 12
    BY <1>8, <1>11, <2>1, <2>2, <2>3, <2>5, SMT
  <2> QED
    BY <1>11, <2>4, <2>5, SMT
<1> QED
  BY <1>5, <1>9, <1>10, SMT

\* The day after the last of February is the first of the year that starts in March.
LEMMA YearEnds ==
  ASSUME NEW year \in Nat, NEW n \in Nat, n <= 365,
         NEW february \in 28..29, february = DaysIn(year + 1, 2), n + 1 = 337 + february
  PROVE  DayAfter(DateOf(year, n)) = DateOf(year + 1, 0)
<1>1. PICK m \in Nat : m = MonthOf(n)
  BY Quotients, SMT DEF MonthOf
<1>2. /\ m \in 0..11 /\ DateOf(year, n) = <<YearIn(m, year), Month(m), n - DaysBefore(m) + 1>>
      /\ DaysBefore(m) <= n /\ n < DaysBefore(m + 1)
  BY <1>1, DateByMonth, SMT
<1>3. m = 11 /\ DaysBefore(m) = 337
  BY <1>2, SMT DEF DaysBefore
<1>4. DaysIn(YearIn(m, year), Month(m)) = february
  BY <1>2, <1>3, MonthLengths, SMT
<1>5. Month(m) = 2 /\ YearIn(m, year) = year + 1
  BY <1>3, SMT DEF Month, YearIn
<1>6. DateOf(year, n) = <<year + 1, 2, n - 336>> /\ DaysIn(year + 1, 2) = n - 336
  BY <1>2, <1>3, <1>4, <1>5, SMT
<1>7. DayAfter(DateOf(year, n)) = <<year + 1, 3, 1>>
  BY <1>6, SMT DEF DayAfter
<1>8. DateOf(year + 1, 0) = <<year + 1, 3, 1>>
  BY SMT DEF DateOf
<1> QED
  BY <1>7, <1>8, SMT

\* The date of a day of an era, by the year and the day of the year.
LEMMA DateInEra ==
  ASSUME NEW era \in Nat, NEW doe \in Nat
  PROVE  civil_in_era(era, doe) = DateOf(year_of_era(doe) + era * 400, day_of_year(doe))
  BY SMT DEF civil_in_era, DateOf

\* The length of February at the end of a year.
LEMMA February ==
  ASSUME NEW era \in Nat, NEW y \in Nat, y <= 399, NEW year \in Nat, year = y + era * 400
  PROVE  DaysIn(year + 1, 2) = IF LongYear(y) THEN 29 ELSE 28
<1>1. Leap(year + 1) <=> LongYear(y)
  BY LongIsLeap, SMT
<1> QED
  BY <1>1, SMT DEF DaysIn

\* The formula for the day after a day of the same era.
LEMMA WithinEra ==
  ASSUME NEW era \in Nat, NEW doe \in Nat, NEW next \in Nat, next = doe + 1, next <= 146096
  PROVE  civil_in_era(era, next) = DayAfter(civil_in_era(era, doe))
<1>1. PICK y, n, y2, n2 : /\ y = year_of_era(doe) /\ n = day_of_year(doe)
                          /\ y2 = year_of_era(next) /\ n2 = day_of_year(next)
  BY SMT
<1>2. /\ y \in Nat /\ y <= 399 /\ n \in Nat /\ n <= 365
      /\ y2 \in Nat /\ y2 <= 399 /\ n2 \in Nat /\ n2 <= 365
      /\ (n = 365 => LongYear(y)) /\ (n2 = 365 => LongYear(y2))
  <2>1. \A d \in Nat : d <= 146096 =>
          /\ year_of_era(d) \in 0..399 /\ day_of_year(d) \in 0..365
          /\ day_of_year(d) = 365 => LongYear(year_of_era(d))
    BY YearOfDay, SMT
  <2>2. doe <= 146096
    BY SMT
  <2>3. /\ year_of_era(doe) \in 0..399 /\ day_of_year(doe) \in 0..365
        /\ day_of_year(doe) = 365 => LongYear(year_of_era(doe))
    BY <2>1, <2>2, SMT
  <2>4. /\ year_of_era(next) \in 0..399 /\ day_of_year(next) \in 0..365
        /\ day_of_year(next) = 365 => LongYear(year_of_era(next))
    BY <2>1, SMT
  <2>5. y \in 0..399 /\ n \in 0..365 /\ y2 \in 0..399 /\ n2 \in 0..365
    BY <1>1, <2>3, <2>4, SMT
  <2>6. (n = 365 => LongYear(y)) /\ (n2 = 365 => LongYear(y2))
    BY <1>1, <2>5, <2>3, <2>4, SMT
  <2> QED
    BY <2>5, <2>6, SMT
<1>3. \/ y2 = y /\ n2 = n + 1
      \/ y2 = y + 1 /\ n2 = 0 /\ n = IF LongYear(y) THEN 365 ELSE 364
  BY <1>1, NextDay, SMT
<1>4. PICK year \in Nat : year = y + era * 400
  BY <1>2, SMT
<1>5. PICK f \in Nat : f = DaysIn(year + 1, 2) /\ f = IF LongYear(y) THEN 29 ELSE 28
  BY <1>2, <1>4, February, SMT
<1>6. f \in 28..29
  BY <1>5, SMT
<1>7. civil_in_era(era, doe) = DateOf(year, n)
  BY <1>1, <1>4, DateInEra, SMT
<1>8. CASE y2 = y /\ n2 = n + 1
  <2>1. civil_in_era(era, next) = DateOf(year, n2)
    BY <1>1, <1>4, <1>8, DateInEra, SMT
  <2>2. n2 < 337 + f
    BY <1>2, <1>5, <1>8, SMT
  <2>3. DayAfter(DateOf(year, n)) = DateOf(year, n2)
    BY <1>2, <1>5, <1>6, <1>8, <2>2, WithinYear, SMT
  <2> QED
    BY <1>7, <2>1, <2>3, SMT
<1>9. CASE y2 = y + 1 /\ n2 = 0 /\ n = IF LongYear(y) THEN 365 ELSE 364
  <2>1. y2 + era * 400 = year + 1
    BY <1>2, <1>4, <1>9, SMT
  <2>2. civil_in_era(era, next) = DateOf(year + 1, 0)
    BY <1>1, <1>9, <2>1, DateInEra, SMT
  <2>3. n + 1 = 337 + f
    BY <1>2, <1>5, <1>9, SMT
  <2>4. DayAfter(DateOf(year, n)) = DateOf(year + 1, 0)
    BY <1>2, <1>5, <1>6, <2>3, YearEnds, SMT
  <2> QED
    BY <1>7, <2>2, <2>4, SMT
<1> QED
  BY <1>3, <1>8, <1>9, SMT

\* The formula for the first day of the next era.
LEMMA BetweenEras ==
  ASSUME NEW era \in Nat
  PROVE  civil_in_era(era + 1, 0) = DayAfter(civil_in_era(era, 146096))
<1>1. year_of_era(146096) = 399 /\ day_of_year(146096) = 365
  BY SMT DEF year_of_era, day_of_year
<1>2. year_of_era(0) = 0 /\ day_of_year(0) = 0
  BY SMT DEF year_of_era, day_of_year
<1>3. PICK year \in Nat : year = 399 + era * 400
  BY SMT
<1>4. civil_in_era(era, 146096) = DateOf(year, 365)
  BY <1>1, <1>3, SMT DEF civil_in_era, DateOf
<1>5. civil_in_era(era + 1, 0) = DateOf(year + 1, 0)
  BY <1>2, <1>3, SMT DEF civil_in_era, DateOf
<1>6. DaysIn(year + 1, 2) = 29
  <2>1. LongYear(399)
    BY SMT DEF LongYear
  <2> QED
    BY <1>3, <2>1, February, SMT
<1>7. DayAfter(DateOf(year, 365)) = DateOf(year + 1, 0)
  <2>1. PICK f \in 28..29, n \in Nat : f = 29 /\ n = 365
    BY SMT
  <2>2. DayAfter(DateOf(year, n)) = DateOf(year + 1, 0)
    BY <1>6, <2>1, YearEnds, SMT
  <2> QED
    BY <2>1, <2>2, SMT
<1> QED
  BY <1>4, <1>5, <1>7, SMT

\* The formula for the day after any day.
LEMMA DayByDay ==
  ASSUME NEW d \in Nat
  PROVE  civil_from_days(d + 1) = DayAfter(civil_from_days(d))
<1>1. PICK z \in Nat, era \in Nat, doe \in Nat :
        z = d + 719468 /\ era = z \div 146097 /\ doe = z % 146097
  BY SMT
<1>2. doe <= 146096
  BY <1>1, SMT
<1>3. civil_from_days(d) = civil_in_era(era, doe)
  BY <1>1, SMT DEF civil_from_days
<1>4. CASE doe + 1 <= 146096
  <2>1. PICK next \in Nat : next = doe + 1
    BY SMT
  <2>2. (z + 1) \div 146097 = era /\ (z + 1) % 146097 = next
    BY <1>1, <1>4, <2>1, SMT
  <2>3. d + 1 + 719468 = z + 1
    BY <1>1, SMT
  <2>4. civil_from_days(d + 1) = civil_in_era(era, next)
    BY <2>2, <2>3, SMT DEF civil_from_days
  <2> QED
    BY <1>3, <1>4, <2>1, <2>4, WithinEra, SMT
<1>5. CASE doe = 146096
  <2>1. (z + 1) \div 146097 = era + 1 /\ (z + 1) % 146097 = 0
    BY <1>1, <1>5, SMT
  <2>2. d + 1 + 719468 = z + 1
    BY <1>1, SMT
  <2>3. civil_from_days(d + 1) = civil_in_era(era + 1, 0)
    BY <2>1, <2>2, SMT DEF civil_from_days
  <2> QED
    BY <1>3, <1>5, <2>3, BetweenEras, SMT
<1> QED
  BY <1>2, <1>4, <1>5, SMT

\* DateIsCivil for every day from 1970 on, with no last day: the divisions of civil_from_days
\* (utils.rs:18-34) give the date that counting day by day gives, in every year.
THEOREM DateAlwaysCivil == CalendarSpec => []DateIsCivil
<1>1. CalendarInit => DateIsCivil
  BY SMT DEF CalendarInit, DateIsCivil, civil_from_days, civil_in_era, day_of_year, year_of_era
<1>2. DateIsCivil /\ day \in Nat /\ [Midnight \/ Stop]_<<day, date>> => DateIsCivil'
  <2> SUFFICES ASSUME DateIsCivil, day \in Nat, [Midnight \/ Stop]_<<day, date>>
               PROVE  DateIsCivil'
    OBVIOUS
  <2>1. CASE Midnight
    <3>1. civil_from_days(day + 1) = DayAfter(civil_from_days(day))
      BY DayByDay, SMT
    <3> QED
      BY <2>1, <3>1, SMT DEF Midnight, DateIsCivil
  <2>2. CASE UNCHANGED <<day, date>>
    BY <2>2, SMT DEF DateIsCivil
  <2> QED
    BY <2>1, <2>2, SMT DEF Stop
<1> QED
  BY <1>1, <1>2, DayIsNatural, PTL DEF CalendarSpec
=============================================================================
