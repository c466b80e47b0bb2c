----------------------------- MODULE CalendarProofs -----------------------------
(***************************************************************************)
(* Proofs about the calendar and about the texts that bring the unit its   *)
(* schedule, its time and its zone.                                        *)
(*                                                                         *)
(* Whatever the rule of the zone and wherever the clock starts in the      *)
(* century its chip counts, it keeps the house's time through every change *)
(* it runs over (KeepsTheRule).                                            *)
(* The lemmas are the four ways the code carries a date, and what makes    *)
(* them agree.  Every date has its place among the days since 1970, and    *)
(* back (ThereAndBack, EveryDay, BackAndThere); the day after it has the   *)
(* next (NextDayAdds), and so the clock carried on gains just the minutes  *)
(* that passed (PlusAdds); the day the code computes for a change is the   *)
(* one counting the weekdays of its month finds (ChangeHappens), and the   *)
(* one year it asks is enough (OffsetIsInForce); and a chip gives back the *)
(* time it was set to, in either form of the hour (ReadsBack).             *)
(*                                                                         *)
(* A text that is read is read whole (NothingIsHalfRead).  A reader walks  *)
(* from bracket to bracket, so the lemmas count brackets: a value that it  *)
(* passes closes none that was open (ValueIs), so if brackets pair a meal  *)
(* ends at its own brace (MealIs) and the list at its own, each meal as    *)
(* the text says it (ScheduleIs).  Reading a text that breaks off goes as  *)
(* reading the whole does until it meets its end (ScheduleBroken); an echo *)
(* is read meal by meal (EchoReadBack); and a rule's numbers are as many   *)
(* and as large as its grammar lets them be (RuleRead).                    *)
(***************************************************************************)
EXTENDS Calendar, Texts, FiniteSetTheorems, SequenceTheorems, WellFoundedInduction, TLAPS

\* Induction, by the least counterexample: the one form the provers can be given.
LEMMA Least ==
  ASSUME NEW T \in SUBSET Nat, T # {}
  PROVE  \E x \in T : \A y \in T : x <= y
<1>. DEFINE R == OpToRel(<, Nat)
<1>1. IsWellFoundedOn(R, Nat)
  BY NatLessThanWellFounded
<1>2. \A x, y \in Nat : x < y => <<x, y>> \in R
  BY DEF OpToRel
<1>. HIDE DEF R
<1>3. \E x \in T : \A y \in T : ~ (<<y, x>> \in R)
  BY <1>1, WFMin, Zenon
<1>4. PICK x \in T : \A y \in T : ~ (<<y, x>> \in R)
  BY <1>3
<1>5. \A y \in T : x <= y
  <2>1. TAKE y \in T
  <2>2. x \in Nat /\ y \in Nat /\ ~(y < x)
    BY <1>2, <1>4
  <2>. QED BY <2>2
<1>. QED BY <1>5

\* Induction over the natural numbers.
LEMMA Induction ==
  ASSUME NEW S \in SUBSET Nat, 0 \in S, \A n \in S : n + 1 \in S
  PROVE  S = Nat
<1>. SUFFICES ASSUME Nat \ S # {} PROVE FALSE
  OBVIOUS
<1>1. PICK x \in Nat \ S : \A y \in Nat \ S : x <= y
  BY Least
<1>2. x # 0 /\ x - 1 \in Nat /\ x - 1 \notin Nat \ S
  BY <1>1
<1>. QED BY <1>2
-----------------------------------------------------------------------------
Gregorian(y) == 365 * y + y \div 4 - y \div 100 + y \div 400
Day(y, m, k) == [year |-> y, month |-> m, day |-> k]
Before(m) == (153 * (m + (IF m > 2 THEN -3 ELSE 9)) + 2) \div 5

\* A year is 365 days long, or 366 if it is a leap year.
LEMMA GregorianStep ==
  ASSUME NEW y \in Int
  PROVE  /\ Gregorian(y) \in Int
         /\ Gregorian(y + 1) - Gregorian(y) = IF is_leap(y + 1) THEN 366 ELSE 365
<1>1. (y + 1) \div 4 = y \div 4 + (IF (y + 1) % 4 = 0 THEN 1 ELSE 0)
  OBVIOUS
<1>2. (y + 1) \div 100 = y \div 100 + (IF (y + 1) % 100 = 0 THEN 1 ELSE 0)
  OBVIOUS
<1>3. (y + 1) \div 400 = y \div 400 + (IF (y + 1) % 400 = 0 THEN 1 ELSE 0)
  OBVIOUS
<1>4. ((y + 1) % 400 = 0 => (y + 1) % 100 = 0) /\ ((y + 1) % 100 = 0 => (y + 1) % 4 = 0)
  OBVIOUS
<1>5. Gregorian(y) \in Int
  BY DEF Gregorian
<1>. QED BY <1>1, <1>2, <1>3, <1>4, <1>5 DEF Gregorian, is_leap

Serial(y, m, k) == Gregorian(y - Some(m <= 2)) + Before(m) + k - 719469

EraDays(Y) ==
  LET era == Y \div 400
      yoe == Y - era * 400
  IN  era * 146097 + yoe * 365 + yoe \div 4 - yoe \div 100

\* The days of the years before Y, by eras of 400 years or all at once.
LEMMA EraSum == ASSUME NEW Y \in Int PROVE EraDays(Y) = Gregorian(Y)
<1>1. PICK era \in Int, yoe \in Int : era = Y \div 400 /\ yoe = Y - era * 400
  OBVIOUS
<1>2. yoe \div 4 = Y \div 4 - 100 * era
  BY <1>1
<1>3. yoe \div 100 = Y \div 100 - 4 * era
  BY <1>1
<1>4. PICK a \in Int, b \in Int : a = Y \div 4 /\ b = Y \div 100
  OBVIOUS
<1>5. EraDays(Y) = era * 146097 + yoe * 365 + (a - 100 * era) - (b - 4 * era)
  BY <1>1, <1>2, <1>3, <1>4 DEF EraDays
<1>6. era * 146097 + yoe * 365 + (a - 100 * era) - (b - 4 * era) = 365 * Y + a - b + era
  BY <1>1
<1>. QED BY <1>1, <1>4, <1>5, <1>6 DEF Gregorian

\* The days since 1970 that the code computes are the serial number of the date.
LEMMA Civil ==
  ASSUME NEW y \in Int, NEW m \in 1..12, NEW k \in Int
  PROVE  days_from_civil(Day(y, m, k)) = Serial(y, m, k)
<1>1. PICK Y \in Int : Y = y - Some(m <= 2)
  BY DEF Some
<1>2. PICK b \in Int : b = Before(m)
  BY DEF Before
<1>3. PICK s \in Int : s = EraDays(Y)
  BY EraSum, GregorianStep
<1>5. days_from_civil(Day(y, m, k)) = s + (b + k - 1) - 719468
  BY <1>1, <1>2, <1>3 DEF days_from_civil, Day, Before, EraDays
<1>6. s = Gregorian(Y)
  BY <1>3, EraSum
<1>7. s + (b + k - 1) - 719468 = s + b + k - 719469
  OBVIOUS
<1>. QED BY <1>1, <1>2, <1>5, <1>6, <1>7 DEF Serial

Date == {d \in [year : Int, month : 1..12, day : 1..31] :
           d.day <= days_in_month(d.year, d.month)}

\* A month has 28 to 31 days.
LEMMA MonthLength ==
  ASSUME NEW y, NEW m \in 1..12
  PROVE  days_in_month(y, m) \in 28..31
BY DEF days_in_month

\* A date is its year, its month and its day.
LEMMA DateParts ==
  ASSUME NEW d \in Date
  PROVE  /\ d.year \in Int /\ d.month \in 1..12 /\ d.day \in 1..31
         /\ d.day <= days_in_month(d.year, d.month)
         /\ d = Day(d.year, d.month, d.day)
BY DEF Date, Day

\* A date's days since 1970 are a number.
LEMMA DateSerial ==
  ASSUME NEW d \in Date
  PROVE  days_from_civil(d) \in Int
<1>1. PICK y \in Int, m \in 1..12, k \in 1..31 : d = Day(y, m, k)
  BY DateParts
<1>2. days_from_civil(d) = Serial(y, m, k)
  BY <1>1, Civil, 1..31 \subseteq Int
<1>3. y - Some(m <= 2) \in Int /\ Before(m) \in Int
  BY DEF Some, Before
<1>4. Gregorian(y - Some(m <= 2)) \in Int
  BY <1>3, GregorianStep
<1>. QED BY <1>2, <1>3, <1>4 DEF Serial

\* The day z, n, j is the day after y, m, k.
Follows(y, m, k, z, n, j) ==
  /\ next_day(Day(y, m, k)) = Day(z, n, j) /\ j <= days_in_month(z, n)
  /\ Serial(z, n, j) = Serial(y, m, k) + 1

\* The day after a date is a date, and has the next serial number: within a month, from
\* one to the next, from one year to the next.
LEMMA NextDayOf ==
  ASSUME NEW y \in Int, NEW m \in 1..12, NEW k \in 1..31, k <= days_in_month(y, m)
  PROVE  \E z \in Int, n \in 1..12, j \in 1..31 : Follows(y, m, k, z, n, j)
<1>. DEFINE last == days_in_month(y, m)
<1>0. last \in 28..31 /\ Day(y, m, k).year = y /\ Day(y, m, k).month = m /\ Day(y, m, k).day = k
  BY MonthLength DEF Day
<1>1. CASE k < last
  <2>1. next_day(Day(y, m, k)) = Day(y, m, k + 1)
    BY <1>0, <1>1 DEF next_day, Day
  <2>2. Gregorian(y - Some(m <= 2)) \in Int /\ Before(m) \in Int
    BY GregorianStep DEF Some, Before
  <2>3. Serial(y, m, k + 1) = Serial(y, m, k) + 1
    BY <2>2 DEF Serial
  <2>4. k + 1 \in 1..31 /\ k + 1 <= last
    BY <1>0, <1>1
  <2>5. Follows(y, m, k, y, m, k + 1)
    BY <2>1, <2>3, <2>4 DEF Follows
  <2>. QED BY <2>4, <2>5
<1>2. CASE k = last /\ m < 12
  <2>1. next_day(Day(y, m, k)) = Day(y, m + 1, 1)
    <3>1. next_day(Day(y, m, k)) = [Day(y, m, k) EXCEPT !.month = @ + 1, !.day = 1]
      BY <1>0, <1>2 DEF next_day
    <3>. QED BY <3>1 DEF Day
  <2>2. days_in_month(y, m + 1) \in 28..31
    BY <1>2, MonthLength
  <2>3. CASE m = 2
    <3>1. Gregorian(y) \in Int /\ Gregorian(y - 1) \in Int
          /\ Gregorian(y) = Gregorian(y - 1) + (IF is_leap(y) THEN 366 ELSE 365)
      BY GregorianStep, y - 1 \in Int, (y - 1) + 1 = y
    <3>2. last = IF is_leap(y) THEN 29 ELSE 28
      BY <2>3 DEF days_in_month
    <3>3. Before(3) = 0 /\ Before(2) = 337
      BY DEF Before
    <3>4. Some(2 <= 2) = 1 /\ Some(3 <= 2) = 0
      BY DEF Some
    <3>5. Gregorian(y - 0) + Before(3) + 1 = Gregorian(y - 1) + Before(2) + last + 1
      BY <3>1, <3>2, <3>3
    <3>6. Serial(y, 3, 1) = Serial(y, 2, k) + 1
      BY <1>2, <3>1, <3>3, <3>4, <3>5 DEF Serial
    <3>7. Follows(y, m, k, y, m + 1, 1)
      BY <1>2, <2>1, <2>2, <2>3, <3>6 DEF Follows
    <3>. QED BY <1>2, <3>7
  <2>4. CASE m # 2
    <3>1. Before(m + 1) = Before(m) + last /\ Before(m) \in Int
      BY <1>2, <2>4 DEF Before, days_in_month
    <3>2. Some(m <= 2) = Some(m + 1 <= 2) /\ y - Some(m <= 2) \in Int
      BY <2>4 DEF Some
    <3>3. Gregorian(y - Some(m <= 2)) \in Int
      BY <3>2, GregorianStep
    <3>4. Serial(y, m + 1, 1) = Serial(y, m, k) + 1
      BY <1>2, <3>1, <3>2, <3>3 DEF Serial
    <3>5. Follows(y, m, k, y, m + 1, 1)
      BY <1>2, <2>1, <2>2, <3>4 DEF Follows
    <3>. QED BY <1>2, <3>5
  <2>. QED BY <2>3, <2>4
<1>3. CASE k = last /\ m = 12
  <2>1. next_day(Day(y, m, k)) = Day(y + 1, 1, 1) /\ last = 31
    BY <1>0, <1>3 DEF next_day, Day, days_in_month
  <2>2. Before(1) = 306 /\ Before(12) = 275 /\ Some(1 <= 2) = 1 /\ Some(12 <= 2) = 0
    BY DEF Before, Some
  <2>3. Gregorian(y) \in Int /\ y + 1 - 1 = y /\ y - 0 = y
    BY GregorianStep
  <2>4. days_in_month(y + 1, 1) \in 28..31
    BY MonthLength
  <2>5. Serial(y + 1, 1, 1) = Serial(y, 12, 31) + 1
    BY <2>2, <2>3 DEF Serial
  <2>6. Follows(y, m, k, y + 1, 1, 1)
    BY <1>3, <2>1, <2>4, <2>5 DEF Follows
  <2>. QED BY <2>6
<1>. QED BY <1>0, <1>1, <1>2, <1>3

\* The day after a date is a date, one more day after 1970.
LEMMA NextDayAdds ==
  ASSUME NEW d \in Date
  PROVE  next_day(d) \in Date /\ days_from_civil(next_day(d)) = days_from_civil(d) + 1
<1>1. PICK y \in Int, m \in 1..12, k \in 1..31 : d = Day(y, m, k) /\ k <= days_in_month(y, m)
  BY DateParts
<1>2. PICK z \in Int, n \in 1..12, j \in 1..31 :
        Follows(y, m, k, z, n, j)
  BY <1>1, NextDayOf, Zenon
<1>. /\ next_day(Day(y, m, k)) = Day(z, n, j) /\ j <= days_in_month(z, n)
     /\ Serial(z, n, j) = Serial(y, m, k) + 1
  BY <1>2 DEF Follows
<1>3. days_from_civil(d) = Serial(y, m, k) /\ days_from_civil(Day(z, n, j)) = Serial(z, n, j)
  BY <1>1, <1>2, Civil, 1..31 \subseteq Int
<1>4. Day(z, n, j) \in Date
  BY <1>2 DEF Date, Day
<1>. QED BY <1>1, <1>2, <1>3, <1>4
-----------------------------------------------------------------------------
DayOf(m, k) == Before(m) + k - 1
FromMarch(m) == IF m > 2 THEN m - 3 ELSE m + 9
OfEra(yoe, doy) == 365 * yoe + yoe \div 4 - yoe \div 100 + doy

\* Years of 365 days.
LEMMA WholeYears ==
  ASSUME NEW n \in Int, NEW d \in Int, 0 <= d, d < 365
  PROVE  (365 * n + d) \div 365 = n
OBVIOUS

\* The year of an era that its day doe is in.
YearAt(doe) == (doe - doe \div 1460 + doe \div 36524 - doe \div 146096) \div 365
Feasible(c, q, r, doy) ==
  /\ c \in 0..3 /\ q \in 0..24 /\ r \in 0..3 /\ doy \in 0..365
  /\ doy = 365 => r = 3 /\ (q # 24 \/ c = 3)
InEra1(doe) == doe \in Int /\ 0 <= doe /\ doe <= 146096
OfParts(c, q, r, doy) == 36524 * c + 1461 * q + 365 * r + doy

\* c centuries, q leap periods of four years, r years, doy days.
LEMMA YearOfParts ==
  ASSUME NEW c, NEW q, NEW r, NEW doy, Feasible(c, q, r, doy)
  PROVE  /\ InEra1(OfParts(c, q, r, doy))
         /\ YearAt(OfParts(c, q, r, doy)) = 100 * c + 4 * q + r
<1>. /\ c \in 0..3 /\ q \in 0..24 /\ r \in 0..3 /\ doy \in 0..365
     /\ doy = 365 => r = 3 /\ (q # 24 \/ c = 3)
  BY DEF Feasible
<1>0. PICK doe \in Int : doe = 36524 * c + 1461 * q + 365 * r + doy
  OBVIOUS
<1>1. 0 <= doe /\ doe <= 146096
  BY <1>0
<1>. DEFINE e == IF 24 * c + q + 365 * r + doy >= 1460 THEN 1 ELSE 0
            g == IF doe = 146096 THEN 1 ELSE 0
<1>2. doe \div 1460 = 25 * c + q + e
  <2>1. /\ 0 <= 24 * c + q + 365 * r + doy - 1460 * e
        /\ 24 * c + q + 365 * r + doy - 1460 * e < 1460
    OBVIOUS
  <2>2. doe = 1460 * (25 * c + q + e) + (24 * c + q + 365 * r + doy - 1460 * e)
    BY <1>0
  <2>. QED BY <2>1, <2>2
<1>3. doe \div 36524 = c + g
  <2>1. 0 <= 1461 * q + 365 * r + doy - 36524 * g /\ 1461 * q + 365 * r + doy - 36524 * g < 36524
    BY <1>0
  <2>. QED BY <1>0, <2>1
<1>4. doe \div 146096 = g
  BY <1>1
<1>5. doe - doe \div 1460 + doe \div 36524 - doe \div 146096
        = 365 * (100 * c + 4 * q + r) + (doy - e)
  BY <1>0, <1>2, <1>3, <1>4
<1>6. 0 <= doy - e /\ doy - e < 365 /\ doy - e \in Int
  OBVIOUS
<1>. HIDE DEF e, g
<1>7. PICK n \in Int, d \in Int : n = 100 * c + 4 * q + r /\ d = doy - e
  BY <1>6
<1>8. (365 * n + d) \div 365 = n
  BY <1>6, <1>7, WholeYears
<1>9. YearAt(doe) = (365 * n + d) \div 365
  BY <1>5, <1>7 DEF YearAt
<1>. QED BY <1>0, <1>1, <1>7, <1>8, <1>9 DEF OfParts, InEra1

\* A year counted from March has a day 365 only if the February it ends in is a leap year's.
LastOfLeap(yoe, doy) == doy = 365 => is_leap(yoe + 1)

\* The year of an era is found from the day of the era it is in.
LEMMA YearOfEra ==
  ASSUME NEW yoe \in 0..399, NEW doy \in 0..365, LastOfLeap(yoe, doy)
  PROVE  /\ InEra1(OfEra(yoe, doy))
         /\ YearAt(OfEra(yoe, doy)) = yoe
<1>1. PICK c \in 0..3, q \in 0..24, r \in 0..3 : yoe = 100 * c + 4 * q + r
  <2>1. yoe \div 100 \in 0..3 /\ yoe - 100 * (yoe \div 100) \in 0..99
    OBVIOUS
  <2>2. PICK c \in 0..3, y \in 0..99 : yoe = 100 * c + y
    BY <2>1
  <2>3. y \div 4 \in 0..24 /\ y - 4 * (y \div 4) \in 0..3 /\ y = 4 * (y \div 4) + (y - 4 * (y \div 4))
    OBVIOUS
  <2>4. PICK q \in 0..24, r \in 0..3 : y = 4 * q + r
    BY <2>3
  <2>. QED BY <2>2, <2>4
<1>2. yoe \div 4 = 25 * c + q /\ yoe \div 100 = c
  BY <1>1
<1>3. doy = 365 => yoe % 4 = 3 /\ (yoe % 100 # 99 \/ yoe = 399)
  BY DEF LastOfLeap, is_leap
<1>4. doy = 365 => r = 3 /\ (q # 24 \/ c = 3)
  BY <1>1, <1>3
<1>5. OfEra(yoe, doy) = OfParts(c, q, r, doy)
  BY <1>1, <1>2 DEF OfEra, OfParts
<1>6. /\ InEra1(OfParts(c, q, r, doy))
      /\ YearAt(OfParts(c, q, r, doy)) = 100 * c + 4 * q + r
  <2>1. Feasible(c, q, r, doy)
    BY <1>4 DEF Feasible
  <2>. QED BY <2>1, YearOfParts
<1>. QED BY <1>1, <1>5, <1>6

IsDay(y, m, k) == m \in 1..12 /\ k \in 1..31 /\ k <= days_in_month(y, m)

\* The month is found from the day of the year, counted from March.
LEMMA MonthOfYear ==
  ASSUME NEW y, NEW m, NEW k, IsDay(y, m, k)
  PROVE  /\ DayOf(m, k) \in 0..365 /\ (5 * DayOf(m, k) + 2) \div 153 = FromMarch(m)
         /\ DayOf(m, k) = 365 => m = 2 /\ k = 29
<1>. m \in 1..12 /\ k \in 1..31 /\ k <= days_in_month(y, m)
  BY DEF IsDay
<1>1. /\ m \in {4, 6, 9, 11} => k <= 30
      /\ m = 2 => k <= 29
  BY DEF days_in_month
<1>2. PICK doy \in Int : doy = DayOf(m, k)
  BY DEF DayOf, Before
<1>. QED BY <1>1, <1>2 DEF Before, FromMarch, DayOf

\* The years of an era are those of any other.
ErasApart(y, yoe) == \E era \in Int : y = era * 400 + yoe

\* A year is a leap year as the one of its era is.
LEMMA LeapOfEra ==
  ASSUME NEW y \in Int, NEW yoe \in Int, ErasApart(y, yoe)
  PROVE  is_leap(y) <=> is_leap(yoe)
<1>. PICK era \in Int : y = era * 400 + yoe
  BY DEF ErasApart
<1>1. y % 4 = yoe % 4 /\ y % 100 = yoe % 100 /\ y % 400 = yoe % 400
  OBVIOUS
<1>. QED BY <1>1 DEF is_leap

\* An era and the day of it are found from the days of both.
LEMMA WholeEras ==
  ASSUME NEW era \in Int, NEW doe, InEra1(doe)
  PROVE  (era * 146097 + doe) \div 146097 = era /\ (era * 146097 + doe) % 146097 = doe
BY DEF InEra1

\* A date is put together again from its year and the day of it.
LEMMA DateOfParts ==
  ASSUME NEW y \in Int, NEW m \in 1..12, NEW k \in Int
  PROVE  DateOf(y - Some(m <= 2), DayOf(m, k), FromMarch(m)) = Day(y, m, k)
<1>1. CASE m <= 2
  <2>1. FromMarch(m) = m + 9 /\ Some(m <= 2) = 1 /\ Some(FromMarch(m) >= 10) = 1
    BY <1>1 DEF FromMarch, Some
  <2>2. Before(m) = (153 * (m + 9) + 2) \div 5 /\ Before(m) \in Int
    BY <1>1 DEF Before
  <2>. QED BY <1>1, <2>1, <2>2 DEF DateOf, Day, DayOf
<1>2. CASE m > 2
  <2>1. FromMarch(m) = m - 3 /\ Some(m <= 2) = 0 /\ Some(FromMarch(m) >= 10) = 0
    BY <1>2 DEF FromMarch, Some
  <2>2. Before(m) = (153 * (m - 3) + 2) \div 5 /\ Before(m) \in Int
    BY <1>2 DEF Before
  <2>. QED BY <1>2, <2>1, <2>2 DEF DateOf, Day, DayOf
<1>. QED BY <1>1, <1>2

\* A date is what its days since 1970 give back.
THEOREM ThereAndBack ==
  ASSUME NEW d \in Date
  PROVE  civil_from_days(days_from_civil(d)) = d
<1>1. PICK y \in Int, m \in 1..12, k \in 1..31 : d = Day(y, m, k) /\ k <= days_in_month(y, m)
  BY DateParts
<1>2. PICK Y \in Int : Y = y - Some(m <= 2)
  BY DEF Some
<1>3. PICK era \in Int, yoe \in 0..399 : era = Y \div 400 /\ yoe = Y - era * 400
  OBVIOUS
<1>4. PICK doy \in 0..365 : /\ doy = DayOf(m, k)
                            /\ (5 * doy + 2) \div 153 = FromMarch(m)
                            /\ doy = 365 => m = 2 /\ k = 29
  <2>1. IsDay(y, m, k)
    BY <1>1 DEF IsDay
  <2>. QED BY <2>1, MonthOfYear
<1>5. days_from_civil(d) = era * 146097 + OfEra(yoe, doy) - 719468
  BY <1>1, <1>2, <1>3, <1>4 DEF days_from_civil, Day, DayOf, Before, OfEra
<1>6. LastOfLeap(yoe, doy)
  <2>1. ASSUME doy = 365 PROVE is_leap(yoe + 1)
    <3>1. is_leap(y) /\ Y = y - 1
      BY <1>1, <1>2, <1>4, <2>1 DEF days_in_month, Some
    <3>2. PICK n \in Int : n = yoe + 1
      BY <1>3
    <3>3. y = era * 400 + n
      BY <1>3, <3>1, <3>2
    <3>4. ErasApart(y, n)
      BY <3>3 DEF ErasApart
    <3>5. is_leap(n)
      BY <3>1, <3>4, LeapOfEra
    <3>. QED BY <3>2, <3>5
  <2>. QED BY <2>1 DEF LastOfLeap
<1>7. InEra1(OfEra(yoe, doy)) /\ YearAt(OfEra(yoe, doy)) = yoe
  BY <1>6, YearOfEra, Zenon
<1>8. civil_from_days(days_from_civil(d)) = EraDay(era, OfEra(yoe, doy))
  <2>1. days_from_civil(d) + 719468 = era * 146097 + OfEra(yoe, doy)
    BY <1>5, <1>7 DEF InEra1
  <2>. QED BY <1>7, <2>1, WholeEras DEF civil_from_days
<1>9. EraDay(era, OfEra(yoe, doy)) = InYear(Y, doy)
  <2>1. EraDay(era, OfEra(yoe, doy)) = InEra(era, OfEra(yoe, doy), yoe)
    BY <1>7 DEF EraDay, YearAt
  <2>2. yoe + era * 400 = Y /\ OfEra(yoe, doy) - (365 * yoe + yoe \div 4 - yoe \div 100) = doy
    BY <1>3 DEF OfEra
  <2>. QED BY <2>1, <2>2 DEF InEra
<1>10. InYear(Y, doy) = Day(y, m, k)
  <2>1. InYear(Y, doy) = DateOf(y - Some(m <= 2), DayOf(m, k), FromMarch(m))
    BY <1>2, <1>4 DEF InYear
  <2>2. k \in Int
    OBVIOUS
  <2>. QED BY <2>1, <2>2, DateOfParts
<1>. QED BY <1>1, <1>8, <1>9, <1>10

\* The first of a year far enough back.
LEMMA SomeDayBefore ==
  ASSUME NEW n \in Int
  PROVE  \E d \in Date : days_from_civil(d) \in Int /\ days_from_civil(d) <= n
<1>1. PICK y \in Int : y <= 0 /\ y <= n
  <2>1. CASE n < 0 BY <2>1
  <2>2. CASE n >= 0 BY <2>2
  <2>. QED BY <2>1, <2>2
<1>2. days_from_civil(Day(y, 1, 1)) = Serial(y, 1, 1)
  BY Civil
<1>3. Some(1 <= 2) = 1 /\ Before(1) = 306
  BY DEF Some, Before
<1>4. PICK z \in Int : z = y - 1
  OBVIOUS
<1>5. Gregorian(z) \in Int /\ Gregorian(z) <= 365 * z
  BY <1>1, <1>4 DEF Gregorian
<1>6. Serial(y, 1, 1) \in Int /\ Serial(y, 1, 1) <= n
  BY <1>1, <1>3, <1>4, <1>5 DEF Serial
<1>7. Day(y, 1, 1) \in Date
  BY DEF Day, Date, days_in_month
<1>. QED BY <1>2, <1>6, <1>7

\* Every day of the calendar is a date's.
LEMMA EveryDay ==
  ASSUME NEW n \in Int
  PROVE  \E d \in Date : days_from_civil(d) = n
<1>1. PICK b \in Date : days_from_civil(b) \in Int /\ days_from_civil(b) <= n
  BY SomeDayBefore
<1>2. PICK from \in Int : from = days_from_civil(b)
  BY <1>1
<1>. DEFINE S == {k \in Nat : \E d \in Date : days_from_civil(d) = from + k}
<1>3. 0 \in S
  BY <1>2
<1>4. ASSUME NEW k \in S PROVE k + 1 \in S
  <2>1. PICK d \in Date : days_from_civil(d) = from + k
    BY <1>4
  <2>2. next_day(d) \in Date /\ days_from_civil(next_day(d)) = from + (k + 1)
    BY <2>1, NextDayAdds
  <2>. QED BY <2>2
<1>5. S = Nat
  <2>1. S \in SUBSET Nat
    OBVIOUS
  <2>. HIDE DEF S
  <2>. QED BY <1>3, <1>4, <2>1, Induction
<1>6. n - from \in S
  <2>1. n - from \in Nat
    BY <1>1, <1>2
  <2>. HIDE DEF S
  <2>. QED BY <1>5, <2>1
<1>. QED BY <1>6

\* Days since 1970 are what the date they give back comes to.
THEOREM BackAndThere ==
  ASSUME NEW n \in Int
  PROVE  civil_from_days(n) \in Date /\ days_from_civil(civil_from_days(n)) = n
BY EveryDay, ThereAndBack
-----------------------------------------------------------------------------
(***************************************************************************)
(* The time carried on.                                                    *)
(***************************************************************************)
RollsTo(k, date, f) ==
  f = [n \in 0..k |-> IF n = 0 THEN date ELSE IF n < 7 THEN after[f[n - 1]] ELSE week_after[f[n - 7]]]

\* The recursion plus_seconds is written with has an answer.
LEMMA RollExists ==
  ASSUME NEW date, NEW k \in Nat
  PROVE  \E f : RollsTo(k, date, f)
<1>. DEFINE S == {n \in Nat : \E f : RollsTo(n, date, f)}
<1>1. 0 \in S
  <2>. DEFINE f == [n \in 0..0 |-> date]
  <2>1. RollsTo(0, date, f)
    BY DEF RollsTo
  <2>. QED BY <2>1
<1>2. ASSUME NEW n \in S PROVE n + 1 \in S
  <2>1. PICK f : RollsTo(n, date, f)
    BY <1>2
  <2>2. n \in Nat
    OBVIOUS
  <2>. DEFINE next == IF n + 1 < 7 THEN after[f[n]] ELSE week_after[f[n - 6]]
              g == [i \in 0..n + 1 |-> IF i = n + 1 THEN next ELSE f[i]]
  <2>3. \A i \in 0..n : g[i] = f[i]
    BY <2>2
  <2>4. \A i \in 0..n : f[i] = IF i = 0 THEN date ELSE IF i < 7 THEN after[f[i - 1]]
                                                     ELSE week_after[f[i - 7]]
    BY <2>1 DEF RollsTo
  <2>5. \A i \in 0..n + 1 : g[i] = IF i = 0 THEN date ELSE IF i < 7 THEN after[g[i - 1]]
                                                         ELSE week_after[g[i - 7]]
    <3>1. TAKE i \in 0..n + 1
    <3>2. CASE i = n + 1
      <4>1. g[i] = next
        BY <2>2, <3>2
      <4>2. i # 0 /\ i - 1 = n /\ i - 7 = n - 6 /\ (~(i < 7) => n - 6 \in 0..n)
        BY <2>2, <3>2
      <4>3. g[n] = f[n] /\ (~(i < 7) => g[n - 6] = f[n - 6])
        BY <2>2, <2>3, <4>2
      <4>. HIDE DEF g
      <4>. QED BY <3>2, <4>1, <4>2, <4>3
    <3>3. CASE i # n + 1
      <4>1. i \in 0..n /\ (i # 0 => i - 1 \in 0..n) /\ (~(i < 7) => i - 7 \in 0..n)
        BY <2>2, <3>3
      <4>. HIDE DEF g
      <4>. QED BY <2>3, <2>4, <4>1
    <3>. QED BY <3>2, <3>3
  <2>6. g = [i \in 0..n + 1 |-> IF i = 0 THEN date ELSE IF i < 7 THEN after[g[i - 1]]
                                                   ELSE week_after[g[i - 7]]]
    <3>1. DOMAIN g = 0..n + 1 /\ g = [i \in 0..n + 1 |-> g[i]]
      OBVIOUS
    <3>. HIDE DEF g
    <3>. QED BY <2>5, <3>1
  <2>7. RollsTo(n + 1, date, g)
    <3>. HIDE DEF g
    <3>. QED BY <2>6 DEF RollsTo
  <2>8. \E h : RollsTo(n + 1, date, h)
    <3>. HIDE DEF g
    <3>. QED BY <2>7
  <2>. QED BY <2>2, <2>8
<1>3. S = Nat
  <2>1. S \in SUBSET Nat
    OBVIOUS
  <2>. HIDE DEF S
  <2>. QED BY <1>1, <1>2, <2>1, Induction
<1>. QED BY <1>3

\* The walk starts at its date, and each day of it is the one after the day before, or a
\* week after the one it was a week before.
LEMMA RolledStep ==
  ASSUME MAX_ROLLOVER_DAYS \in Nat, NEW date
  PROVE  /\ Rolled(date)[0] = date
         /\ \A n \in 0..MAX_ROLLOVER_DAYS :
              n # 0 => Rolled(date)[n] = IF n < 7 THEN after[Rolled(date)[n - 1]]
                                         ELSE week_after[Rolled(date)[n - 7]]
<1>1. RollsTo(MAX_ROLLOVER_DAYS, date, Rolled(date))
  <2>1. Rolled(date) = CHOOSE f : RollsTo(MAX_ROLLOVER_DAYS, date, f)
    BY DEF Rolled, RollsTo
  <2>. QED BY <2>1, RollExists
<1>2. PICK f : f = Rolled(date)
  OBVIOUS
<1>3. f = [n \in 0..MAX_ROLLOVER_DAYS |-> IF n = 0 THEN date ELSE IF n < 7 THEN after[f[n - 1]]
                                                           ELSE week_after[f[n - 7]]]
  BY <1>1, <1>2 DEF RollsTo
<1>4. \A n \in 0..MAX_ROLLOVER_DAYS :
        f[n] = IF n = 0 THEN date ELSE IF n < 7 THEN after[f[n - 1]] ELSE week_after[f[n - 7]]
  BY <1>3
<1>. QED BY <1>2, <1>4

\* A day after, and a week after.
LEMMA AfterAdds ==
  ASSUME NEW d \in Date
  PROVE  after[d] \in Date /\ days_from_civil(after[d]) = days_from_civil(d) + 1
<1>1. d \in Dates
  BY DEF Date, Dates
<1>2. after[d] = next_day(d)
  BY <1>1, SMTT(20) DEF after
<1>. QED BY <1>2, NextDayAdds

LEMMA WeekAfterAdds ==
  ASSUME NEW d \in Date
  PROVE  week_after[d] \in Date /\ days_from_civil(week_after[d]) = days_from_civil(d) + 7
<1>1. d \in Dates
  BY DEF Date, Dates
<1>2. week_after[d] = after[after[after[after[after[after[after[d]]]]]]]
  BY <1>1 DEF week_after
<1>3. PICK n \in Int : n = days_from_civil(d)
  BY DateSerial
<1>4. PICK e \in Date : e = after[after[d]] /\ days_from_civil(e) = n + 2
  BY <1>3, AfterAdds
<1>5. PICK f \in Date : f = after[after[e]] /\ days_from_civil(f) = n + 4
  BY <1>3, <1>4, AfterAdds
<1>6. PICK g \in Date : g = after[after[f]] /\ days_from_civil(g) = n + 6
  BY <1>3, <1>5, AfterAdds
<1>7. after[g] \in Date /\ days_from_civil(after[g]) = n + 7
  BY <1>3, <1>6, AfterAdds
<1>. QED BY <1>2, <1>3, <1>4, <1>5, <1>6, <1>7

\* Each day walked is a day.
LEMMA RolledDays ==
  ASSUME MAX_ROLLOVER_DAYS \in Nat, NEW date \in Date, NEW n \in 0..MAX_ROLLOVER_DAYS
  PROVE  /\ Rolled(date)[n] \in Date
         /\ days_from_civil(Rolled(date)[n]) = days_from_civil(date) + n
<1>1. PICK from \in Int : from = days_from_civil(date)
  BY DateSerial
<1>. DEFINE Right(k) == /\ Rolled(date)[k] \in Date
                        /\ days_from_civil(Rolled(date)[k]) = from + k
            S == {k \in Nat : k <= MAX_ROLLOVER_DAYS => \A j \in 0..k : Right(j)}
<1>2. 0 \in S
  <2>1. Right(0)
    BY <1>1, RolledStep
  <2>. HIDE DEF Right
  <2>. QED BY <2>1
<1>3. ASSUME NEW k \in S PROVE k + 1 \in S
  <2>1. CASE k + 1 <= MAX_ROLLOVER_DAYS
    <3>1. \A j \in 0..k : Right(j)
      BY <1>3, <2>1
    <3>2. k \in Nat /\ k + 1 \in 0..MAX_ROLLOVER_DAYS /\ k + 1 # 0 /\ k + 1 - 1 = k
      BY <2>1
    <3>3. Right(k + 1)
      <4>1. CASE k + 1 < 7
        <5>1. Rolled(date)[k + 1] = after[Rolled(date)[k]]
          BY <3>2, <4>1, RolledStep
        <5>2. Rolled(date)[k] \in Date /\ days_from_civil(Rolled(date)[k]) = from + k
          BY <3>1, <3>2
        <5>3. after[Rolled(date)[k]] \in Date
                /\ days_from_civil(after[Rolled(date)[k]]) = (from + k) + 1
          BY <5>2, AfterAdds
        <5>. QED BY <3>2, <5>1, <5>3
      <4>2. CASE ~(k + 1 < 7)
        <5>1. PICK j \in 0..k : j = k + 1 - 7
          BY <3>2, <4>2
        <5>2. Rolled(date)[k + 1] = week_after[Rolled(date)[j]]
          BY <3>2, <4>2, <5>1, RolledStep
        <5>3. Rolled(date)[j] \in Date /\ days_from_civil(Rolled(date)[j]) = from + j
          BY <3>1, <5>1
        <5>4. week_after[Rolled(date)[j]] \in Date
                /\ days_from_civil(week_after[Rolled(date)[j]]) = (from + j) + 7
          BY <5>3, WeekAfterAdds
        <5>. QED BY <3>2, <5>1, <5>2, <5>4
      <4>. QED BY <4>1, <4>2
    <3>4. \A j \in 0..(k + 1) : j \in 0..k \/ j = k + 1
      BY <3>2
    <3>. HIDE DEF Right
    <3>. QED BY <3>1, <3>2, <3>3, <3>4
  <2>2. CASE ~(k + 1 <= MAX_ROLLOVER_DAYS)
    BY <2>2
  <2>. QED BY <2>1, <2>2
<1>4. S = Nat
  <2>1. S \in SUBSET Nat
    OBVIOUS
  <2>. HIDE DEF S
  <2>. QED BY <1>2, <1>3, <2>1, Induction
<1>5. n \in Nat /\ n <= MAX_ROLLOVER_DAYS /\ n \in 0..n
  OBVIOUS
<1>6. Right(n)
  <2>1. n \in S
    <3>. HIDE DEF S
    <3>. QED BY <1>4, <1>5
  <2>. HIDE DEF Right
  <2>. QED BY <1>5, <2>1
<1>. QED BY <1>1, <1>6

\* What a clock may read: a date there is, a minute of its day, and an offset or NoOffset.
WallTime(w) ==
  /\ w = [date |-> w.date, minute |-> w.minute, offset |-> w.offset]
  /\ w.date \in Date /\ w.minute \in Int /\ 0 <= w.minute /\ w.minute < DAY
  /\ w.offset \in Int

\* The day an instant is on, and the minute of it.
DayAndMinute(n, day, minute) ==
  /\ day = n \div DAY /\ minute = n % DAY /\ day * DAY + minute = n
  /\ 0 <= minute /\ minute < DAY /\ (n >= 0 => 0 <= day)

\* Every instant is on a day, at a minute of it.
LEMMA DayMinutes ==
  ASSUME NEW n \in Int
  PROVE  \E day \in Int, minute \in Int : DayAndMinute(n, day, minute)
<1>1. DAY = 1440
  BY DEF DAY
<1>2. PICK d \in Int, m \in Int : d = n \div 1440 /\ m = n % 1440
  OBVIOUS
<1>3. d * 1440 + m = n /\ 0 <= m /\ m < 1440
  BY <1>2
<1>4. n >= 0 => 0 <= d
  BY <1>2
<1>5. DayAndMinute(n, d, m)
  BY <1>1, <1>2, <1>3, <1>4 DEF DayAndMinute
<1>. QED BY <1>5

\* A reading made from local time shows that time, in the offset asked for.
LEMMA FromLocal ==
  ASSUME NEW local \in Int, NEW o \in Int
  PROVE  /\ WallTime(from_local_seconds(local, o))
         /\ local_seconds(from_local_seconds(local, o)) = local
         /\ from_local_seconds(local, o).offset = o
<1>0. PICK n \in Int, m \in Int : DayAndMinute(local, n, m)
  BY DayMinutes
<1>1. n = local \div DAY /\ m = local % DAY /\ 0 <= m /\ m < DAY /\ n * DAY + m = local
  BY <1>0 DEF DayAndMinute
<1>2. from_local_seconds(local, o) = [date |-> civil_from_days(n), minute |-> m, offset |-> o]
  BY <1>1 DEF from_local_seconds
<1>3. civil_from_days(n) \in Date /\ days_from_civil(civil_from_days(n)) = n
  BY BackAndThere
<1>4. WallTime(from_local_seconds(local, o))
  BY <1>1, <1>2, <1>3 DEF WallTime
<1>5. local_seconds(from_local_seconds(local, o)) = n * DAY + m
  BY <1>2, <1>3 DEF local_seconds
<1>. QED BY <1>1, <1>2, <1>4, <1>5

\* The local time of a reading is a number.
LEMMA LocalIsInt ==
  ASSUME NEW w, WallTime(w)
  PROVE  local_seconds(w) \in Int
<1>1. days_from_civil(w.date) \in Int /\ w.minute \in Int
  BY DateSerial DEF WallTime
<1>. QED BY <1>1 DEF local_seconds, DAY

\* A clock carried on gains the minutes that passed, over the ends of months and years,
\* and keeps its offset.
THEOREM PlusAdds ==
  ASSUME MAX_ROLLOVER_DAYS \in Nat, NEW w, WallTime(w), NEW n \in Nat, Known(w, n)
  PROVE  /\ WallTime(plus_seconds(w, n)) /\ plus_seconds(w, n).offset = w.offset
         /\ local_seconds(plus_seconds(w, n)) = local_seconds(w) + n
<1>1. w.date \in Date /\ w.minute \in Int /\ 0 <= w.minute /\ w.offset \in Int
  BY DEF WallTime
<1>2. PICK total \in Int : total = w.minute + n /\ total >= 0
  BY <1>1
<1>13. PICK k \in Int, m \in Int : DayAndMinute(total, k, m)
  BY DayMinutes
<1>3. /\ k = total \div DAY /\ m = total % DAY /\ 0 <= k
      /\ 0 <= m /\ m < DAY /\ k * DAY + m = total
  BY <1>2, <1>13 DEF DayAndMinute
<1>4. k \in 0..MAX_ROLLOVER_DAYS
  BY <1>2, <1>3 DEF Known
<1>5. plus_seconds(w, n) = [date |-> Rolled(w.date)[k], minute |-> m, offset |-> w.offset]
  <2>1. plus_seconds(w, n) = [w EXCEPT !.date = Rolled(w.date)[k], !.minute = m]
    BY <1>2, <1>3 DEF plus_seconds
  <2>2. w = [date |-> w.date, minute |-> w.minute, offset |-> w.offset]
    BY DEF WallTime
  <2>. QED BY <2>1, <2>2
<1>6. PICK from \in Int : from = days_from_civil(w.date)
  BY <1>1, DateSerial
<1>7. Rolled(w.date)[k] \in Date /\ days_from_civil(Rolled(w.date)[k]) = from + k
  BY <1>1, <1>4, <1>6, RolledDays
<1>8. WallTime(plus_seconds(w, n))
  BY <1>1, <1>3, <1>5, <1>7 DEF WallTime
<1>9. local_seconds(plus_seconds(w, n)) = (from + k) * DAY + m
  BY <1>5, <1>7 DEF local_seconds
<1>10. local_seconds(w) = from * DAY + w.minute
  BY <1>6 DEF local_seconds
<1>11. (from + k) * DAY + m = from * DAY + w.minute + n
  <2>1. DAY = 1440
    BY DEF DAY
  <2>2. k * 1440 + m = w.minute + n
    BY <1>2, <1>3, <2>1
  <2>3. PICK v \in Int : v = w.minute
    BY <1>1
  <2>4. (from + k) * 1440 + m = from * 1440 + v + n
    BY <2>2, <2>3
  <2>. QED BY <2>1, <2>3, <2>4
<1>12. plus_seconds(w, n).offset = w.offset
  BY <1>5
<1>. QED BY <1>1, <1>8, <1>9, <1>10, <1>11, <1>12

\* A reading moved to another offset shows the instant it showed.
LEMMA FollowKeeps ==
  ASSUME NEW r, r.std \in Int, r.dst \in Int, NEW w, WallTime(w), w.offset # NoOffset
  PROVE  /\ WallTime(follow(r, w))
         /\ local_seconds(follow(r, w)) - follow(r, w).offset = local_seconds(w) - w.offset
         /\ follow(r, w).offset = offset_at_utc(r, local_seconds(w) - w.offset)
<1>1. PICK t \in Int : t = local_seconds(w) - w.offset
  BY LocalIsInt DEF WallTime
<1>2. PICK o \in Int : o = offset_at_utc(r, t)
  BY DEF offset_at_utc
<1>3. follow(r, w) = IF o = w.offset THEN w ELSE from_local_seconds(t + o, o)
  BY <1>1, <1>2 DEF follow, MovedAt, Moved
<1>4. CASE o = w.offset
  BY <1>1, <1>2, <1>3, <1>4
<1>5. CASE o # w.offset
  <2>1. /\ WallTime(from_local_seconds(t + o, o))
        /\ local_seconds(from_local_seconds(t + o, o)) = t + o
        /\ from_local_seconds(t + o, o).offset = o
    BY FromLocal
  <2>. QED BY <1>1, <1>2, <1>3, <1>5, <2>1
<1>. QED BY <1>4, <1>5
-----------------------------------------------------------------------------
(***************************************************************************)
(* Months and years.                                                       *)
(***************************************************************************)
First(y, m) == days_from_civil(Day(y, m, 1))
LastDay(y, m) == days_in_month(y, m)

\* The first of a month is a number of days after 1970.
LEMMA FirstIsInt ==
  ASSUME NEW y \in Int, NEW m \in 1..12
  PROVE  First(y, m) \in Int
<1>1. Day(y, m, 1) \in Date
  BY MonthLength DEF Date, Day
<1>. QED BY <1>1, DateSerial DEF First

\* So is the first of a year.
LEMMA FirstOfYear ==
  ASSUME NEW y \in Int
  PROVE  First(y, 1) \in Int
BY FirstIsInt, 1 \in 1..12

\* A day of a month, from its first.
LEMMA DayFromFirst ==
  ASSUME NEW y \in Int, NEW m \in 1..12, NEW k \in Int
  PROVE  days_from_civil(Day(y, m, k)) = First(y, m) + k - 1
<1>1. PICK g \in Int : g = Gregorian(y - Some(m <= 2))
  BY GregorianStep DEF Some
<1>2. PICK b \in Int : b = Before(m)
  BY DEF Before
<1>3. First(y, m) = Serial(y, m, 1)
  BY 1 \in Int, Civil DEF First
<1>4. days_from_civil(Day(y, m, k)) = Serial(y, m, k)
  BY Civil
<1>5. Serial(y, m, 1) = g + b + 1 - 719469 /\ Serial(y, m, k) = g + b + k - 719469
  BY <1>1, <1>2 DEF Serial
<1>. QED BY <1>3, <1>4, <1>5

\* A month begins as the one before it ends, a year as its December does.
LEMMA MonthAfter ==
  ASSUME NEW y \in Int, NEW m \in 1..12
  PROVE  /\ m < 12 => First(y, m + 1) = First(y, m) + LastDay(y, m)
         /\ m = 12 => First(y + 1, 1) = First(y, m) + LastDay(y, m)
<1>1. PICK k \in 28..31 : k = LastDay(y, m)
  BY MonthLength DEF LastDay
<1>2. PICK d : d = Day(y, m, k)
  OBVIOUS
<1>3. d \in Date
  BY <1>1, <1>2 DEF Date, Day, LastDay
<1>4. PICK f \in Int : f = First(y, m)
  BY FirstIsInt
<1>5. days_from_civil(d) = f + k - 1
  BY <1>2, <1>4, DayFromFirst, SMTT(20)
<1>6. days_from_civil(next_day(d)) = f + k
  BY <1>3, <1>5, NextDayAdds
<1>7. next_day(d) = IF m < 12 THEN Day(y, m + 1, 1) ELSE Day(y + 1, 1, 1)
  <2>1. d.year = y /\ d.month = m /\ d.day = k
    BY <1>2 DEF Day
  <2>2. ~(d.day < days_in_month(d.year, d.month)) /\ d.day >= days_in_month(d.year, d.month)
    BY <1>1, <2>1 DEF LastDay
  <2>3. CASE m < 12
    <3>1. next_day(d) = [d EXCEPT !.month = @ + 1, !.day = 1]
      BY <2>1, <2>2, <2>3 DEF next_day
    <3>. QED BY <1>2, <2>3, <3>1 DEF Day
  <2>4. CASE ~(m < 12)
    BY <2>1, <2>2, <2>4 DEF next_day, Day
  <2>. QED BY <2>3, <2>4
<1>. QED BY <1>1, <1>4, <1>6, <1>7 DEF First

\* Months of a year come one after the other, four weeks long at least.
LEMMA MonthsInOrder ==
  ASSUME NEW y \in Int, NEW m \in 1..12, NEW n \in 1..12, m < n
  PROVE  First(y, m) + 28 * (n - m) <= First(y, n)
<1>. DEFINE S == {k \in Nat : m + k <= 12 => First(y, m) + 28 * k <= First(y, m + k)}
<1>1. 0 \in S
  <2>1. PICK f \in Int : f = First(y, m)
    BY FirstIsInt
  <2>2. m + 0 = m /\ f + 28 * 0 <= f
    BY <2>1
  <2>. QED BY <2>1, <2>2
<1>2. ASSUME NEW k \in S PROVE k + 1 \in S
  <2>1. CASE m + (k + 1) <= 12
    <3>1. PICK i \in 1..12 : i = m + k
      BY <2>1
    <3>2. PICK a \in Int, b \in Int, c \in Int, l \in 28..31 :
            a = First(y, m) /\ b = First(y, i) /\ c = First(y, i + 1) /\ l = LastDay(y, i)
      <4>1. i + 1 \in 1..12
        BY <2>1, <3>1
      <4>. QED BY <4>1, FirstIsInt, MonthLength DEF LastDay
    <3>3. a + 28 * k <= b
      BY <1>2, <2>1, <3>1, <3>2
    <3>4. c = b + l
      BY <2>1, <3>1, <3>2, MonthAfter
    <3>5. a + 28 * (k + 1) <= c
      BY <3>3, <3>4
    <3>6. i + 1 = m + (k + 1)
      BY <3>1
    <3>. QED BY <3>2, <3>5, <3>6
  <2>2. CASE ~(m + (k + 1) <= 12)
    BY <2>2
  <2>. QED BY <2>1, <2>2
<1>3. S = Nat
  <2>1. S \in SUBSET Nat
    OBVIOUS
  <2>. HIDE DEF S
  <2>. QED BY <1>1, <1>2, <2>1, Induction
<1>4. n - m \in S
  <2>1. n - m \in Nat
    OBVIOUS
  <2>. HIDE DEF S
  <2>. QED BY <1>3, <2>1
<1>5. m + (n - m) = n
  OBVIOUS
<1>. QED BY <1>4, <1>5

\* A month lies in its year; but for January and December a month away from its ends.
LEMMA MonthInYear ==
  ASSUME NEW y \in Int, NEW m \in 1..12
  PROVE  /\ First(y, 1) + (IF m = 1 THEN 0 ELSE 28) <= First(y, m)
         /\ First(y, m) + LastDay(y, m) <= First(y + 1, 1) - (IF m = 12 THEN 0 ELSE 28)
<1>0. First(y, m) \in Int /\ First(y, 1) \in Int /\ First(y + 1, 1) \in Int
  BY FirstIsInt, 1 \in 1..12, y + 1 \in Int
<1>1. m # 1 => First(y, 1) + 28 <= First(y, m)
  <2>1. ASSUME m # 1 PROVE First(y, 1) + 28 <= First(y, m)
    <3>1. First(y, 1) + 28 * (m - 1) <= First(y, m)
      BY <2>1, MonthsInOrder
    <3>. QED BY <1>0, <2>1, <3>1
  <2>. QED BY <2>1
<1>2. PICK d \in Int, l \in 28..31 : d = First(y, 12) /\ l = LastDay(y, 12)
  BY FirstIsInt, 12 \in 1..12, MonthLength DEF LastDay
<1>3. First(y + 1, 1) = d + l
  BY <1>2, MonthAfter
<1>4. m # 12 => First(y, m) + LastDay(y, m) <= d
  <2>1. ASSUME m # 12 PROVE First(y, m) + LastDay(y, m) <= d
    <3>1. PICK n \in 1..12 : n = m + 1
      BY <2>1
    <3>2. First(y, n) = First(y, m) + LastDay(y, m)
      BY <2>1, <3>1, MonthAfter
    <3>3. n < 12 => First(y, n) + 28 * (12 - n) <= d
      BY <1>2, MonthsInOrder
    <3>4. PICK f \in Int : f = First(y, n)
      BY FirstIsInt
    <3>5. f <= d
      BY <1>2, <3>1, <3>3, <3>4
    <3>. QED BY <3>2, <3>4, <3>5
  <2>. QED BY <2>1
<1>5. m = 12 => First(y, m) + LastDay(y, m) = d + l
  BY <1>2
<1>6. PICK z \in Int : z = First(y, m) + LastDay(y, m)
  <2>1. LastDay(y, m) \in Int
    BY MonthLength DEF LastDay
  <2>. QED BY <1>0, <2>1
<1>7. z <= First(y + 1, 1) - (IF m = 12 THEN 0 ELSE 28)
  BY <1>2, <1>3, <1>4, <1>5, <1>6
<1>. QED BY <1>0, <1>1, <1>6, <1>7

\* Years come one after the other.
LEMMA YearsInOrder ==
  ASSUME NEW a \in Int, NEW b \in Int, a <= b
  PROVE  First(a, 1) <= First(b, 1)
<1>1. PICK x \in Int, z \in Int : x = a - 1 /\ z = b - 1
  OBVIOUS
<1>2. Gregorian(x) <= Gregorian(z)
  BY <1>1 DEF Gregorian
<1>3. PICK g \in Int, h \in Int : g = Gregorian(x) /\ h = Gregorian(z)
  BY GregorianStep
<1>4. Some(1 <= 2) = 1 /\ Before(1) \in Int
  BY DEF Some, Before
<1>5. First(a, 1) = Serial(a, 1, 1) /\ First(b, 1) = Serial(b, 1, 1)
  BY 1 \in 1..12, 1 \in Int, Civil DEF First
<1>6. Serial(a, 1, 1) = g + Before(1) + 1 - 719469 /\ Serial(b, 1, 1) = h + Before(1) + 1 - 719469
  BY <1>1, <1>3, <1>4 DEF Serial
<1>. QED BY <1>2, <1>3, <1>4, <1>5, <1>6

\* The year of a day is the one it lies in.
LEMMA YearOfDay ==
  ASSUME NEW n \in Int
  PROVE  /\ civil_from_days(n).year \in Int
         /\ First(civil_from_days(n).year, 1) <= n
         /\ n < First(civil_from_days(n).year + 1, 1)
<1>1. PICK d \in Date : d = civil_from_days(n) /\ days_from_civil(d) = n
  BY BackAndThere
<1>2. PICK y \in Int, m \in 1..12, k \in 1..31 : y = d.year /\ d = Day(y, m, k) /\ k <= LastDay(y, m)
  BY DateParts DEF LastDay
<1>3. n = First(y, m) + k - 1
  <2>1. k \in Int
    OBVIOUS
  <2>. QED BY <1>1, <1>2, <2>1, DayFromFirst
<1>4. PICK f \in Int, l \in 28..31, a \in Int, b \in Int :
        f = First(y, m) /\ l = LastDay(y, m) /\ a = First(y, 1) /\ b = First(y + 1, 1)
  BY FirstIsInt, 1 \in 1..12, y + 1 \in Int, MonthLength DEF LastDay
<1>5. a <= f /\ f + l <= b
  <2>1. /\ a + (IF m = 1 THEN 0 ELSE 28) <= f
        /\ f + l <= b - (IF m = 12 THEN 0 ELSE 28)
    BY <1>4, MonthInYear
  <2>. QED BY <2>1
<1>6. a <= n /\ n < b
  <2>1. k <= l /\ n = f + k - 1
    BY <1>2, <1>3, <1>4
  <2>. QED BY <1>5, <2>1
<1>. QED BY <1>1, <1>2, <1>4, <1>6

-----------------------------------------------------------------------------
\* The first day of a month that falls on a weekday.
FirstFalling(y, m, w) == 1 + ((w - ((First(y, m) + 4) % 7)) % 7)

\* It is in the first week, and the others are whole weeks from it.
LEMMA FirstFallingDay ==
  ASSUME NEW y \in Int, NEW m \in 1..12, NEW w \in 0..6
  PROVE  /\ FirstFalling(y, m, w) \in 1..7
         /\ \A n \in Int : (First(y, m) + n - 1 + 4) % 7 = w <=> (n - FirstFalling(y, m, w)) % 7 = 0
<1>1. PICK f \in Int : f = First(y, m)
  BY FirstIsInt
<1>2. PICK d \in Int : d = FirstFalling(y, m, w)
  BY <1>1 DEF FirstFalling
<1>3. d = 1 + ((w - ((f + 4) % 7)) % 7)
  BY <1>1, <1>2 DEF FirstFalling
<1>4. d \in 1..7
  BY <1>3
<1>5. ASSUME NEW n \in Int PROVE (f + n - 1 + 4) % 7 = w <=> (n - d) % 7 = 0
  BY <1>3
<1>. QED BY <1>1, <1>2, <1>4, <1>5

\* The days of a month on one weekday, four of them or five, a week apart.
Weekly(d, n) == {d + 7 * i : i \in 0..n - 1}

\* The days of a month on a weekday are four, or five if a fifth is not past its end.
LEMMA FallingWeekly ==
  ASSUME NEW y \in Int, NEW m \in 1..12, NEW w \in 0..6, NEW d, d = FirstFalling(y, m, w)
  PROVE  /\ d \in 1..7
         /\ Falling(y, m, w) = Weekly(d, IF d + 28 <= LastDay(y, m) THEN 5 ELSE 4)
<1>0. d \in 1..7
  BY FirstFallingDay
<1>1. PICK l \in 28..31 : l = LastDay(y, m)
  BY MonthLength DEF LastDay
<1>2. Falling(y, m, w) = {n \in 1..l : (First(y, m) + n - 1 + 4) % 7 = w}
  BY <1>1 DEF Falling, First, LastDay, Day
<1>3. \A n \in 1..l : (First(y, m) + n - 1 + 4) % 7 = w <=> (n - d) % 7 = 0
  <2>1. \A n \in Int : (First(y, m) + n - 1 + 4) % 7 = w <=> (n - FirstFalling(y, m, w)) % 7 = 0
    BY FirstFallingDay, ZenonT(40)
  <2>2. 1..l \subseteq Int
    OBVIOUS
  <2>. QED BY <2>1, <2>2, Zenon
<1>4. Falling(y, m, w) = {n \in 1..l : (n - d) % 7 = 0}
  BY <1>2, <1>3
<1>5. ASSUME NEW n \in 1..l, (n - d) % 7 = 0
      PROVE  n \in Weekly(d, IF d + 28 <= l THEN 5 ELSE 4)
  <2>1. PICK i \in Int : i = (n - d) \div 7 /\ n = d + 7 * i
    BY <1>0, <1>5
  <2>2. 0 <= i /\ i <= (IF d + 28 <= l THEN 4 ELSE 3)
    BY <1>0, <2>1
  <2>. QED BY <2>1, <2>2 DEF Weekly
<1>6. ASSUME NEW n \in Weekly(d, IF d + 28 <= l THEN 5 ELSE 4)
      PROVE  n \in 1..l /\ (n - d) % 7 = 0
  <2>1. PICK i \in 0..(IF d + 28 <= l THEN 5 ELSE 4) - 1 : n = d + 7 * i
    BY DEF Weekly
  <2>2. i \in Int /\ 0 <= i /\ i <= (IF d + 28 <= l THEN 4 ELSE 3)
    BY <2>1
  <2>3. 1 <= n /\ n <= l /\ n \in Int
    BY <1>0, <2>1, <2>2
  <2>4. (n - d) % 7 = 0
    BY <1>0, <2>1, <2>2
  <2>. QED BY <2>3, <2>4
<1>. QED BY <1>0, <1>1, <1>4, <1>5, <1>6

\* How many of them there are up to each.
LEMMA WeeklyCount ==
  ASSUME NEW d \in Int, NEW n \in Nat
  PROVE  IsFiniteSet(Weekly(d, n)) /\ Cardinality(Weekly(d, n)) = n
<1>. DEFINE I == 0..n - 1
            W == Weekly(d, n)
            g == [i \in I |-> d + 7 * i]
<1>1. IsFiniteSet(I) /\ Cardinality(I) = n
  BY FS_Interval
<1>2. g \in Bijection(I, W)
  <2>1. g \in [I -> W]
    BY DEF Weekly
  <2>2. \A a, b \in I : g[a] = g[b] => a = b
    OBVIOUS
  <2>3. \A v \in W : \E i \in I : g[i] = v
    BY DEF Weekly
  <2>. HIDE DEF I, g, W
  <2>4. g \in Injection(I, W)
    BY <2>1, <2>2 DEF Injection, IsInjective
  <2>5. g \in Surjection(I, W)
    BY <2>1, <2>3 DEF Surjection
  <2>. QED BY <2>4, <2>5 DEF Bijection
<1>. HIDE DEF I, g
<1>3. ExistsBijection(I, W)
  BY <1>2 DEF ExistsBijection
<1>. HIDE DEF W
<1>4. IsFiniteSet(W) /\ Cardinality(W) = n
  BY <1>1, <1>3, FS_Bijection
<1>. QED BY <1>4 DEF W

\* The week-th of them, or the last.
LEMMA NthWeekly ==
  ASSUME NEW d \in Int, NEW n \in 4..5, NEW week \in 1..5
  PROVE  Nth(Weekly(d, n), week) = d + 7 * ((IF week <= n THEN week ELSE n) - 1)
<1>. DEFINE W == Weekly(d, n)
<1>1. Cardinality(W) = n
  BY WeeklyCount
<1>2. CASE week <= n
  <2>1. ASSUME NEW e \in W, NEW i \in 0..n - 1, e = d + 7 * i
        PROVE  Cardinality({v \in W : v <= e}) = i + 1
    <3>1. {v \in W : v <= e} = Weekly(d, i + 1)
      <4>1. ASSUME NEW v \in W, v <= e PROVE v \in Weekly(d, i + 1)
        <5>1. PICK j \in 0..n - 1 : v = d + 7 * j
          BY DEF Weekly
        <5>2. j \in 0..(i + 1) - 1
          BY <2>1, <4>1, <5>1
        <5>. QED BY <5>1, <5>2 DEF Weekly
      <4>2. ASSUME NEW v \in Weekly(d, i + 1) PROVE v \in W /\ v <= e
        <5>1. PICK j \in 0..(i + 1) - 1 : v = d + 7 * j
          BY DEF Weekly
        <5>2. j \in 0..n - 1 /\ d + 7 * j <= e
          BY <2>1, <5>1
        <5>. QED BY <5>1, <5>2 DEF Weekly
      <4>. HIDE DEF W
      <4>. QED BY <4>1, <4>2
    <3>2. i + 1 \in Nat
      OBVIOUS
    <3>. QED BY <3>1, <3>2, WeeklyCount
  <2>2. PICK k \in Int : k = d + 7 * (week - 1)
    OBVIOUS
  <2>3. k \in W /\ Cardinality({v \in W : v <= k}) = week
    <3>1. week - 1 \in 0..n - 1 /\ (week - 1) + 1 = week
      BY <1>2
    <3>2. k \in W
      BY <2>2, <3>1 DEF Weekly
    <3>. HIDE DEF W
    <3>3. Cardinality({v \in W : v <= k}) = (week - 1) + 1
      BY <2>1, <2>2, <3>1, <3>2
    <3>. QED BY <3>1, <3>2, <3>3
  <2>4. \A e \in W : Cardinality({v \in W : v <= e}) = week => e = k
    <3>1. SUFFICES ASSUME NEW e \in W, Cardinality({v \in W : v <= e}) = week PROVE e = k
      OBVIOUS
    <3>2. PICK i \in 0..n - 1 : e = d + 7 * i
      BY DEF Weekly
    <3>. HIDE DEF W
    <3>3. i + 1 = week
      BY <2>1, <3>1, <3>2
    <3>. QED BY <2>2, <3>2, <3>3
  <2>5. Nth(W, week) = CHOOSE e \in W : Cardinality({v \in W : v <= e}) = week
    <3>1. ~(Cardinality(W) < week)
      BY <1>1, <1>2
    <3>. QED BY <3>1 DEF Nth
  <2>. HIDE DEF W
  <2>6. Nth(W, week) = k
    BY <2>3, <2>4, <2>5
  <2>. QED BY <1>2, <2>2, <2>6 DEF W
<1>3. CASE ~(week <= n)
  <2>1. PICK k \in Int : k = d + 7 * (n - 1)
    OBVIOUS
  <2>2. k \in W
    BY <2>1 DEF Weekly
  <2>3. \A e \in W : e \in Int /\ e <= k
    BY <2>1 DEF Weekly
  <2>4. Nth(W, week) = CHOOSE e \in W : \A v \in W : v <= e
    <3>1. Cardinality(W) < week
      BY <1>1, <1>3
    <3>. QED BY <3>1 DEF Nth
  <2>. HIDE DEF W
  <2>5. \A e \in W : (\A v \in W : v <= e) => e = k
    <3>1. SUFFICES ASSUME NEW e \in W, \A v \in W : v <= e PROVE e = k
      OBVIOUS
    <3>2. k <= e /\ e <= k /\ e \in Int
      BY <2>2, <2>3, <3>1
    <3>. QED BY <3>2
  <2>6. Nth(W, week) = k
    BY <2>2, <2>3, <2>4, <2>5
  <2>. QED BY <1>3, <2>1, <2>6 DEF W
<1>. QED BY <1>2, <1>3

\* The code's day of a change is the one that counting the days finds.
LEMMA ChangeHappens ==
  ASSUME NEW c, ParsedChange(c), NEW y \in Int, NEW o \in Int
  PROVE  /\ local_seconds_in(c, y) \in Int
         /\ Happens(c, y, o) = local_seconds_in(c, y) - o
         /\ \E day \in Int : /\ 1 <= day /\ day <= LastDay(y, c.month) /\ day <= 7 * c.week
                            /\ day >= 1 + (IF c.week = 5 THEN 21 ELSE 7 * (c.week - 1))
                            /\ local_seconds_in(c, y) = (First(y, c.month) + day - 1) * DAY + c.time
<1>1. PICK m \in 1..12, k \in 1..5, w \in 0..6, s \in Int :
        m = c.month /\ k = c.week /\ w = c.weekday /\ s = c.time
  <2>1. c \in [month : 1..12, week : 1..5, weekday : 0..6, time : Int]
    BY DEF ParsedChange
  <2>. QED BY <2>1
<1>2. PICK f \in Int, l \in 28..31, d \in 1..7 :
        f = First(y, m) /\ l = LastDay(y, m) /\ d = FirstFalling(y, m, w)
  BY FirstIsInt, MonthLength, FirstFallingDay DEF LastDay
<1>3. PICK n \in 4..5 : n = IF d + 28 <= l THEN 5 ELSE 4
  OBVIOUS
<1>4. Falling(y, m, w) = Weekly(d, n)
  BY <1>2, <1>3, FallingWeekly
<1>5. PICK day \in Int : day = d + 7 * ((IF k <= n THEN k ELSE n) - 1)
  OBVIOUS
<1>6. Nth(Falling(y, m, w), k) = day
  BY <1>4, <1>5, NthWeekly, 1..7 \subseteq Int
<1>7. /\ 1 <= day /\ day <= l /\ day <= 7 * k
      /\ day >= 1 + (IF k = 5 THEN 21 ELSE 7 * (k - 1))
  BY <1>3, <1>5
<1>8. DayOfChange(c, f, l) = day
  <2>1. d = 1 + ((w - ((f + 4) % 7)) % 7)
    BY <1>2 DEF FirstFalling
  <2>2. DayOfChange(c, f, l) = IF d + (k - 1) * 7 > l THEN d + (k - 1) * 7 - 7 ELSE d + (k - 1) * 7
    BY <1>1, <2>1 DEF DayOfChange
  <2>. QED BY <1>3, <1>5, <2>2
<1>9. local_seconds_in(c, y) = (f + day - 1) * DAY + s
  BY <1>1, <1>2, <1>8 DEF local_seconds_in, SecondsFrom, First, LastDay, Day
<1>10. Happens(c, y, o) = days_from_civil(Day(y, m, day)) * DAY + s - o
  BY <1>1, <1>6 DEF Happens, Day
<1>11. days_from_civil(Day(y, m, day)) = f + day - 1
  BY <1>2, DayFromFirst
<1>12. PICK z \in Int : z = (f + day - 1) * DAY
  BY DEF DAY
<1>13. First(y, c.month) = f /\ LastDay(y, c.month) = l
  BY <1>1, <1>2
<1>14. local_seconds_in(c, y) \in Int /\ Happens(c, y, o) = local_seconds_in(c, y) - o
  <2>1. local_seconds_in(c, y) = z + s /\ Happens(c, y, o) = z + s - o
    BY <1>9, <1>10, <1>11, <1>12
  <2>. QED BY <2>1
<1>15. local_seconds_in(c, y) = (First(y, c.month) + day - 1) * DAY + c.time
  BY <1>1, <1>9, <1>13
<1>. QED BY <1>1, <1>7, <1>13, <1>14, <1>15
-----------------------------------------------------------------------------
(***************************************************************************)
(* The rule.                                                               *)
(***************************************************************************)
Starts(r, y) == local_seconds_in(r.start, y) - r.std
Ends(r, y) == local_seconds_in(r.end, y) - r.dst
IsOffset(o) == Within(o, 1559)

\* New Year is midnight of the first of January.
LEMMA NewYears ==
  ASSUME NEW y \in Int
  PROVE  NewYear(y) \in Int /\ NewYear(y) = First(y, 1) * DAY
<1>1. First(y, 1) \in Int
  BY FirstIsInt, 1 \in 1..12
<1>2. NewYear(y) = First(y, 1) * DAY
  BY DEF NewYear, First, Day
<1>. QED BY <1>1, <1>2 DEF DAY

\* A change is three days away from the ends of the year it is looked for in.
LEMMA ChangeInYear ==
  ASSUME NEW c, ParsedChange(c), ClearOfNewYear(c), NEW y \in Int
  PROVE  /\ NewYear(y) + 3 * DAY <= local_seconds_in(c, y)
         /\ local_seconds_in(c, y) <= NewYear(y + 1) - 3 * DAY
<1>0. DAY = 1440
  BY DEF DAY
<1>1. PICK m \in 1..12, k \in 1..5, s \in Int :
        m = c.month /\ k = c.week /\ s = c.time /\ -10079 <= s /\ s <= 10079
  <2>1. c \in [month : 1..12, week : 1..5, weekday : 0..6, time : Int]
    BY DEF ParsedChange
  <2>2. -10079 <= c.time /\ c.time <= 10079
    BY DEF ParsedChange, Within
  <2>. QED BY <2>1, <2>2
<1>2. PICK f \in Int, l \in 28..31, a \in Int, b \in Int :
        f = First(y, m) /\ l = LastDay(y, m) /\ a = First(y, 1) /\ b = First(y + 1, 1)
  BY FirstIsInt, 1 \in 1..12, y + 1 \in Int, MonthLength DEF LastDay
<1>3. /\ a + (IF m = 1 THEN 0 ELSE 28) <= f
      /\ f + l <= b - (IF m = 12 THEN 0 ELSE 28)
  BY <1>2, MonthInYear
<1>4. PICK day \in Int : /\ 1 <= day /\ day <= l /\ day <= 7 * k
                         /\ day >= 1 + (IF k = 5 THEN 21 ELSE 7 * (k - 1))
                         /\ local_seconds_in(c, y) = (f + day - 1) * 1440 + s
  <2>1. PICK day \in Int : /\ 1 <= day /\ day <= LastDay(y, c.month) /\ day <= 7 * c.week
                           /\ day >= 1 + (IF c.week = 5 THEN 21 ELSE 7 * (c.week - 1))
                           /\ local_seconds_in(c, y) = (First(y, c.month) + day - 1) * DAY + c.time
    BY ChangeHappens, 0 \in Int
  <2>2. /\ 1 <= day /\ day <= l /\ day <= 7 * k
        /\ day >= 1 + (IF k = 5 THEN 21 ELSE 7 * (k - 1))
        /\ local_seconds_in(c, y) = (f + day - 1) * 1440 + s
    BY <1>0, <1>1, <1>2, <2>1
  <2>. QED BY <2>2
<1>5. /\ m = 1 => (IF k = 5 THEN 21 ELSE 7 * (k - 1)) * 1440 + s >= 3 * 1440
      /\ m = 12 => 7 * k * 1440 + s <= 28 * 1440
  BY <1>0, <1>1 DEF ClearOfNewYear
<1>6. m = 12 => l = 31
  BY <1>2 DEF LastDay, days_in_month
<1>7. NewYear(y) = a * 1440 /\ NewYear(y + 1) = b * 1440
  BY <1>0, <1>2, NewYears, y + 1 \in Int
<1>8. a * 1440 + 3 * 1440 <= (f + day - 1) * 1440 + s
  <2>1. CASE m = 1
    BY <1>1, <1>3, <1>4, <1>5, <2>1
  <2>2. CASE m # 1
    BY <1>1, <1>3, <1>4, <2>2
  <2>. QED BY <2>1, <2>2
<1>9. (f + day - 1) * 1440 + s <= b * 1440 - 3 * 1440
  <2>1. CASE m = 12
    BY <1>1, <1>3, <1>4, <1>5, <1>6, <2>1
  <2>2. CASE m # 12
    BY <1>1, <1>3, <1>4, <2>2
  <2>. QED BY <2>1, <2>2
<1>. QED BY <1>0, <1>4, <1>7, <1>8, <1>9

\* The two changes of a year are weeks apart.
LEMMA ChangesApart ==
  ASSUME NEW c, ParsedChange(c), NEW e, ParsedChange(e), c.month + 2 <= e.month, NEW y \in Int
  PROVE  local_seconds_in(c, y) + 14 * DAY <= local_seconds_in(e, y)
<1>0. DAY = 1440
  BY DEF DAY
<1>1. PICK m \in 1..12, n \in 1..12, s \in Int, t \in Int :
        m = c.month /\ n = e.month /\ s = c.time /\ t = e.time /\ s <= 10079 /\ -10079 <= t
  <2>1. /\ c \in [month : 1..12, week : 1..5, weekday : 0..6, time : Int]
        /\ e \in [month : 1..12, week : 1..5, weekday : 0..6, time : Int]
    BY DEF ParsedChange
  <2>2. c.time <= 10079 /\ -10079 <= e.time
    BY DEF ParsedChange, Within
  <2>. QED BY <2>1, <2>2
<1>2. PICK f \in Int, g \in Int, h \in Int, l \in 28..31 :
        f = First(y, m) /\ g = First(y, m + 1) /\ h = First(y, n) /\ l = LastDay(y, m)
  <2>1. m + 1 \in 1..12
    BY <1>1
  <2>. QED BY <2>1, FirstIsInt, MonthLength DEF LastDay
<1>3. g = f + l /\ g + 28 <= h
  <2>1. m < 12 /\ m + 1 \in 1..12 /\ m + 1 < n /\ n - (m + 1) >= 1
    BY <1>1
  <2>2. g = f + l
    BY <1>2, <2>1, MonthAfter
  <2>3. First(y, m + 1) + 28 * (n - (m + 1)) <= First(y, n)
    BY <2>1, MonthsInOrder
  <2>4. g + 28 * (n - (m + 1)) <= h
    BY <1>2, <2>3
  <2>. QED BY <2>1, <2>2, <2>4
<1>4. PICK i \in Int : i <= l /\ local_seconds_in(c, y) = (f + i - 1) * 1440 + s
  BY <1>0, <1>1, <1>2, ChangeHappens, 0 \in Int
<1>5. PICK j \in Int : 1 <= j /\ local_seconds_in(e, y) = (h + j - 1) * 1440 + t
  BY <1>0, <1>1, <1>2, ChangeHappens, 0 \in Int
<1>6. (f + i - 1) * 1440 + s + 14 * 1440 <= (h + j - 1) * 1440 + t
  BY <1>1, <1>3, <1>4, <1>5
<1>. QED BY <1>0, <1>4, <1>5, <1>6

\* The days of a year stay a day and an hour away from the next year's, in any offset.
LEMMA YearOfInstant ==
  ASSUME NEW t \in Int, NEW o, IsOffset(o)
  PROVE  LET y == civil_from_days((t + o) \div DAY).year
         IN  y \in Int /\ NewYear(y) <= t + o /\ t + o < NewYear(y + 1)
<1>0. DAY = 1440 /\ o \in Int
  BY DEF DAY, IsOffset, Within
<1>1. PICK n \in Int : n = (t + o) \div DAY /\ n * 1440 <= t + o /\ t + o < n * 1440 + 1440
  <2>1. PICK z \in Int : z = t + o
    BY <1>0
  <2>2. PICK d \in Int, m \in Int : DayAndMinute(z, d, m)
    BY DayMinutes
  <2>. QED BY <1>0, <2>1, <2>2 DEF DayAndMinute
<1>2. PICK y \in Int : y = civil_from_days(n).year /\ First(y, 1) <= n /\ n < First(y + 1, 1)
  BY YearOfDay
<1>3. PICK a \in Int, b \in Int : a = First(y, 1) /\ b = First(y + 1, 1)
  <2>1. PICK z \in Int : z = y + 1
    OBVIOUS
  <2>2. First(y, 1) \in Int /\ First(z, 1) \in Int
    BY FirstOfYear
  <2>. QED BY <2>1, <2>2
<1>4. NewYear(y) = a * 1440 /\ NewYear(y + 1) = b * 1440
  BY <1>0, <1>3, NewYears, y + 1 \in Int
<1>5. a * 1440 <= t + o /\ t + o < b * 1440
  BY <1>0, <1>1, <1>2, <1>3
<1>. QED BY <1>1, <1>2, <1>4, <1>5

\* New Years come one after the other, 365 days apart or 366.
LEMMA NewYearsInOrder ==
  ASSUME NEW a \in Int, NEW b \in Int
  PROVE  /\ a <= b => NewYear(a) <= NewYear(b)
         /\ NewYear(a) + 365 * DAY <= NewYear(a + 1) /\ NewYear(a + 1) <= NewYear(a) + 366 * DAY
<1>0. DAY = 1440
  BY DEF DAY
<1>1. PICK f \in Int, g \in Int, h \in Int : f = First(a, 1) /\ g = First(b, 1) /\ h = First(a + 1, 1)
  BY FirstIsInt, 1 \in 1..12, a + 1 \in Int
<1>2. NewYear(a) = f * 1440 /\ NewYear(b) = g * 1440 /\ NewYear(a + 1) = h * 1440
  BY <1>0, <1>1, NewYears, a + 1 \in Int
<1>3. a <= b => f <= g
  BY <1>1, YearsInOrder
<1>4. f + 365 <= h /\ h <= f + 366
  <2>1. h = Serial(a + 1, 1, 1) /\ f = Serial(a, 1, 1)
    BY <1>1, Civil, 1 \in 1..12, 1 \in Int, a + 1 \in Int DEF First
  <2>2. PICK z \in Int : z = a - 1 /\ z + 1 = a
    OBVIOUS
  <2>3. PICK i \in Int, j \in Int : i = Gregorian(z) /\ j = Gregorian(z + 1) /\ i + 365 <= j /\ j <= i + 366
    <3>1. PICK x \in Int : x = z + 1
      OBVIOUS
    <3>2. Gregorian(z) \in Int /\ Gregorian(x) \in Int
      BY GregorianStep
    <3>3. Gregorian(z + 1) - Gregorian(z) = IF is_leap(z + 1) THEN 366 ELSE 365
      BY GregorianStep
    <3>. QED BY <3>1, <3>2, <3>3
  <2>4. Some(1 <= 2) = 1 /\ Before(1) = 306
    BY DEF Some, Before
  <2>5. f = i + 306 + 1 - 719469 /\ h = j + 306 + 1 - 719469
    <3>1. a + 1 - 1 = z + 1 /\ a - 1 = z
      BY <2>2
    <3>. QED BY <2>1, <2>3, <2>4, <3>1 DEF Serial
  <2>. QED BY <2>3, <2>5
<1>. QED BY <1>0, <1>1, <1>2, <1>3, <1>4

\* The last of some changes goes to what a change does that none is after.
IsLast(C, m) ==
  /\ m \in C /\ \A c \in C : c.at \in Int /\ c.at <= m.at
  /\ \A c \in C : c.at = m.at => c.to = m.to

\* Whichever of the latest is chosen, it goes where the last one goes.
LEMMA LatestTo ==
  ASSUME NEW C, NEW m, IsLast(C, m)
  PROVE  Latest(C).to = m.to
<1>1. Latest(C) = CHOOSE c \in C : \A e \in C : e.at <= c.at
  BY DEF Latest
<1>2. \E c \in C : \A e \in C : e.at <= c.at
  BY DEF IsLast
<1>3. PICK l \in C : l = Latest(C) /\ \A e \in C : e.at <= l.at
  BY <1>1, <1>2
<1>4. l.at = m.at
  <2>1. l.at <= m.at /\ m.at <= l.at /\ l.at \in Int /\ m.at \in Int
    BY <1>3 DEF IsLast
  <2>. QED BY <2>1
<1>. QED BY <1>3, <1>4 DEF IsLast

\* The changes the calendar on the wall looks back over.
At(r, y, way) == IF way = "start" THEN Starts(r, y) ELSE Ends(r, y)
To(r, way) == IF way = "start" THEN r.dst ELSE r.std

\* They are the starts and the ends of summer of three years.
LEMMA AboutYear ==
  ASSUME NEW r, ParsedRule(r), NEW Y \in Int
  PROVE  ChangesAbout(r, Y) = {[at |-> At(r, y, way), to |-> To(r, way)] :
                                 y \in (Y - 1)..(Y + 1), way \in {"start", "end"}}
<1>0. /\ ParsedChange(r.start) /\ ParsedChange(r.end) /\ r.std \in Int /\ r.dst \in Int
  BY DEF ParsedRule, Within
<1>1. \A y \in (Y - 1)..(Y + 1) : /\ Happens(r.start, y, r.std) = At(r, y, "start")
                                 /\ Happens(r.end, y, r.dst) = At(r, y, "end")
  <2>1. TAKE y \in (Y - 1)..(Y + 1)
  <2>2. y \in Int
    OBVIOUS
  <2>3. Happens(r.start, y, r.std) = local_seconds_in(r.start, y) - r.std
    BY <1>0, <2>2, ChangeHappens
  <2>4. Happens(r.end, y, r.dst) = local_seconds_in(r.end, y) - r.dst
    BY <1>0, <2>2, ChangeHappens
  <2>. QED BY <2>3, <2>4 DEF At, Starts, Ends
<1>2. To(r, "start") = r.dst /\ To(r, "end") = r.std
  BY DEF To
<1>. QED BY <1>1, <1>2 DEF ChangesAbout

\* What orders a rule's changes and New Years.
Ordered(r, y) ==
  /\ Starts(r, y) \in Int /\ Ends(r, y) \in Int /\ NewYear(y) \in Int /\ NewYear(y + 1) \in Int
  /\ NewYear(y) + 2 * DAY - 119 <= Starts(r, y) /\ NewYear(y) + 2 * DAY - 119 <= Ends(r, y)
  /\ Starts(r, y) <= NewYear(y + 1) - 2 * DAY + 119 /\ Ends(r, y) <= NewYear(y + 1) - 2 * DAY + 119
  /\ IF r.start.month < r.end.month THEN Starts(r, y) + 2 * DAY <= Ends(r, y)
                                    ELSE Ends(r, y) + 2 * DAY <= Starts(r, y)

\* The rule of a zone orders them the same way every year, away from New Year.
LEMMA RuleOrdered ==
  ASSUME NEW r, ParsedRule(r), Seasonal(r), r.has_dst, NEW y \in Int
  PROVE  Ordered(r, y)
<1>0. DAY = 1440
  BY DEF DAY
<1>1. PICK p \in Int, q \in Int : /\ p = r.std /\ q = r.dst /\ -1499 <= p /\ p <= 1499
                                  /\ -1559 <= q /\ q <= 1559
  BY DEF ParsedRule, Within
<1>2. PICK a \in Int, b \in Int : a = NewYear(y) /\ b = NewYear(y + 1)
  BY NewYears, y + 1 \in Int
<1>3. /\ ParsedChange(r.start) /\ ParsedChange(r.end)
      /\ ClearOfNewYear(r.start) /\ ClearOfNewYear(r.end)
  BY DEF ParsedRule, Seasonal
<1>4. PICK s \in Int, e \in Int : s = local_seconds_in(r.start, y) /\ e = local_seconds_in(r.end, y)
  BY <1>3, ChangeHappens, 0 \in Int
<1>5. /\ a + 3 * 1440 <= s /\ s <= b - 3 * 1440
      /\ a + 3 * 1440 <= e /\ e <= b - 3 * 1440
  BY <1>0, <1>2, <1>3, <1>4, ChangeInYear
<1>6. r.start.month + 2 <= r.end.month \/ r.end.month + 2 <= r.start.month
  BY DEF Seasonal
<1>7. r.start.month \in Int /\ r.end.month \in Int
  <2>1. /\ r.start \in [month : 1..12, week : 1..5, weekday : 0..6, time : Int]
        /\ r.end \in [month : 1..12, week : 1..5, weekday : 0..6, time : Int]
    BY <1>3 DEF ParsedChange
  <2>2. r.start.month \in 1..12 /\ r.end.month \in 1..12
    BY <2>1
  <2>. QED BY <2>2
<1>8. IF r.start.month < r.end.month THEN s + 14 * 1440 <= e ELSE e + 14 * 1440 <= s
  <2>1. CASE r.start.month < r.end.month
    <3>1. r.start.month + 2 <= r.end.month
      BY <1>6, <1>7, <2>1
    <3>. QED BY <1>0, <1>3, <1>4, <2>1, <3>1, ChangesApart
  <2>2. CASE ~(r.start.month < r.end.month)
    <3>1. r.end.month + 2 <= r.start.month
      BY <1>6, <1>7, <2>2
    <3>. QED BY <1>0, <1>3, <1>4, <2>2, <3>1, ChangesApart
  <2>. QED BY <2>1, <2>2
<1>9. Starts(r, y) = s - p /\ Ends(r, y) = e - q
  BY <1>1, <1>4 DEF Starts, Ends
<1>10. /\ a + 2 * 1440 - 119 <= s - p /\ a + 2 * 1440 - 119 <= e - q
       /\ s - p <= b - 2 * 1440 + 119 /\ e - q <= b - 2 * 1440 + 119
  BY <1>1, <1>5
<1>11. IF r.start.month < r.end.month THEN s - p + 2 * 1440 <= e - q ELSE e - q + 2 * 1440 <= s - p
  BY <1>1, <1>8
<1>12. s - p \in Int /\ e - q \in Int
  OBVIOUS
<1>. QED BY <1>0, <1>2, <1>9, <1>10, <1>11, <1>12 DEF Ordered

\* Changes of one year are before those of the next.
LEMMA YearByYear ==
  ASSUME NEW r, NEW y \in Int, NEW z \in Int, y < z, Ordered(r, y), Ordered(r, z),
         NEW v \in {"start", "end"}, NEW w \in {"start", "end"}
  PROVE  At(r, y, v) < At(r, z, w)
<1>0. DAY = 1440
  BY DEF DAY
<1>1. PICK n \in Int, b \in Int, c \in Int : n = y + 1 /\ b = NewYear(n) /\ c = NewYear(z)
  BY NewYears, y + 1 \in Int
<1>2. b <= c
  <2>1. n <= z
    BY <1>1
  <2>. QED BY <1>1, <2>1, NewYearsInOrder
<1>3. At(r, y, v) \in Int /\ At(r, y, v) <= b - 2 * 1440 + 119
  BY <1>0, <1>1 DEF Ordered, At
<1>4. At(r, z, w) \in Int /\ c + 2 * 1440 - 119 <= At(r, z, w)
  BY <1>0, <1>1 DEF Ordered, At
<1>. QED BY <1>2, <1>3, <1>4

\* A change that no other of three years follows by t decides what is in force at t.
LEMMA Decides ==
  ASSUME NEW r, ParsedRule(r), r.has_dst, NEW t \in Int, NEW U \in Int,
         U = civil_from_days(t \div DAY).year,
         \A y \in (U - 1)..(U + 1) : Ordered(r, y),
         NEW Y \in (U - 1)..(U + 1), NEW w \in {"start", "end"}, At(r, Y, w) <= t,
         \A y \in (U - 1)..(U + 1), v \in {"start", "end"} :
           At(r, y, v) <= t => At(r, y, v) < At(r, Y, w) \/ (y = Y /\ v = w)
  PROVE  InForce(r, t) = To(r, w)
<1>. DEFINE A == {[at |-> At(r, y, v), to |-> To(r, v)] : y \in (U - 1)..(U + 1), v \in {"start", "end"}}
            C == {c \in A : c.at <= t}
            m == [at |-> At(r, Y, w), to |-> To(r, w)]
<1>1. m \in C
  <2>1. m \in A /\ m.at <= t
    OBVIOUS
  <2>. HIDE DEF A, m
  <2>. QED BY <2>1
<1>2. ASSUME NEW c \in C
      PROVE  c.at \in Int /\ c.at <= m.at /\ (c.at = m.at => c.to = m.to)
  <2>1. PICK y \in (U - 1)..(U + 1), v \in {"start", "end"} :
          c = [at |-> At(r, y, v), to |-> To(r, v)]
    OBVIOUS
  <2>2. c.at = At(r, y, v) /\ c.to = To(r, v) /\ m.at = At(r, Y, w) /\ m.to = To(r, w) /\ c.at <= t
    BY <2>1
  <2>. HIDE DEF C, m
  <2>3. At(r, y, v) \in Int /\ At(r, Y, w) \in Int
    BY DEF Ordered, At
  <2>4. At(r, y, v) < At(r, Y, w) \/ (y = Y /\ v = w)
    BY <2>2
  <2>. QED BY <2>2, <2>3, <2>4
<1>3. C = {c \in ChangesAbout(r, U) : c.at <= t}
  BY AboutYear
<1>4. Latest(C).to = m.to
  <2>. HIDE DEF C, m
  <2>1. IsLast(C, m)
    BY <1>1, <1>2, Zenon DEF IsLast
  <2>. QED BY <2>1, LatestTo
<1>5. InForce(r, t) = Latest({c \in ChangesAbout(r, U) : c.at <= t}).to
  BY DEF InForce
<1>6. m.to = To(r, w)
  OBVIOUS
<1>. HIDE DEF C, m
<1>. QED BY <1>3, <1>4, <1>5, <1>6

\* The code asks one year; the calendar on the wall looks back over three.
THEOREM OffsetIsInForce ==
  ASSUME NEW r, ParsedRule(r), Seasonal(r), NEW t \in Int
  PROVE  offset_at_utc(r, t) = InForce(r, t)
<1>0. DAY = 1440
  BY DEF DAY
<1>1. CASE ~r.has_dst
  BY <1>1 DEF offset_at_utc, InForce
<1>2. CASE r.has_dst
  <2>1. PICK p \in Int : p = r.std /\ -1499 <= p /\ p <= 1499
    BY DEF ParsedRule, Within
  <2>2. PICK Y \in Int : /\ Y = civil_from_days((t + r.std) \div DAY).year
                        /\ NewYear(Y) <= t + p /\ t + p < NewYear(Y + 1)
    <3>1. IsOffset(p)
      BY <2>1 DEF IsOffset, Within
    <3>. QED BY <2>1, <3>1, YearOfInstant
  <2>3. PICK U \in Int : /\ U = civil_from_days(t \div DAY).year
                        /\ NewYear(U) <= t /\ t < NewYear(U + 1)
    <3>1. IsOffset(0) /\ t + 0 = t
      BY DEF IsOffset, Within
    <3>2. LET y == civil_from_days((t + 0) \div DAY).year
          IN  y \in Int /\ NewYear(y) <= t + 0 /\ t + 0 < NewYear(y + 1)
      BY <3>1, YearOfInstant
    <3>. QED BY <3>1, <3>2
  <2>4. PICK H \in Int : H = Y - 1
    OBVIOUS
  <2>5. Y - 1 <= U /\ U <= Y + 1
    <3>1. PICK a \in Int, b \in Int, c \in Int, d \in Int :
            a = NewYear(Y) /\ b = NewYear(Y + 1) /\ c = NewYear(U) /\ d = NewYear(U + 1)
      BY NewYears, Y + 1 \in Int, U + 1 \in Int
    <3>2. NewYear(H) + 365 * 1440 <= a
      BY <1>0, <2>4, <3>1, NewYearsInOrder, H + 1 = Y
    <3>3. b + 365 * 1440 <= NewYear(Y + 1 + 1)
      BY <1>0, <3>1, NewYearsInOrder, Y + 1 \in Int
    <3>4. U < Y - 1 => d <= NewYear(H)
      BY <2>4, <3>1, NewYearsInOrder, U + 1 \in Int
    <3>5. U > Y + 1 => NewYear(Y + 1 + 1) <= c
      BY <3>1, NewYearsInOrder, Y + 1 + 1 \in Int
    <3>6. PICK e \in Int, f \in Int : e = NewYear(H) /\ f = NewYear(Y + 1 + 1)
      BY NewYears, Y + 1 + 1 \in Int
    <3>7. a <= t + p /\ t + p < b /\ c <= t /\ t < d
      BY <2>2, <2>3, <3>1
    <3>. QED BY <2>1, <3>2, <3>3, <3>4, <3>5, <3>6, <3>7
  <2>6. \A y \in Int : Ordered(r, y)
    BY <1>2, RuleOrdered
  <2>7. Y \in (U - 1)..(U + 1)
    BY <2>5
  <2>8. PICK a \in Int, b \in Int : a = NewYear(Y) /\ b = NewYear(Y + 1)
    BY NewYears, Y + 1 \in Int
  <2>9. \A y \in Int, v \in {"start", "end"} : y > Y => ~(At(r, y, v) <= t)
    <3>1. SUFFICES ASSUME NEW y \in Int, NEW v \in {"start", "end"}, y > Y
                   PROVE  ~(At(r, y, v) <= t)
      OBVIOUS
    <3>2. PICK n \in Int, c \in Int : n = Y + 1 /\ n <= y /\ c = NewYear(y)
      BY <3>1, NewYears
    <3>3. b <= c
      BY <2>8, <3>2, NewYearsInOrder
    <3>4. Ordered(r, y)
      BY <2>6
    <3>5. At(r, y, v) \in Int /\ c + 2 * 1440 - 119 <= At(r, y, v)
      BY <1>0, <3>2, <3>4 DEF Ordered, At
    <3>. QED BY <2>1, <2>2, <2>8, <3>3, <3>5
  <2>10. \A y \in Int, v \in {"start", "end"} : y < Y => At(r, y, v) <= t
    <3>1. SUFFICES ASSUME NEW y \in Int, NEW v \in {"start", "end"}, y < Y
                   PROVE  At(r, y, v) <= t
      OBVIOUS
    <3>2. PICK n \in Int, c \in Int : n = y + 1 /\ n <= Y /\ c = NewYear(n)
      BY <3>1, NewYears, y + 1 \in Int
    <3>3. c <= a
      BY <2>8, <3>2, NewYearsInOrder
    <3>4. Ordered(r, y)
      BY <2>6
    <3>5. At(r, y, v) \in Int /\ At(r, y, v) <= c - 2 * 1440 + 119
      BY <1>0, <3>2, <3>4 DEF Ordered, At
    <3>. QED BY <2>1, <2>2, <2>8, <3>3, <3>5
  <2>11. \A y, z \in Int, v, w \in {"start", "end"} : y < z => At(r, y, v) < At(r, z, w)
    BY <2>6, YearByYear
  <2>12. PICK s \in Int, e \in Int : /\ s = Starts(r, Y) /\ e = Ends(r, Y)
                                    /\ s <= b - 2 * 1440 + 119 /\ e <= b - 2 * 1440 + 119
                                    /\ IF r.start.month < r.end.month THEN s < e ELSE e < s
    <3>1. Ordered(r, Y)
      BY <2>6
    <3>2. Starts(r, Y) \in Int /\ Ends(r, Y) \in Int
      BY <3>1 DEF Ordered
    <3>3. Starts(r, Y) <= b - 2 * 1440 + 119 /\ Ends(r, Y) <= b - 2 * 1440 + 119
      BY <1>0, <2>8, <3>1 DEF Ordered
    <3>4. IF r.start.month < r.end.month THEN Starts(r, Y) < Ends(r, Y) ELSE Ends(r, Y) < Starts(r, Y)
      BY <1>0, <3>1 DEF Ordered
    <3>. QED BY <3>2, <3>3, <3>4
  <2>13. At(r, Y, "start") = s /\ At(r, Y, "end") = e /\ To(r, "start") = r.dst /\ To(r, "end") = r.std
    BY <2>12 DEF At, To
  <2>14. t < s /\ t < e => H \in (U - 1)..(U + 1)
    <3>1. ASSUME t < s, t < e, U = Y + 1 PROVE FALSE
      BY <2>3, <2>8, <2>12, <3>1
    <3>2. t < s /\ t < e => U <= Y
      BY <2>5, <3>1
    <3>. QED BY <2>4, <2>5, <3>2
  <2>15. offset_at_utc(r, t) = IF Between(t, s, e) THEN r.dst ELSE r.std
    BY <1>2, <2>2, <2>12 DEF offset_at_utc, InSummer, Starts, Ends
  <2>16. ASSUME NEW w \in {"start", "end"}, At(r, Y, w) <= t,
                \A v \in {"start", "end"} : At(r, Y, v) <= t => At(r, Y, v) < At(r, Y, w) \/ v = w
         PROVE  InForce(r, t) = To(r, w)
    <3>1. \A y \in (U - 1)..(U + 1) : y \in Int /\ Ordered(r, y)
      BY <2>6
    <3>2. ASSUME NEW y \in (U - 1)..(U + 1), NEW v \in {"start", "end"}, At(r, y, v) <= t
          PROVE  At(r, y, v) < At(r, Y, w) \/ (y = Y /\ v = w)
      <4>1. CASE y < Y
        BY <2>11, <3>1, <4>1
      <4>2. CASE y = Y
        BY <2>16, <3>2, <4>2
      <4>3. CASE y > Y
        BY <2>9, <3>1, <3>2, <4>3
      <4>. QED BY <3>1, <4>1, <4>2, <4>3
    <3>. QED BY <1>2, <2>3, <2>7, <2>16, <3>1, <3>2, Decides
  <2>17. ASSUME t < s, t < e, NEW w \in {"start", "end"},
                \A v \in {"start", "end"} : At(r, H, v) < At(r, H, w) \/ v = w
         PROVE  InForce(r, t) = To(r, w)
    <3>1. \A y \in (U - 1)..(U + 1) : y \in Int /\ Ordered(r, y)
      BY <2>6
    <3>2. ASSUME NEW y \in (U - 1)..(U + 1), NEW v \in {"start", "end"}, At(r, y, v) <= t
          PROVE  At(r, y, v) < At(r, H, w) \/ (y = H /\ v = w)
      <4>1. CASE y < H
        BY <2>11, <3>1, <4>1
      <4>2. CASE y = H
        BY <2>17, <4>2
      <4>3. CASE y = Y
        BY <2>12, <2>13, <2>17, <3>2, <4>3
      <4>4. CASE y > Y
        BY <2>9, <3>1, <3>2, <4>4
      <4>. QED BY <2>4, <3>1, <4>1, <4>2, <4>3, <4>4
    <3>3. H \in (U - 1)..(U + 1) /\ At(r, H, w) <= t
      BY <2>4, <2>10, <2>14, <2>17
    <3>. QED BY <1>2, <2>3, <2>17, <3>1, <3>2, <3>3, Decides
  <2>18. IF r.start.month < r.end.month THEN At(r, H, "start") < At(r, H, "end")
                                        ELSE At(r, H, "end") < At(r, H, "start")
    <3>1. Ordered(r, H)
      BY <2>4, <2>6
    <3>. QED BY <1>0, <3>1 DEF Ordered, At
  <2>19. CASE s <= t /\ (e <= t => e < s)
    <3>1. InForce(r, t) = r.dst
      BY <2>13, <2>16, <2>19
    <3>2. Between(t, s, e)
      BY <2>12, <2>19 DEF Between
    <3>. QED BY <2>15, <3>1, <3>2
  <2>20. CASE e <= t /\ (s <= t => s < e)
    <3>1. InForce(r, t) = r.std
      BY <2>13, <2>16, <2>20
    <3>2. ~Between(t, s, e)
      BY <2>12, <2>20 DEF Between
    <3>. QED BY <2>15, <3>1, <3>2
  <2>21. CASE t < s /\ t < e /\ s < e
    <3>1. InForce(r, t) = r.std
      BY <2>12, <2>13, <2>17, <2>18, <2>21
    <3>2. ~Between(t, s, e)
      BY <2>12, <2>21 DEF Between
    <3>. QED BY <2>15, <3>1, <3>2
  <2>22. CASE t < s /\ t < e /\ e < s
    <3>1. InForce(r, t) = r.dst
      BY <2>12, <2>13, <2>17, <2>18, <2>22
    <3>2. Between(t, s, e)
      BY <2>12, <2>22 DEF Between
    <3>. QED BY <2>15, <3>1, <3>2
  <2>. QED BY <2>12, <2>19, <2>20, <2>21, <2>22
<1>. QED BY <1>1, <1>2

\* A change holds for the day after it.
LEMMA SeasonComes ==
  ASSUME NEW r, ParsedRule(r), Seasonal(r), r.has_dst, NEW z \in Int, NEW w \in {"start", "end"},
         NEW x \in Int, At(r, z, w) <= x, x <= At(r, z, w) + DAY
  PROVE  InForce(r, x) = To(r, w)
<1>0. DAY = 1440
  BY DEF DAY
<1>1. \A y \in Int : Ordered(r, y)
  BY RuleOrdered
<1>2. PICK n \in Int, a \in Int, b \in Int, c \in Int :
        n = z + 1 /\ a = At(r, z, w) /\ b = NewYear(z) /\ c = NewYear(n)
  <2>1. At(r, z, w) \in Int
    BY <1>1 DEF Ordered, At
  <2>. QED BY <2>1, NewYears, z + 1 \in Int
<1>3. b <= a /\ a <= c - 2 * 1440 + 119 /\ a <= x /\ x <= a + 1440
  <2>1. Ordered(r, z)
    BY <1>1
  <2>. QED BY <1>0, <1>2, <2>1 DEF Ordered, At
<1>4. PICK U \in Int : U = civil_from_days(x \div DAY).year /\ NewYear(U) <= x /\ x < NewYear(U + 1)
  <2>1. IsOffset(0) /\ x + 0 = x
    BY DEF IsOffset, Within
  <2>2. LET y == civil_from_days((x + 0) \div DAY).year
        IN  y \in Int /\ NewYear(y) <= x + 0 /\ x + 0 < NewYear(y + 1)
    BY <2>1, YearOfInstant
  <2>. QED BY <2>1, <2>2
<1>5. U = z
  <2>1. PICK u \in Int, d \in Int, e \in Int : u = U + 1 /\ d = NewYear(U) /\ e = NewYear(u)
    BY NewYears, U + 1 \in Int
  <2>2. u <= z => e <= b
    BY <1>2, <2>1, NewYearsInOrder
  <2>3. n <= U => c <= d
    BY <1>2, <2>1, NewYearsInOrder
  <2>. QED BY <1>2, <1>3, <1>4, <2>1, <2>2, <2>3
<1>6. ASSUME NEW y \in (U - 1)..(U + 1), NEW v \in {"start", "end"}, At(r, y, v) <= x
      PROVE  At(r, y, v) < At(r, z, w) \/ (y = z /\ v = w)
  <2>1. y \in Int /\ Ordered(r, y) /\ Ordered(r, z)
    BY <1>1
  <2>2. CASE y < z
    BY <2>1, <2>2, YearByYear
  <2>3. CASE y = z
    BY <1>0, <1>2, <1>3, <1>6, <2>1, <2>3 DEF Ordered, At
  <2>4. CASE y > z
    <3>1. y = n
      BY <1>2, <1>5, <2>4
    <3>2. At(r, y, v) \in Int /\ c + 2 * 1440 - 119 <= At(r, y, v)
      BY <1>0, <1>2, <2>1, <3>1 DEF Ordered, At
    <3>. QED BY <1>3, <1>6, <3>2
  <2>. QED BY <2>1, <2>2, <2>3, <2>4
<1>7. z \in (U - 1)..(U + 1) /\ \A y \in (U - 1)..(U + 1) : Ordered(r, y)
  BY <1>1, <1>5
<1>. QED BY <1>4, <1>6, <1>7, Decides

\* For a day on end, and within two years of t, the offset is not o.
ComesAfter(r, o, t, last) ==
  \E T \in Int : /\ t < T /\ T <= last
                 /\ \A x \in Int : T <= x /\ x <= T + DAY => InForce(r, x) # o

\* Where the clocks are changed, whatever is in force gives way to the other within two years.
LEMMA OtherComes ==
  ASSUME NEW r, ParsedRule(r), Seasonal(r), Changes(r), NEW t \in Int
  PROVE  ComesAfter(r, InForce(r, t), t, t + 732 * DAY)
<1>0. DAY = 1440 /\ r.has_dst /\ r.std # r.dst
  BY DEF DAY, Changes
<1>1. PICK w \in {"start", "end"} : To(r, w) # InForce(r, t)
  BY <1>0 DEF To
<1>2. PICK U \in Int : NewYear(U) <= t /\ t < NewYear(U + 1)
  <2>1. IsOffset(0) /\ t + 0 = t
    BY DEF IsOffset, Within
  <2>2. LET y == civil_from_days((t + 0) \div DAY).year
        IN  y \in Int /\ NewYear(y) <= t + 0 /\ t + 0 < NewYear(y + 1)
    BY <2>1, YearOfInstant
  <2>. QED BY <2>1, <2>2
<1>3. PICK z \in Int : z = U + 1
  OBVIOUS
<1>4. PICK a \in Int, b \in Int, c \in Int :
        /\ a = NewYear(U) /\ b = NewYear(z) /\ c = NewYear(z + 1)
        /\ b <= a + 366 * 1440 /\ c <= b + 366 * 1440
  <2>1. NewYear(U) \in Int /\ NewYear(z) \in Int /\ NewYear(z + 1) \in Int
    BY NewYears, z + 1 \in Int
  <2>2. NewYear(z) <= NewYear(U) + 366 * 1440
    BY <1>0, <1>3, NewYearsInOrder
  <2>3. NewYear(z + 1) <= NewYear(z) + 366 * 1440
    BY <1>0, NewYearsInOrder
  <2>. QED BY <2>1, <2>2, <2>3
<1>5. PICK T \in Int : T = At(r, z, w) /\ b < T /\ T < c
  <2>1. Ordered(r, z)
    BY <1>0, RuleOrdered
  <2>. QED BY <1>0, <1>4, <2>1 DEF Ordered, At
<1>6. t < T /\ T <= t + 732 * DAY
  BY <1>0, <1>2, <1>3, <1>4, <1>5
<1>7. \A x \in Int : T <= x /\ x <= T + DAY => InForce(r, x) # InForce(r, t)
  BY <1>0, <1>1, <1>5, SeasonComes
<1>. QED BY <1>6, <1>7 DEF ComesAfter
-----------------------------------------------------------------------------
(***************************************************************************)
(* The registers.                                                          *)
(***************************************************************************)
LEMMA BcdBack ==
  ASSUME NEW v \in 0..99
  PROVE  /\ to_bcd(v) \in Int /\ 0 <= to_bcd(v)
         /\ v < 20 => to_bcd(v) < 32
         /\ v < 40 => to_bcd(v) < 64
         /\ v < 80 => to_bcd(v) < 128
         /\ bcd(to_bcd(v)) = v
<1>1. PICK a \in 0..9, b \in 0..9 : v = 10 * a + b
  <2>1. v \div 10 \in 0..9 /\ v % 10 \in 0..9 /\ v = 10 * (v \div 10) + (v % 10)
    OBVIOUS
  <2>. QED BY <2>1
<1>2. v \div 10 = a /\ v % 10 = b
  BY <1>1
<1>3. to_bcd(v) = 16 * a + b
  BY <1>2 DEF to_bcd
<1>4. (16 * a + b) \div 16 = a /\ (16 * a + b) % 16 = b
  OBVIOUS
<1>5. bcd(to_bcd(v)) = v
  BY <1>1, <1>3, <1>4 DEF bcd
<1>. QED BY <1>1, <1>3, <1>5

\* Either form of the hour reads back as the hour.
LEMMA HourBack ==
  ASSUME NEW h \in 0..23
  PROVE  decode_hour(to_bcd(h)) = h /\ decode_hour(Mode12(h)) = h
<1>1. decode_hour(to_bcd(h)) = h
  <2>1. PICK b \in Int : b = to_bcd(h) /\ 0 <= b /\ b < 64 /\ bcd(b) = h
    BY BcdBack, h \in 0..99, h < 40
  <2>2. (b \div 64) % 2 = 0 /\ b % 64 = b
    BY <2>1
  <2>. QED BY <2>1, <2>2 DEF decode_hour
<1>2. decode_hour(Mode12(h)) = h
  <2>1. PICK k \in 1..12 : k = IF h % 12 = 0 THEN 12 ELSE h % 12
    OBVIOUS
  <2>2. PICK b \in Int : b = to_bcd(k) /\ 0 <= b /\ b < 32 /\ bcd(b) = k
    BY BcdBack, k \in 0..99, k < 20
  <2>3. PICK p \in 0..1 : p = IF h >= 12 THEN 1 ELSE 0
    OBVIOUS
  <2>4. Mode12(h) = 64 + 32 * p + b
    BY <2>1, <2>2, <2>3 DEF Mode12
  <2>5. ((64 + 32 * p + b) \div 64) % 2 = 1 /\ (64 + 32 * p + b) % 32 = b
        /\ ((64 + 32 * p + b) \div 32) % 2 = p
    BY <2>2
  <2>6. decode_hour(Mode12(h)) = IF k = 12 THEN IF p = 1 THEN 12 ELSE 0
                                 ELSE IF p = 1 THEN k + 12 ELSE k
    <3>1. PICK z \in Int : z = Mode12(h) /\ (z \div 64) % 2 = 1 /\ z % 32 = b /\ (z \div 32) % 2 = p
      BY <2>4, <2>5
    <3>2. ~((z \div 64) % 2 = 0) /\ bcd(z % 32) = k
      BY <2>2, <3>1
    <3>. QED BY <3>1, <3>2 DEF decode_hour
  <2>. QED BY <2>1, <2>3, <2>6
<1>. QED BY <1>1, <1>2

\* An offset of whole quarters of an hour reads back; any other reads as none.
LEMMA OffsetBack ==
  ASSUME NEW o \in Int
  PROVE  decode_offset(encode_offset(o)) = IF QuarterHours(o) THEN o ELSE NoOffset
<1>1. CASE ~QuarterHours(o)
  BY <1>1 DEF encode_offset, decode_offset, OFFSET_MARK
<1>2. CASE QuarterHours(o)
  <2>1. o % 15 = 0 /\ -14 * 60 <= o /\ o <= 14 * 60
    BY <1>2 DEF QuarterHours
  <2>2. PICK n \in Int : n = o \div 15 /\ o = 15 * n /\ -56 <= n /\ n <= 56
    BY <2>1
  <2>3. PICK q \in Int : q = n % 256 /\ q = IF n < 0 THEN n + 256 ELSE n
    BY <2>2
  <2>4. encode_offset(o) = <<q, 255 - q, OFFSET_MARK>>
    BY <1>2, <2>2, <2>3 DEF encode_offset
  <2>5. decode_offset(<<q, 255 - q, OFFSET_MARK>>) = (IF q > 127 THEN q - 256 ELSE q) * 15
    BY DEF decode_offset
  <2>. QED BY <1>2, <2>2, <2>3, <2>4, <2>5
<1>. QED BY <1>1, <1>2

OfDay(n) == 0 <= n /\ n < 1440

\* Every minute of a day is a minute of one of its hours.
LEMMA HoursAndMinutes ==
  ASSUME NEW n \in Int, OfDay(n)
  PROVE  n \div 60 \in 0..23 /\ n % 60 \in 0..59
<1>1. n \div 60 \in Int /\ 0 <= n \div 60 /\ n \div 60 <= 23
  BY DEF OfDay
<1>2. n % 60 \in Int /\ 0 <= n % 60 /\ n % 60 <= 59
  OBVIOUS
<1>. QED BY <1>1, <1>2

\* A chip gives back the time it was set to, with the offset if it can carry it.
THEOREM ReadsBack ==
  ASSUME NEW w, WallTime(w), 2000 <= w.date.year, w.date.year < 2100,
         NEW g, g \in Readings(w, encode_time(w))
  PROVE  decode_time(g) = [date |-> w.date, minute |-> w.minute,
                           offset |-> IF QuarterHours(w.offset) THEN w.offset ELSE NoOffset]
<1>0. DAY = 1440
  BY SMTT(20) DEF DAY
<1>1. PICK y \in Int, m \in 1..12, k \in 1..31 :
        /\ y = w.date.year /\ m = w.date.month /\ k = w.date.day /\ w.date = Day(y, m, k)
  BY DateParts DEF WallTime
<1>2. PICK n \in Int : n = w.minute /\ OfDay(n)
  BY <1>0 DEF WallTime, OfDay
<1>2a. n \div 60 \in 0..23 /\ n % 60 \in 0..59
  BY <1>2, HoursAndMinutes
<1>2b. PICK h \in 0..23, i \in 0..59 : h = n \div 60 /\ i = n % 60
  BY <1>2a
<1>3. h = n \div 60 /\ i = n % 60 /\ h * 60 + i = n
  BY <1>2b, SMTT(40)
<1>4. PICK c \in 0..99 : c = y - 2000
  BY <1>1
<1>5. /\ g.minute = to_bcd(i) /\ g.day = to_bcd(k) /\ g.month = to_bcd(m) /\ g.year = to_bcd(c)
      /\ g.offset = encode_offset(w.offset) /\ (g.hour = to_bcd(h) \/ g.hour = Mode12(h))
  <2>1. PICK e : e = encode_time(w)
    OBVIOUS
  <2>2. e = [minute |-> to_bcd(i), hour |-> to_bcd(h), weekday |-> weekday(w.date),
             day |-> to_bcd(k), month |-> to_bcd(m), year |-> to_bcd(c),
             offset |-> encode_offset(w.offset)]
    <3>1. w.minute % 60 = i /\ w.minute \div 60 = h
      BY <1>2, <1>3
    <3>2. w.date.year - 2000 = c
      <4>1. w.date.year = y
        BY <1>1
      <4>. QED BY <1>4, <4>1
    <3>3. encode_time(w) = [minute |-> to_bcd(i), hour |-> to_bcd(h), weekday |-> weekday(w.date),
                            day |-> to_bcd(w.date.day), month |-> to_bcd(w.date.month),
                            year |-> to_bcd(c), offset |-> encode_offset(w.offset)]
      BY <3>1, <3>2 DEF encode_time
    <3>. QED BY <1>1, <2>1, <3>3
  <2>3. g = e \/ g = [e EXCEPT !.hour = Mode12(h)]
    BY <1>2, <1>3, <2>1 DEF Readings
  <2>. QED BY <2>2, <2>3
<1>6. bcd(g.minute % 128) = i
  <2>1. PICK b \in Int : b = to_bcd(i) /\ 0 <= b /\ b < 128 /\ bcd(b) = i
    BY BcdBack, i \in 0..99, i < 80
  <2>2. b % 128 = b
    BY <2>1
  <2>. QED BY <1>5, <2>1, <2>2
<1>7. bcd(g.day % 64) = k
  <2>1. PICK b \in Int : b = to_bcd(k) /\ 0 <= b /\ b < 64 /\ bcd(b) = k
    BY BcdBack, k \in 0..99, k < 40
  <2>2. b % 64 = b
    BY <2>1
  <2>. QED BY <1>5, <2>1, <2>2
<1>8. bcd(g.month % 32) = m
  <2>1. PICK b \in Int : b = to_bcd(m) /\ 0 <= b /\ b < 32 /\ bcd(b) = m
    BY BcdBack, m \in 0..99, m < 20
  <2>2. b % 32 = b
    BY <2>1
  <2>. QED BY <1>5, <2>1, <2>2
<1>9. bcd(g.year) = c
  BY <1>5, BcdBack
<1>10. decode_hour(g.hour) = h
  BY <1>5, HourBack
<1>11. w.offset \in Int
  BY DEF WallTime
<1>12. decode_offset(g.offset) = IF QuarterHours(w.offset) THEN w.offset ELSE NoOffset
  BY <1>5, <1>11, OffsetBack
<1>13. 2000 + c = y /\ h * 60 + i = n
  BY <1>3, <1>4
<1>14. decode_time(g) = [date |-> Day(y, m, k), minute |-> n,
                         offset |-> IF QuarterHours(w.offset) THEN w.offset ELSE NoOffset]
  BY <1>6, <1>7, <1>8, <1>9, <1>10, <1>12, <1>13 DEF decode_time, Day
<1>. QED BY <1>1, <1>2, <1>14
-----------------------------------------------------------------------------
(***************************************************************************)
(* The clock.                                                              *)
(***************************************************************************)
\* It shows t as the house's clocks do.
Right(r, w, t) ==
  /\ WallTime(w) /\ w.offset # NoOffset
  /\ w.offset = InForce(r, t) /\ local_seconds(w) - w.offset = t

\* The offset in force is one of the zone's two, and no other reading of none.
LEMMA InForceIsOne ==
  ASSUME NEW r, ParsedRule(r), Seasonal(r), NEW t \in Int
  PROVE  /\ InForce(r, t) \in {r.std, r.dst}
         /\ IsOffset(InForce(r, t)) /\ InForce(r, t) # NoOffset
<1>1. InForce(r, t) \in {r.std, r.dst}
  BY OffsetIsInForce DEF offset_at_utc
<1>2. \A o \in {r.std, r.dst} : IsOffset(o) /\ o # NoOffset
  <2>1. /\ r.std \in Int /\ -1499 <= r.std /\ r.std <= 1499
        /\ r.dst \in Int /\ -1559 <= r.dst /\ r.dst <= 1559
    BY DEF ParsedRule, Within
  <2>. QED BY <2>1 DEF IsOffset, Within, NoOffset
<1>. QED BY <1>1, <1>2

\* A reading with its offset is moved to the one in force.
LEMMA LabelledIsRight ==
  ASSUME NEW r, ParsedRule(r), Seasonal(r), NEW t \in Int, NEW w, WallTime(w),
         w.offset # NoOffset, local_seconds(w) - w.offset = t
  PROVE  Right(r, follow(r, w), t)
<1>1. r.std \in Int /\ r.dst \in Int
  BY DEF ParsedRule, Within
<1>2. /\ WallTime(follow(r, w))
      /\ local_seconds(follow(r, w)) - follow(r, w).offset = t
      /\ follow(r, w).offset = offset_at_utc(r, t)
  BY <1>1, FollowKeeps
<1>. QED BY <1>2, OffsetIsInForce, InForceIsOne DEF Right

\* A reading without one gets the one it was taken in, unless two would do.
LEMMA PlainIsRight ==
  ASSUME NEW r, ParsedRule(r), Seasonal(r), NEW t \in Int, ~Doubtful(r, t + InForce(r, t)),
         NEW w, WallTime(w), w.offset = NoOffset, local_seconds(w) = t + InForce(r, t)
  PROVE  Right(r, follow(r, w), t)
<1>1. PICK p \in Int, q \in Int, o \in Int : /\ p = r.std /\ q = r.dst /\ o = InForce(r, t)
                                            /\ o \in {p, q}
  BY InForceIsOne DEF ParsedRule, Within
<1>2. PICK local \in Int : local = t + o /\ local - o = t
  OBVIOUS
<1>3. Cardinality({n \in {p, q} : InForce(r, local - n) = n}) = 1
  BY <1>1, <1>2 DEF Doubtful
<1>4. PICK n : {i \in {p, q} : InForce(r, local - i) = i} = {n}
  <2>1. IsFiniteSet({p, q})
    <3>1. IsFiniteSet({p})
      BY FS_Singleton
    <3>2. IsFiniteSet({p} \cup {q})
      BY <3>1, FS_AddElement
    <3>. QED BY <3>2
  <2>2. IsFiniteSet({i \in {p, q} : InForce(r, local - i) = i})
    BY <2>1, FS_Subset, {i \in {p, q} : InForce(r, local - i) = i} \subseteq {p, q}
  <2>. QED BY <1>3, <2>2, FS_Singleton
<1>5. o = n
  BY <1>1, <1>2, <1>4
<1>6. offset_for_local(r, w) = InForce(r, local - p)
  BY <1>1, <1>2, OffsetIsInForce DEF offset_for_local
<1>7. InForce(r, local - p) = o
  <2>1. InForce(r, local - p) \in {p, q}
    BY <1>1, InForceIsOne, local - p \in Int
  <2>2. CASE InForce(r, local - p) = p
    BY <1>4, <1>5, <2>2
  <2>3. CASE InForce(r, local - p) # p
    BY <1>1, <1>4, <1>5, <2>1, <2>3
  <2>. QED BY <2>2, <2>3
<1>8. follow(r, w) = [w EXCEPT !.offset = o]
  BY <1>6, <1>7 DEF follow
<1>9. w = [date |-> w.date, minute |-> w.minute, offset |-> w.offset]
  BY DEF WallTime
<1>10. follow(r, w) = [date |-> w.date, minute |-> w.minute, offset |-> o]
  BY <1>8, <1>9
<1>11. WallTime(follow(r, w))
  BY <1>10 DEF WallTime
<1>12. local_seconds(follow(r, w)) = local
  <2>1. local_seconds(follow(r, w)) = local_seconds(w)
    BY <1>10 DEF local_seconds
  <2>. QED BY <1>1, <1>2, <2>1
<1>13. follow(r, w).offset = o /\ o # NoOffset
  BY <1>1, <1>10, InForceIsOne
<1>. QED BY <1>1, <1>2, <1>11, <1>12, <1>13 DEF Right

\* It was right when it was set, and while it has a time its offset is the one in force.
Kept(r, a, t) ==
  /\ a.at \in Int /\ a.at <= t /\ Right(r, a.wall, a.at)
  /\ HasTime(a, t) => InForce(r, t) = a.wall.offset

\* Another offset is to come while it has a time.
Ahead(r, a, t) == ComesAfter(r, a.wall.offset, t, a.at + 732 * DAY)

\* So it is with this one, unless its first reading could be of two instants.
Clock ==
  \/ Doubtful(rule, walk.from + InForce(rule, walk.from))
  \/ /\ Kept(rule, anchor, utc)
     /\ Changes(rule) /\ walk.pace <= DAY => Ahead(rule, anchor, utc)

CalendarInv == rule \in Rules /\ walk \in Walks /\ utc \in Int /\ Clock


\* What the constants are.
LEMMA Constants ==
  /\ MAX_ROLLOVER_DAYS \in Nat /\ MAX_ROLLOVER_DAYS >= 733
  /\ \A r \in Rules : ParsedRule(r) /\ Seasonal(r)
  /\ \A w \in Walks : w.from \in Int /\ w.pace \in Nat
BY CalendarAssumption

\* A clock that slept over a change has the other offset.
LEMMA OtherOffset ==
  ASSUME NEW r \in Rules, NEW o \in Int, IsOffset(o)
  PROVE  r.std + r.dst - o \in Int /\ r.std + r.dst - o # NoOffset
<1>1. PICK p \in Int, q \in Int :
        p = r.std /\ q = r.dst /\ -1499 <= p /\ p <= 1499 /\ -1559 <= q /\ q <= 1559
  BY Constants DEF ParsedRule, Within
<1>2. -1559 <= o /\ o <= 1559
  BY DEF IsOffset, Within
<1>3. NoOffset = 9999
  BY DEF NoOffset
<1>. QED BY <1>1, <1>2, <1>3

\* Whatever way it is shown, the clock moved into its zone shows it right.
LEMMA ShownIsRight ==
  ASSUME NEW r \in Rules, NEW t \in Int, ~Doubtful(r, t + InForce(r, t)),
         NEW how \in {"labelled", "plain", "slept"}
  PROVE  Right(r, follow(r, Shown(r, t, how)), t)
<1>1. ParsedRule(r) /\ Seasonal(r)
  BY Constants
<1>2. PICK o \in Int : o = InForce(r, t) /\ IsOffset(o) /\ o # NoOffset
  BY <1>1, InForceIsOne DEF IsOffset, Within
<1>3. PICK w : w = Shown(r, t, how)
  OBVIOUS
<1>4. CASE how = "labelled"
  <2>1. w = from_local_seconds(t + o, o)
    BY <1>2, <1>3, <1>4 DEF Shown, ShownIn
  <2>2. WallTime(w) /\ local_seconds(w) = t + o /\ w.offset = o
    BY <2>1, FromLocal, t + o \in Int
  <2>. QED BY <1>1, <1>2, <1>3, <2>2, LabelledIsRight
<1>5. CASE how = "plain"
  <2>1. w = from_local_seconds(t + o, NoOffset)
    BY <1>2, <1>3, <1>5 DEF Shown, ShownIn
  <2>2. WallTime(w) /\ local_seconds(w) = t + o /\ w.offset = NoOffset
    BY <2>1, FromLocal, t + o \in Int, NoOffset \in Int DEF NoOffset
  <2>. QED BY <1>1, <1>2, <1>3, <2>2, PlainIsRight
<1>6. CASE how = "slept"
  <2>1. PICK z \in Int : z = r.std + r.dst - o /\ z # NoOffset
    BY <1>2, OtherOffset
  <2>2. t + r.std + r.dst - o = t + z
    <3>1. PICK p \in Int, q \in Int : p = r.std /\ q = r.dst
      BY <1>1 DEF ParsedRule, Within
    <3>. QED BY <2>1, <3>1
  <2>3. w = from_local_seconds(t + z, z)
    BY <1>2, <1>3, <1>6, <2>1, <2>2 DEF Shown, ShownIn
  <2>4. WallTime(w) /\ local_seconds(w) = t + z /\ w.offset = z
    BY <2>3, FromLocal, t + z \in Int
  <2>5. t + z - z = t
    OBVIOUS
  <2>. QED BY <1>1, <1>3, <2>1, <2>4, <2>5, LabelledIsRight
<1>. QED BY <1>4, <1>5, <1>6

\* A clock that is set right is kept right, with a change to come.
LEMMA NewlySet ==
  ASSUME NEW r \in Rules, NEW t \in Int, NEW w, Right(r, w, t), NEW a, a = [at |-> t, wall |-> w]
  PROVE  Kept(r, a, t) /\ (Changes(r) => Ahead(r, a, t))
<1>1. ParsedRule(r) /\ Seasonal(r)
  BY Constants
<1>2. a.at = t /\ a.wall = w /\ w.offset = InForce(r, t)
  BY DEF Right
<1>3. Kept(r, a, t)
  BY <1>2 DEF Kept
<1>4. Changes(r) => Ahead(r, a, t)
  BY <1>1, <1>2, OtherComes DEF Ahead
<1>. QED BY <1>3, <1>4

\* What it shows, while it has a time, is the instant, in the offset it was set with.
LEMMA ShowsInstant ==
  ASSUME NEW r \in Rules, NEW t \in Int, NEW a, a.at \in Int, a.at <= t,
         Right(r, a.wall, a.at), HasTime(a, t)
  PROVE  /\ WallTime(now(a, t)) /\ now(a, t).offset = a.wall.offset /\ a.wall.offset # NoOffset
         /\ local_seconds(now(a, t)) - now(a, t).offset = t
<1>1. PICK n \in Nat : n = t - a.at
  OBVIOUS
<1>2. WallTime(a.wall) /\ Known(a.wall, n) /\ MAX_ROLLOVER_DAYS \in Nat
  BY <1>1, Constants DEF Right, HasTime
<1>3. /\ WallTime(now(a, t)) /\ now(a, t).offset = a.wall.offset
      /\ local_seconds(now(a, t)) = local_seconds(a.wall) + n
  BY <1>1, <1>2, PlusAdds DEF now
<1>4. PICK o \in Int, s \in Int : /\ o = a.wall.offset /\ s = local_seconds(a.wall)
                                 /\ s - o = a.at /\ o # NoOffset
  BY <1>2, LocalIsInt DEF Right, WallTime
<1>5. s + n - o = t
  BY <1>1, <1>4
<1>. QED BY <1>3, <1>4, <1>5

\* A look keeps the clock right.
LEMMA LookKeeps ==
  ASSUME NEW r \in Rules, NEW t \in Int, NEW a, Kept(r, a, t), NEW u \in Int, t <= u
  PROVE  Kept(r, follow_zone(r, a, u), u)
<1>1. ParsedRule(r) /\ Seasonal(r)
  BY Constants
<1>2. a.at \in Int /\ a.at <= u /\ Right(r, a.wall, a.at)
  BY DEF Kept
<1>3. CASE ~HasTime(a, u)
  BY <1>2, <1>3 DEF follow_zone, Kept
<1>4. CASE HasTime(a, u)
  <2>1. PICK w : w = now(a, u)
    OBVIOUS
  <2>2. /\ WallTime(w) /\ w.offset = a.wall.offset /\ w.offset # NoOffset
        /\ local_seconds(w) - w.offset = u
    BY <1>2, <1>4, <2>1, ShowsInstant
  <2>3. Right(r, follow(r, w), u)
    BY <1>1, <2>2, LabelledIsRight
  <2>4. CASE follow(r, w) = w
    <3>1. InForce(r, u) = a.wall.offset
      BY <2>2, <2>3, <2>4 DEF Right
    <3>. QED BY <1>2, <2>1, <2>4, <3>1 DEF follow_zone, Kept
  <2>5. CASE follow(r, w) # w
    <3>1. follow_zone(r, a, u) = [at |-> u, wall |-> follow(r, w)]
      BY <1>4, <2>1, <2>5 DEF follow_zone
    <3>. QED BY <2>3, <3>1, NewlySet
  <2>. QED BY <2>4, <2>5
<1>. QED BY <1>3, <1>4

\* The clock has a time until the change that is ahead, and for a day of it.
LEMMA AheadHasTime ==
  ASSUME NEW r \in Rules, NEW t \in Int, NEW a, Kept(r, a, t), Ahead(r, a, t),
         NEW u \in Int, t <= u, u <= t + DAY
  PROVE  HasTime(a, u)
<1>0. DAY = 1440
  BY DEF DAY
<1>1. PICK at \in Int, m \in Int : at = a.at /\ m = a.wall.minute /\ at <= t /\ m < 1440
  BY <1>0 DEF Kept, Right, WallTime
<1>2. PICK T \in Int : t < T /\ T <= at + 732 * 1440
  BY <1>0, <1>1 DEF Ahead, ComesAfter
<1>3. PICK n \in Int : n = m + (u - at) /\ n < 734 * 1440
  BY <1>0, <1>1, <1>2
<1>4. PICK d \in Int, i \in Int : DayAndMinute(n, d, i)
  BY DayMinutes
<1>5. d = n \div DAY /\ d * 1440 <= n
  BY <1>0, <1>4 DEF DayAndMinute
<1>6. d <= 733
  BY <1>3, <1>5
<1>. QED BY <1>1, <1>3, <1>5, <1>6, Constants DEF HasTime, Known

\* A daily look does not miss a change, so that another is ahead.
LEMMA LookIsAhead ==
  ASSUME NEW r \in Rules, Changes(r), NEW t \in Int, NEW a, Kept(r, a, t), Ahead(r, a, t),
         NEW u \in Int, t <= u, u <= t + DAY
  PROVE  Ahead(r, follow_zone(r, a, u), u)
<1>0. DAY = 1440
  BY DEF DAY
<1>1. HasTime(a, u)
  BY AheadHasTime
<1>2. PICK b : b = follow_zone(r, a, u)
  OBVIOUS
<1>3. Kept(r, b, u)
  BY <1>2, LookKeeps
<1>4. CASE b = a
  <2>1. PICK T \in Int : /\ t < T /\ T <= a.at + 732 * DAY
                         /\ \A x \in Int : T <= x /\ x <= T + DAY => InForce(r, x) # a.wall.offset
    BY DEF Ahead, ComesAfter
  <2>2. InForce(r, u) = a.wall.offset
    BY <1>1, <1>3, <1>4 DEF Kept
  <2>3. u < T
    BY <1>0, <2>1, <2>2
  <2>. QED BY <1>2, <1>4, <2>1, <2>3 DEF Ahead, ComesAfter
<1>5. CASE b # a
  <2>1. PICK w : b = [at |-> u, wall |-> w]
    BY <1>2, <1>5 DEF follow_zone
  <2>2. Right(r, w, u)
    BY <1>3, <2>1 DEF Kept
  <2>. QED BY <1>2, <2>1, <2>2, NewlySet
<1>. QED BY <1>4, <1>5

\* The years of a walk's start are ones the chip counts.
LEMMA CenturyOfStart ==
  ASSUME NEW w \in Walks, NEW o \in Int, IsOffset(o)
  PROVE  LET y == civil_from_days((w.from + o) \div DAY).year IN 2000 <= y /\ y < 2100
<1>0. DAY = 1440
  BY DEF DAY
<1>1. PICK t \in Int, a \in Int, b \in Int :
        /\ t = w.from /\ a = NewYear(2000) /\ b = NewYear(2100)
        /\ a + 2 * 1440 <= t /\ t < b - 2 * 1440
  BY <1>0, CalendarAssumption, NewYears, 2000 \in Int, 2100 \in Int, SMTT(20)
<1>2. PICK y \in Int : /\ y = civil_from_days((t + o) \div DAY).year
                      /\ NewYear(y) <= t + o /\ t + o < NewYear(y + 1)
  <2>1. LET y == civil_from_days((t + o) \div DAY).year
        IN  y \in Int /\ NewYear(y) <= t + o /\ t + o < NewYear(y + 1)
    BY YearOfInstant
  <2>. QED BY <2>1
<1>3. PICK c \in Int, d \in Int : c = NewYear(y) /\ d = NewYear(y + 1)
  BY NewYears, y + 1 \in Int
<1>4. -1559 <= o /\ o <= 1559
  BY DEF IsOffset, Within
<1>5. y < 2000 => d <= a
  <2>1. PICK z \in Int : z = y + 1
    OBVIOUS
  <2>2. y < 2000 => z <= 2000
    BY <2>1
  <2>. QED BY <1>1, <1>3, <2>1, <2>2, NewYearsInOrder, 2000 \in Int
<1>6. y >= 2100 => b <= c
  BY <1>1, <1>3, NewYearsInOrder, 2100 \in Int
<1>. QED BY <1>1, <1>2, <1>3, <1>4, <1>5, <1>6

\* So is what a chip gives back that was set by it.
LEMMA ReadIsRight ==
  ASSUME NEW r \in Rules, NEW v \in Walks, ~Doubtful(r, v.from + InForce(r, v.from)),
         NEW how \in {"labelled", "plain"},
         NEW g, g \in Readings(Shown(r, v.from, how), encode_time(Shown(r, v.from, how)))
  PROVE  Right(r, follow(r, decode_time(g)), v.from)
<1>1. ParsedRule(r) /\ Seasonal(r)
  BY Constants
<1>2. PICK t \in Int, o \in Int : t = v.from /\ o = InForce(r, t) /\ IsOffset(o)
  BY <1>1, Constants, InForceIsOne DEF IsOffset, Within
<1>3. PICK w : w = Shown(r, t, how)
  OBVIOUS
<1>4. w = from_local_seconds(t + o, IF how = "labelled" THEN o ELSE NoOffset)
  BY <1>2, <1>3 DEF Shown, ShownIn
<1>5. WallTime(w) /\ local_seconds(w) = t + o /\ w.offset = (IF how = "labelled" THEN o ELSE NoOffset)
  BY <1>4, FromLocal, t + o \in Int, NoOffset \in Int DEF NoOffset
<1>6. 2000 <= w.date.year /\ w.date.year < 2100
  <2>1. w.date = civil_from_days((t + o) \div DAY)
    BY <1>4 DEF from_local_seconds
  <2>. QED BY <1>2, <2>1, CenturyOfStart
<1>7. PICK d : d = decode_time(g)
  OBVIOUS
<1>8. d = [date |-> w.date, minute |-> w.minute,
           offset |-> IF QuarterHours(w.offset) THEN w.offset ELSE NoOffset]
  BY <1>2, <1>3, <1>5, <1>6, <1>7, ReadsBack
<1>9. d.offset = o \/ d.offset = NoOffset
  BY <1>5, <1>8
<1>10. WallTime(d)
  <2>1. d.offset \in Int
    BY <1>9 DEF NoOffset
  <2>2. d.date = w.date /\ d.minute = w.minute
    BY <1>8
  <2>. QED BY <1>5, <1>8, <2>1, <2>2 DEF WallTime
<1>11. local_seconds(d) = t + o
  BY <1>5, <1>8 DEF local_seconds
<1>12. o # NoOffset /\ t + o - o = t
  BY <1>1, <1>2, InForceIsOne
<1>13. CASE d.offset = o
  BY <1>1, <1>2, <1>7, <1>10, <1>11, <1>12, <1>13, LabelledIsRight
<1>14. CASE d.offset = NoOffset
  BY <1>1, <1>2, <1>7, <1>10, <1>11, <1>14, PlainIsRight
<1>. QED BY <1>9, <1>13, <1>14

\* Unless its first reading could be of either of two instants, the clock is right at the
\* start, after every look and after every wake: Clock is the inductive invariant.
LEMMA ClockInductive == CalendarSpec => []CalendarInv
<1>1. CalendarInit => CalendarInv
  <2>1. SUFFICES ASSUME CalendarInit PROVE CalendarInv
    OBVIOUS
  <2>2. rule \in Rules /\ walk \in Walks /\ utc = walk.from /\ utc \in Int
    BY <2>1, Constants DEF CalendarInit
  <2>3. PICK how \in {"labelled", "plain", "slept"} :
          anchor = [at |-> utc, wall |-> follow(rule, Shown(rule, utc, how))]
    BY <2>1 DEF CalendarInit, SetTo
  <2>4. Clock
    BY <2>2, <2>3, ShownIsRight, NewlySet DEF Clock
  <2>. QED BY <2>2, <2>4 DEF CalendarInv
<1>2. CalendarInv /\ [CalendarNext]_calendar_vars => CalendarInv'
  <2>1. SUFFICES ASSUME CalendarInv, [CalendarNext]_calendar_vars PROVE CalendarInv'
    OBVIOUS
  <2>2. rule \in Rules /\ walk \in Walks /\ utc \in Int /\ walk.pace \in Nat /\ walk.from \in Int
    BY <2>1, Constants DEF CalendarInv
  <2>3. CASE Looked
    <3>1. rule' = rule /\ walk' = walk /\ utc' = utc + walk.pace /\ utc' \in Int
      BY <2>2, <2>3 DEF Looked
    <3>2. anchor' = follow_zone(rule, anchor, utc') /\ utc <= utc'
      BY <2>2, <2>3, <3>1 DEF Looked
    <3>3. Clock'
      <4>1. CASE Doubtful(rule, walk.from + InForce(rule, walk.from))
        BY <3>1, <4>1 DEF Clock
      <4>2. CASE ~Doubtful(rule, walk.from + InForce(rule, walk.from))
        <5>1. Kept(rule, anchor, utc) /\ (Changes(rule) /\ walk.pace <= DAY => Ahead(rule, anchor, utc))
          BY <2>1, <4>2 DEF CalendarInv, Clock
        <5>2. Kept(rule, anchor', utc')
          BY <2>2, <3>1, <3>2, <5>1, LookKeeps
        <5>3. Changes(rule) /\ walk.pace <= DAY => Ahead(rule, anchor', utc')
          <6>1. walk.pace <= DAY => utc' <= utc + DAY
            BY <2>2, <3>1 DEF DAY
          <6>. QED BY <2>2, <3>1, <3>2, <5>1, <6>1, LookIsAhead
        <5>. QED BY <3>1, <5>2, <5>3 DEF Clock
      <4>. QED BY <4>1, <4>2
    <3>. QED BY <2>2, <3>1, <3>3 DEF CalendarInv
  <2>4. CASE Woken
    <3>1. rule' = rule /\ walk' = walk /\ utc' = walk.from /\ utc' \in Int
      BY <2>2, <2>4 DEF Woken
    <3>2. PICK how \in {"labelled", "plain"} :
            \E g \in Readings(Shown(rule, walk.from, how), encode_time(Shown(rule, walk.from, how))) :
              anchor' = SetTo(decode_time(g), walk.from)
      BY <2>4 DEF Woken
    <3>3. PICK g : /\ g \in Readings(Shown(rule, walk.from, how), encode_time(Shown(rule, walk.from, how)))
                   /\ anchor' = [at |-> walk.from, wall |-> follow(rule, decode_time(g))]
      BY <3>2 DEF SetTo
    <3>4. Clock'
      BY <2>2, <3>1, <3>3, ReadIsRight, NewlySet DEF Clock
    <3>. QED BY <2>2, <3>1, <3>4 DEF CalendarInv
  <2>5. CASE UNCHANGED calendar_vars
    BY <2>1, <2>5 DEF CalendarInv, Clock, calendar_vars
  <2>. QED BY <2>1, <2>3, <2>4, <2>5 DEF CalendarNext
<1>. QED BY <1>1, <1>2, PTL DEF CalendarSpec

\* Whatever the zones, the walks, their paces and the number of looks: a clock given the
\* time once shows the house's time and offset through every change it runs over, for as
\* long as it has a time, and it has one for ever where the clocks are changed and it is
\* looked at daily; and so does one that takes its time from a chip that was set.
THEOREM KeepsTheRule == CalendarSpec => []ClockKeepsTheRule
<1>1. ASSUME CalendarInv PROVE ClockKeepsTheRule
  <2>1. CASE Doubtful(rule, walk.from + InForce(rule, walk.from))
    BY <2>1 DEF ClockKeepsTheRule
  <2>2. CASE ~Doubtful(rule, walk.from + InForce(rule, walk.from))
    <3>1. /\ rule \in Rules /\ walk \in Walks /\ utc \in Int /\ Kept(rule, anchor, utc)
          /\ Changes(rule) /\ walk.pace <= DAY => Ahead(rule, anchor, utc)
      BY <1>1, <2>2 DEF CalendarInv, Clock
    <3>2. HasTime(anchor, utc) =>
            /\ now(anchor, utc).offset = InForce(rule, utc)
            /\ local_seconds(now(anchor, utc)) - now(anchor, utc).offset = utc
      BY <3>1, ShowsInstant DEF Kept
    <3>3. Changes(rule) /\ walk.pace <= DAY => HasTime(anchor, utc)
      BY <3>1, AheadHasTime, utc <= utc + DAY DEF DAY
    <3>. QED BY <3>2, <3>3 DEF ClockKeepsTheRule
  <2>. QED BY <2>1, <2>2
<1>2. CalendarInv => ClockKeepsTheRule
  BY <1>1
<1>. QED BY <1>2, ClockInductive, PTL
-----------------------------------------------------------------------------
(***************************************************************************)
(* What is read off a wire.  First brackets, and how deep they are.        *)
(***************************************************************************)
\* What a token adds to the depth.
Deeper(s, i) == IF s[i].t \in Open THEN 1 ELSE IF s[i].t \in Close THEN -1 ELSE 0

\* Nothing is open at first.
LEMMA OpenedFirst ==
  ASSUME NEW s
  PROVE  Opened(s, 1) = 0
<1>1. \A T : {j \in 1..(1 - 1) : s[j].t \in T} = {}
  OBVIOUS
<1>. QED BY <1>1, FS_EmptySet DEF Opened

\* The tokens of a kind before i are so many, and one more if i is of the kind.
LEMMA CountedOn ==
  ASSUME NEW s, NEW T, NEW i \in Nat \ {0}
  PROVE  LET n(k) == Cardinality({j \in 1..(k - 1) : s[j].t \in T})
         IN  n(i) \in Nat /\ n(i + 1) = n(i) + (IF s[i].t \in T THEN 1 ELSE 0)
<1>. DEFINE A == {j \in 1..(i - 1) : s[j].t \in T}
            B == {j \in 1..((i + 1) - 1) : s[j].t \in T}
<1>1. IsFiniteSet(A) /\ Cardinality(A) \in Nat
  <2>1. IsFiniteSet(1..(i - 1)) /\ A \in SUBSET (1..(i - 1))
    BY FS_Interval
  <2>. QED BY <2>1, FS_Subset, FS_CardinalityType
<1>2. CASE s[i].t \in T
  <2>1. B = A \cup {i} /\ i \notin A
    BY <1>2
  <2>. HIDE DEF A, B
  <2>2. Cardinality(B) = Cardinality(A) + 1
    BY <1>1, <2>1, FS_AddElement
  <2>. QED BY <1>1, <1>2, <2>2 DEF A, B
<1>3. CASE s[i].t \notin T
  <2>1. B = A
    <3>1. ASSUME NEW j \in B PROVE j \in A
      BY <1>3
    <3>2. ASSUME NEW j \in A PROVE j \in B
      OBVIOUS
    <3>. QED BY <3>1, <3>2
  <2>2. Cardinality(B) = Cardinality(A)
    BY <2>1
  <2>. HIDE DEF A, B
  <2>. QED BY <1>1, <1>3, <2>2 DEF A, B
<1>. QED BY <1>2, <1>3

\* The depth after a token.
LEMMA OpenedOn ==
  ASSUME NEW s, NEW i \in Nat \ {0}
  PROVE  /\ Opened(s, i) \in Int /\ Opened(s, i + 1) \in Int
         /\ Opened(s, i + 1) = Opened(s, i) + Deeper(s, i)
<1>. DEFINE n(T, k) == Cardinality({j \in 1..(k - 1) : s[j].t \in T})
<1>1. n(Open, i) \in Nat /\ n(Open, i + 1) = n(Open, i) + (IF s[i].t \in Open THEN 1 ELSE 0)
  BY CountedOn, ZenonT(40)
<1>2. n(Close, i) \in Nat /\ n(Close, i + 1) = n(Close, i) + (IF s[i].t \in Close THEN 1 ELSE 0)
  BY CountedOn, ZenonT(40)
<1>3. Opened(s, i) = n(Open, i) - n(Close, i) /\ Opened(s, i + 1) = n(Open, i + 1) - n(Close, i + 1)
  BY DEF Opened
<1>4. ~(s[i].t \in Open /\ s[i].t \in Close)
  BY DEF Open, Close
<1>. HIDE DEF n
<1>. QED BY <1>1, <1>2, <1>3, <1>4 DEF Deeper

\* Two texts that begin with the same n tokens are as deep there.
LEMMA OpenedSame ==
  ASSUME NEW s, NEW u, NEW n \in Nat, \A i \in 1..n : u[i] = s[i]
  PROVE  \A i \in 1..(n + 1) : Opened(u, i) = Opened(s, i)
<1>1. ASSUME NEW i \in 1..(n + 1), NEW T
      PROVE  {j \in 1..(i - 1) : u[j].t \in T} = {j \in 1..(i - 1) : s[j].t \in T}
  <2>1. \A j \in 1..(i - 1) : u[j] = s[j]
    <3>1. TAKE j \in 1..(i - 1)
    <3>2. j \in 1..n
      OBVIOUS
    <3>. QED BY <3>2
  <2>. QED BY <2>1
<1>. QED BY <1>1 DEF Opened

\* The earliest of some positions is one of them, and before the others.
LEMMA EarliestIs ==
  ASSUME NEW S \in SUBSET Nat, S # {}
  PROVE  Earliest(S) \in S /\ \A i \in S : Earliest(S) <= i
BY Least DEF Earliest

\* From where the depth is d, to where it is next no deeper than it was, it is deeper.
LEMMA DeepWithin ==
  ASSUME NEW s, NEW a \in Nat \ {0}, NEW e \in Nat, a <= e, s[a].t \in Open,
         \A i \in a..(e - 1) : Opened(s, i + 1) # Opened(s, a)
  PROVE  \A i \in (a + 1)..e : Opened(s, i) > Opened(s, a)
<1>. DEFINE S == {n \in Nat : a + 1 + n <= e => Opened(s, a + 1 + n) > Opened(s, a)}
<1>1. 0 \in S
  <2>1. Opened(s, a + 1) = Opened(s, a) + 1 /\ Opened(s, a) \in Int
    BY OpenedOn DEF Deeper
  <2>. QED BY <2>1
<1>2. ASSUME NEW n \in S PROVE n + 1 \in S
  <2>. SUFFICES ASSUME a + 1 + (n + 1) <= e PROVE Opened(s, a + 1 + (n + 1)) > Opened(s, a)
    OBVIOUS
  <2>1. PICK i : i = a + 1 + n
    OBVIOUS
  <2>2. i \in a..(e - 1) /\ i \in Nat \ {0} /\ i + 1 = a + 1 + (n + 1) /\ Opened(s, i) > Opened(s, a)
    BY <2>1
  <2>3. Opened(s, i + 1) # Opened(s, a)
    BY <2>2
  <2>4. Opened(s, i + 1) = Opened(s, i) + Deeper(s, i) /\ Deeper(s, i) \in {-1, 0, 1}
    BY <2>2, OpenedOn DEF Deeper
  <2>5. Opened(s, i) \in Int /\ Opened(s, a) \in Int
    BY <2>2, OpenedOn
  <2>. QED BY <2>2, <2>3, <2>4, <2>5
<1>3. S = Nat
  <2>1. S \in SUBSET Nat
    OBVIOUS
  <2>. HIDE DEF S
  <2>. QED BY <1>1, <1>2, <2>1, Induction
<1>4. TAKE i \in (a + 1)..e
<1>5. i - (a + 1) \in S /\ a + 1 + (i - (a + 1)) = i
  <2>1. i - (a + 1) \in Nat /\ a + 1 + (i - (a + 1)) = i
    BY SMTT(40)
  <2>. QED BY <1>3, <2>1, ZenonT(40)
<1>. QED BY <1>5
-----------------------------------------------------------------------------
\* What a token is.
LEMMA TokenIs ==
  ASSUME NEW s \in Seq(Token), NEW i \in 1..Len(s)
  PROVE  /\ s[i].t # "end" /\ s[i].n \in Int
         /\ s[i].t = "num" => s[i].n \in Nat
         /\ s[i].t = "str" => s[i].n \in Minutes
<1>1. s[i] \in Token
  BY ElementOfSeq
<1>. QED BY <1>1 DEF Token

\* What is met at a position: a token, or the end.
LEMMA PeekIs ==
  ASSUME NEW s \in Seq(Token), NEW at \in Nat \ {0}
  PROVE  /\ PeekAt(s, at) # "end" => at \in 1..Len(s) /\ PeekAt(s, at) = s[at].t
         /\ PeekAt(s, at) = "end" => at > Len(s)
         /\ at \in 1..Len(s) => PeekAt(s, at) = s[at].t
         /\ at > Len(s) => PeekAt(s, at) = "end"
<1>1. Len(s) \in Nat
  BY LenProperties
<1>. QED BY <1>1, TokenIs DEF PeekAt

\* What a key comes after, and what says more of the text than that a value goes on.
Begins == {"{", ","}
Structure == Open \cup Close \cup {","}

\* From a to b nothing is closed that was open at a, and no key begins at that depth.
Across(s, a, b) ==
  /\ a <= b
  /\ \A i \in a..b : Opened(s, i) >= Opened(s, a)
  /\ \A i \in (a + 1)..b : Opened(s, i) = Opened(s, a) => s[i - 1].t \notin Begins

\* Where a bracketed value that is skipped ends.
NestedTo(s, at, close, e) ==
  /\ e \in at..Len(s) /\ s[e].t = close /\ Opened(s, e + 1) = Opened(s, at)
  /\ \A i \in at..(e - 1) : Opened(s, i + 1) # Opened(s, at)
  /\ \A i \in at..e : s[i].t # "esc"

\* It is the earliest that brings the depth back,
LEMMA NestedIs ==
  ASSUME NEW s \in Seq(Token), NEW at \in Nat, NEW close, skip_nested(s, at, close).ok
  PROVE  \E e \in Nat : NestedTo(s, at, close, e) /\ skip_nested(s, at, close) = Read(e + 1, 0)
<1>. DEFINE ends == {e \in at..Len(s) : Opened(s, e + 1) = Opened(s, at)}
            end == Earliest(ends)
<1>1. ~(ends = {} \/ (\E i \in at..end : s[i].t = "esc") \/ s[end].t # close)
  BY DEF skip_nested, Bad
<1>2. skip_nested(s, at, close) = Read(end + 1, 0)
  BY <1>1 DEF skip_nested
<1>3. end \in ends /\ \A i \in ends : end <= i
  <2>1. ends \in SUBSET Nat /\ ends # {}
    <3>1. Len(s) \in Nat
      BY LenProperties
    <3>. QED BY <1>1, <3>1
  <2>. HIDE DEF ends
  <2>. QED BY <2>1, EarliestIs
<1>4. end \in at..Len(s) /\ Opened(s, end + 1) = Opened(s, at)
  BY <1>3
<1>5. \A i \in at..(end - 1) : Opened(s, i + 1) # Opened(s, at)
  <2>1. TAKE i \in at..(end - 1)
  <2>2. i \in at..Len(s) /\ i < end
    BY <1>4, LenProperties
  <2>3. i \notin ends
    <3>1. i \in ends => end <= i
      BY <1>3
    <3>2. end \in Int /\ i \in Int
      BY <1>4
    <3>. QED BY <2>2, <3>1, <3>2
  <2>. QED BY <2>2, <2>3
<1>6. end \in Nat
  BY <1>4
<1>. HIDE DEF end, ends
<1>. QED BY <1>1, <1>2, <1>4, <1>5, <1>6 DEF NestedTo

\* and only that one.
LEMMA NestedOnly ==
  ASSUME NEW s \in Seq(Token), NEW at \in Nat, NEW close, NEW e \in Nat, NestedTo(s, at, close, e)
  PROVE  skip_nested(s, at, close) = Read(e + 1, 0)
<1>. DEFINE ends == {k \in at..Len(s) : Opened(s, k + 1) = Opened(s, at)}
            end == Earliest(ends)
<1>0. Len(s) \in Nat
  BY LenProperties
<1>1. e \in ends
  BY DEF NestedTo
<1>2. end \in ends /\ end <= e
  <2>1. ends \in SUBSET Nat /\ ends # {}
    BY <1>0, <1>1
  <2>. HIDE DEF ends
  <2>. QED BY <1>1, <2>1, EarliestIs
<1>3. end \in at..Len(s) /\ Opened(s, end + 1) = Opened(s, at)
  BY <1>2
<1>4. end = e
  <2>1. end < e => end \in at..(e - 1)
    BY <1>0, <1>3
  <2>. QED BY <1>2, <1>3, <2>1 DEF NestedTo
<1>5. ~(ends = {} \/ (\E i \in at..end : s[i].t = "esc") \/ s[end].t # close)
  <2>. HIDE DEF ends, end
  <2>. QED BY <1>1, <1>4 DEF NestedTo
<1>6. skip_nested(s, at, close) = Read(end + 1, 0)
  BY <1>5 DEF skip_nested
<1>. HIDE DEF end
<1>. QED BY <1>4, <1>6

\* Within brackets it is deeper, and after them as before.
LEMMA NestedAcross ==
  ASSUME NEW s, Len(s) \in Nat, NEW at \in Nat \ {0}, s[at].t \in Open, NEW close \in Close,
         NEW e \in Nat, NestedTo(s, at, close, e)
  PROVE  Across(s, at, e + 1)
<1>1. at <= e /\ s[e].t = close /\ Opened(s, e + 1) = Opened(s, at) /\ e <= Len(s)
  BY DEF NestedTo
<1>2. \A i \in (at + 1)..e : Opened(s, i) > Opened(s, at)
  BY <1>1, DeepWithin DEF NestedTo
<1>3. Opened(s, at) \in Int /\ \A i \in at..(e + 1) : Opened(s, i) \in Int
  <2>1. \A i \in at..(e + 1) : i \in Nat \ {0}
    OBVIOUS
  <2>. QED BY <2>1, OpenedOn
<1>4. ASSUME NEW i \in at..(e + 1) PROVE Opened(s, i) >= Opened(s, at)
  <2>1. i = at \/ i = e + 1 \/ i \in (at + 1)..e
    OBVIOUS
  <2>. QED BY <1>1, <1>2, <1>3, <2>1
<1>5. ASSUME NEW i \in (at + 1)..(e + 1), Opened(s, i) = Opened(s, at)
      PROVE  s[i - 1].t \notin Begins
  <2>1. i = e + 1
    <3>1. i \in (at + 1)..e \/ i = e + 1
      OBVIOUS
    <3>. QED BY <1>2, <1>3, <1>5, <3>1
  <2>2. i - 1 = e
    BY <2>1
  <2>. QED BY <1>1, <2>2 DEF Close, Begins
<1>6. at <= e + 1
  BY <1>1
<1>. QED BY <1>4, <1>5, <1>6 DEF Across

\* Where any other value that is skipped ends.
Delimiters == {"end", ",", "}", "]"}
BareTo(s, at, e) ==
  /\ e \in at..(Len(s) + 1) /\ PeekAt(s, e) \in Delimiters
  /\ \A i \in at..(e - 1) : PeekAt(s, i) \notin Delimiters

\* It is at the earliest delimiter,
LEMMA BareIs ==
  ASSUME NEW s \in Seq(Token), NEW at \in Nat \ {0}, at <= Len(s) + 1
  PROVE  \E e \in Nat : BareTo(s, at, e) /\ skip_bare(s, at) = Read(e, 0)
<1>. DEFINE D == {e \in at..(Len(s) + 1) : PeekAt(s, e) \in Delimiters}
            end == Earliest(D)
<1>0. Len(s) \in Nat
  BY LenProperties
<1>1. skip_bare(s, at) = Read(end, 0)
  BY DEF skip_bare, Delimiters
<1>2. end \in D /\ \A i \in D : end <= i
  <2>1. Len(s) + 1 \in D
    <3>1. Len(s) + 1 \in at..(Len(s) + 1) /\ Len(s) + 1 \in Nat \ {0}
      BY <1>0
    <3>2. PeekAt(s, Len(s) + 1) = "end"
      BY <1>0, <3>1, PeekIs
    <3>. QED BY <3>1, <3>2 DEF Delimiters
  <2>2. D \in SUBSET Nat /\ D # {}
    BY <1>0, <2>1
  <2>. HIDE DEF D
  <2>. QED BY <2>2, EarliestIs
<1>3. end \in at..(Len(s) + 1) /\ PeekAt(s, end) \in Delimiters
  BY <1>2
<1>4. \A i \in at..(end - 1) : PeekAt(s, i) \notin Delimiters
  <2>1. TAKE i \in at..(end - 1)
  <2>2. i \in at..(Len(s) + 1) /\ i < end
    BY <1>0, <1>3
  <2>3. i \notin D
    <3>1. i \in D => end <= i
      BY <1>2
    <3>2. end \in Int /\ i \in Int
      BY <1>3
    <3>. QED BY <2>2, <3>1, <3>2
  <2>. QED BY <2>2, <2>3
<1>5. end \in Nat
  BY <1>0, <1>3
<1>. HIDE DEF end, D
<1>. QED BY <1>1, <1>3, <1>4, <1>5 DEF BareTo

\* and only at that one.
LEMMA BareOnly ==
  ASSUME NEW s \in Seq(Token), NEW at \in Nat \ {0}, NEW e \in Nat, BareTo(s, at, e)
  PROVE  skip_bare(s, at) = Read(e, 0)
<1>1. at <= Len(s) + 1 /\ Len(s) \in Nat /\ at <= e
  BY LenProperties DEF BareTo
<1>2. PICK k \in Nat : BareTo(s, at, k) /\ skip_bare(s, at) = Read(k, 0)
  BY <1>1, BareIs
<1>3. ~(k < e)
  <2>1. k < e => k \in at..(e - 1)
    BY <1>2 DEF BareTo
  <2>. QED BY <1>2, <2>1 DEF BareTo
<1>4. ~(e < k)
  <2>1. e < k => e \in at..(k - 1)
    BY <1>1
  <2>. QED BY <1>2, <2>1 DEF BareTo
<1>. QED BY <1>2, <1>3, <1>4

\* A value that is not in brackets closes none.
LEMMA BareAcross ==
  ASSUME NEW s \in Seq(Token), NEW at \in Nat \ {0}, NEW e \in Nat, BareTo(s, at, e)
  PROVE  Across(s, at, e)
<1>0. Len(s) \in Nat /\ at <= e /\ e <= Len(s) + 1
  BY LenProperties DEF BareTo
<1>1. ASSUME NEW i \in at..(e - 1) PROVE s[i].t \notin {",", "}", "]"} /\ i \in Nat \ {0}
  <2>1. PeekAt(s, i) \notin Delimiters /\ i \in Nat \ {0}
    BY DEF BareTo
  <2>2. PeekAt(s, i) = s[i].t
    BY <2>1, PeekIs DEF Delimiters
  <2>. QED BY <2>1, <2>2 DEF Delimiters
<1>2. \A i \in at..e : Opened(s, i) \in Int
  <2>1. \A i \in at..e : i \in Nat \ {0}
    OBVIOUS
  <2>. QED BY <2>1, OpenedOn
<1>. DEFINE S == {n \in Nat : at + n <= e => Opened(s, at + n) >= Opened(s, at)}
<1>3. S = Nat
  <2>1. 0 \in S
    <3>1. Opened(s, at) \in Int /\ at + 0 = at
      BY OpenedOn
    <3>. QED BY <3>1
  <2>2. ASSUME NEW n \in S PROVE n + 1 \in S
    <3>. SUFFICES ASSUME at + (n + 1) <= e PROVE Opened(s, at + (n + 1)) >= Opened(s, at)
      OBVIOUS
    <3>1. PICK i : i = at + n
      OBVIOUS
    <3>2. i \in at..(e - 1) /\ i + 1 = at + (n + 1) /\ Opened(s, i) >= Opened(s, at)
      BY <3>1
    <3>3. Opened(s, i + 1) = Opened(s, i) + Deeper(s, i) /\ Deeper(s, i) \in {0, 1}
      BY <1>1, <3>2, OpenedOn DEF Deeper, Close
    <3>4. Opened(s, i) \in Int /\ Opened(s, at) \in Int
      BY <1>1, <3>2, OpenedOn
    <3>. QED BY <3>2, <3>3, <3>4
  <2>3. S \in SUBSET Nat
    OBVIOUS
  <2>. HIDE DEF S
  <2>. QED BY <2>1, <2>2, <2>3, Induction
<1>4. ASSUME NEW i \in at..e PROVE Opened(s, i) >= Opened(s, at)
  <2>1. i - at \in Nat /\ at + (i - at) = i
    OBVIOUS
  <2>2. i - at \in S
    BY <1>3, <2>1
  <2>. QED BY <2>1, <2>2
<1>5. ASSUME NEW i \in (at + 1)..e, Opened(s, i) = Opened(s, at) PROVE s[i - 1].t \notin Begins
  <2>1. PICK k : k = i - 1
    OBVIOUS
  <2>2. k \in at..(e - 1) /\ k + 1 = i /\ k \in at..e
    BY <2>1
  <2>3. Opened(s, k + 1) = Opened(s, k) + Deeper(s, k) /\ Opened(s, k) \in Int /\ Opened(s, at) \in Int
    BY <1>1, <2>2, OpenedOn
  <2>4. Opened(s, k) >= Opened(s, at)
    BY <1>4, <2>2
  <2>5. s[k].t # "{"
    <3>1. s[k].t = "{" => Deeper(s, k) = 1
      BY DEF Deeper, Open
    <3>2. Opened(s, k + 1) = Opened(s, at)
      BY <1>5, <2>2
    <3>3. Deeper(s, k) # 1
      <4>1. PICK u, v, w, d : u = Opened(s, k) /\ v = Opened(s, at) /\ w = Opened(s, k + 1) /\ d = Deeper(s, k)
        OBVIOUS
      <4>2. u \in Int /\ v \in Int /\ w = u + d /\ u >= v /\ w = v
        BY <2>3, <2>4, <3>2, <4>1
      <4>3. d # 1
        BY <4>2
      <4>. QED BY <4>1, <4>3
    <3>. QED BY <3>1, <3>3
  <2>. QED BY <1>1, <2>1, <2>2, <2>5 DEF Begins
<1>. HIDE DEF S
<1>. QED BY <1>0, <1>4, <1>5 DEF Across
-----------------------------------------------------------------------------
\* Past a token that is no bracket and no comma the depth is what it was.
LEMMA TokenAcross ==
  ASSUME NEW s, NEW at \in Nat \ {0}, s[at].t \notin Structure
  PROVE  Across(s, at, at + 1)
<1>1. Deeper(s, at) = 0 /\ s[at].t \notin Begins
  BY DEF Deeper, Structure, Begins, Open
<1>2. Opened(s, at + 1) = Opened(s, at) /\ Opened(s, at) \in Int
  BY <1>1, OpenedOn
<1>3. \A i \in at..(at + 1) : i = at \/ i = at + 1
  OBVIOUS
<1>4. \A i \in (at + 1)..(at + 1) : i - 1 = at
  OBVIOUS
<1>. QED BY <1>1, <1>2, <1>3, <1>4 DEF Across

\* A value that is skipped.
LEMMA SkipAcross ==
  ASSUME NEW s \in Seq(Token), NEW at \in Nat \ {0}, skip_value(s, at).ok
  PROVE  /\ at <= Len(s) /\ skip_value(s, at).at \in Nat /\ skip_value(s, at).at <= Len(s) + 1
         /\ Across(s, at, skip_value(s, at).at)
<1>0. Len(s) \in Nat
  BY LenProperties
<1>1. PeekAt(s, at) \notin {"end", "esc"}
  BY DEF skip_value, Bad
<1>2. at \in 1..Len(s) /\ PeekAt(s, at) = s[at].t
  BY <1>1, PeekIs
<1>3. CASE PeekAt(s, at) = "str"
  <2>1. skip_value(s, at) = Read(at + 1, 0)
    BY <1>3 DEF skip_value
  <2>2. Across(s, at, at + 1)
    BY <1>2, <1>3, TokenAcross DEF Structure, Open, Close
  <2>3. skip_value(s, at).at = at + 1
    BY <2>1 DEF Read
  <2>. QED BY <1>0, <1>2, <2>2, <2>3
<1>4. ASSUME NEW open, NEW close, (open = "{" /\ close = "}") \/ (open = "[" /\ close = "]"),
             PeekAt(s, at) = open
      PROVE  /\ at <= Len(s) /\ skip_value(s, at).at \in Nat /\ skip_value(s, at).at <= Len(s) + 1
             /\ Across(s, at, skip_value(s, at).at)
  <2>1. skip_value(s, at) = skip_nested(s, at, close)
    BY <1>4 DEF skip_value
  <2>2. PICK e \in Nat : NestedTo(s, at, close, e) /\ skip_nested(s, at, close) = Read(e + 1, 0)
    BY <2>1, NestedIs
  <2>3. s[at].t \in Open /\ close \in Close
    BY <1>2, <1>4 DEF Open, Close
  <2>4. Across(s, at, e + 1)
    BY <1>0, <2>2, <2>3, NestedAcross
  <2>5. skip_value(s, at).at = e + 1
    BY <2>1, <2>2 DEF Read
  <2>6. e <= Len(s)
    BY <2>2 DEF NestedTo
  <2>. QED BY <1>0, <1>2, <2>4, <2>5, <2>6
<1>5. CASE PeekAt(s, at) \notin {"end", "esc", "str", "{", "["}
  <2>1. skip_value(s, at) = skip_bare(s, at)
    BY <1>5 DEF skip_value
  <2>2. PICK e \in Nat : BareTo(s, at, e) /\ skip_bare(s, at) = Read(e, 0)
    BY <1>0, <1>2, BareIs
  <2>3. Across(s, at, e)
    BY <2>2, BareAcross
  <2>4. skip_value(s, at).at = e
    BY <2>1, <2>2 DEF Read
  <2>5. e <= Len(s) + 1
    BY <2>2 DEF BareTo
  <2>. QED BY <1>0, <1>2, <2>3, <2>4, <2>5
<1>6. CASE PeekAt(s, at) = "{"
  BY <1>4, <1>6
<1>7. CASE PeekAt(s, at) = "["
  BY <1>4, <1>7, ZenonT(40)
<1>. QED BY <1>1, <1>3, <1>5, <1>6, <1>7

\* The value of a key, and where it ends.
LEMMA ValueIs ==
  ASSUME NEW s \in Seq(Token), NEW at \in Nat \ {0}, NEW key, json_value(s, at, key).ok
  PROVE  /\ at <= Len(s) /\ json_value(s, at, key).at \in Nat
         /\ json_value(s, at, key).at <= Len(s) + 1
         /\ Across(s, at, json_value(s, at, key).at)
         /\ key = "time" => json_value(s, at, key).v = s[at].n /\ s[at].n \in 0..1439
         /\ key = "portions" => json_value(s, at, key).v = s[at].n /\ s[at].n \in 0..255
<1>0. Len(s) \in Nat
  BY LenProperties, SMTT(40)
<1>1. CASE key = "time"
  <2>1. PeekAt(s, at) = "str" /\ ~(s[at].n < 0)
    BY <1>1, SMTT(20) DEF json_value, json_time, Bad
  <2>2. at \in 1..Len(s) /\ s[at].t = "str" /\ s[at].n \in 0..1439
    <3>1. at \in 1..Len(s) /\ s[at].t = "str"
      BY <2>1, PeekIs
    <3>2. s[at].n \in Minutes
      BY <3>1, TokenIs, Zenon
    <3>3. ~(s[at].n < 0)
      BY <2>1
    <3>4. PICK n : n = s[at].n
      OBVIOUS
    <3>5. n \in 0..1439
      <4>1. n \in -1..1439
        BY <3>2, <3>4 DEF Minutes
      <4>2. ~(n < 0)
        BY <3>3, <3>4
      <4>. QED BY <4>1, <4>2, SMTT(20)
    <3>. QED BY <3>1, <3>4, <3>5
  <2>3. json_value(s, at, key) = Read(at + 1, s[at].n)
    BY <1>1, <2>1 DEF json_value, json_time
  <2>4. Across(s, at, at + 1)
    BY <2>2, TokenAcross, ZenonT(40) DEF Structure, Open, Close
  <2>. QED BY <1>0, <1>1, <2>2, <2>3, <2>4, SMTT(40) DEF Read
<1>2. CASE key = "portions"
  <2>1. PeekAt(s, at) = "num" /\ ~(s[at].n > 255)
    BY <1>2 DEF json_value, json_portions, Bad
  <2>2. at \in 1..Len(s) /\ s[at].t = "num" /\ s[at].n \in 0..255
    <3>1. at \in 1..Len(s) /\ s[at].t = "num"
      BY <2>1, PeekIs
    <3>2. s[at].n \in Nat
      BY <3>1, TokenIs
    <3>3. ~(s[at].n > 255)
      BY <2>1
    <3>4. PICK n : n = s[at].n
      OBVIOUS
    <3>5. n \in 0..255
      <4>1. n \in Nat
        BY <3>2, <3>4
      <4>2. ~(n > 255)
        BY <3>3, <3>4
      <4>. QED BY <4>1, <4>2
    <3>. QED BY <3>1, <3>4, <3>5
  <2>3. json_value(s, at, key) = Read(at + 1, s[at].n)
    BY <1>2, <2>1 DEF json_value, json_portions
  <2>4. Across(s, at, at + 1)
    BY <2>2, TokenAcross DEF Structure, Open, Close
  <2>. QED BY <1>0, <1>2, <2>2, <2>3, <2>4 DEF Read
<1>3. CASE key \notin {"time", "portions"}
  <2>1. json_value(s, at, key) = skip_value(s, at)
    BY <1>3 DEF json_value
  <2>. QED BY <1>3, <2>1, SkipAcross
<1>. QED BY <1>1, <1>2, <1>3, ZenonT(40)

\* A key that is read: its value ends at b, with a comma or with the meal's brace.
Keyed(s, a, b, value) ==
  /\ s[a].t = "str" /\ s[a + 1].t = ":" /\ a + 2 <= b
  /\ value = json_value(s, a + 2, s[a].key) /\ value.ok /\ value.at = b
  /\ b \in 1..Len(s) /\ s[b].t \in {",", "}"}

\* Where a meal opens and closes, and that it has.
Begun(s, i) == s[i].t = "{"
Ended(s, i) == s[i].t = "}"
Shut(s, r) == Ended(s, r.at - 1)

\* A meal that has both its keys.
Whole(slot) == ~(slot.minute < 0) /\ ~(slot.portions < 0)

LEMMA MemberIs ==
  ASSUME NEW s \in Seq(Token), NEW r, r.ok, r.at \in Nat \ {0}, r.at <= Len(s) + 1, ~Shut(s, r),
         json_member(s, r).ok
  PROVE  \E b \in Nat : \E value :
           /\ Keyed(s, r.at, b, value)
           /\ json_member(s, r) = Read(b + 1, json_kept(r.v, s[r.at].key, value))
           /\ Ended(s, b) => Whole(json_kept(r.v, s[r.at].key, value))
<1>0. Len(s) \in Nat
  BY LenProperties
<1>1. PeekAt(s, r.at) = "str" /\ PeekAt(s, r.at + 1) = ":"
  BY DEF json_member, Bad, Shut, Ended
<1>2. s[r.at].t = "str" /\ s[r.at + 1].t = ":" /\ r.at \in 1..Len(s)
  <2>1. r.at + 1 \in Nat \ {0}
    OBVIOUS
  <2>. QED BY <1>1, <2>1, PeekIs
<1>3. PICK value, kept : value = json_value(s, r.at + 2, s[r.at].key) /\ kept = json_kept(r.v, s[r.at].key, value)
  OBVIOUS
<1>4. json_member(s, r) = json_after(s, value, kept)
  BY <1>1, <1>3 DEF json_member, Shut, Ended
<1>5. json_after(s, value, kept).ok
  BY <1>4
<1>6. value.ok
  BY <1>5, ZenonT(40) DEF json_after
<1>7. r.at + 2 <= value.at /\ value.at \in Nat
  <2>1. r.at + 2 \in Nat \ {0} /\ json_value(s, r.at + 2, s[r.at].key).ok
    BY <1>3, <1>6
  <2>. QED BY <1>3, <2>1, ValueIs DEF Across
<1>8. PICK b : b = value.at
  OBVIOUS
<1>9. PeekAt(s, b) \in {",", "}"}
  BY <1>5, <1>6, <1>8 DEF json_after, Bad
<1>10. b \in 1..Len(s) /\ s[b].t = PeekAt(s, b)
  <2>1. b \in Nat \ {0}
    BY <1>7, <1>8
  <2>2. PeekAt(s, b) # "end"
    BY <1>9
  <2>. QED BY <2>1, <2>2, PeekIs
<1>11. Keyed(s, r.at, b, value)
  BY <1>2, <1>3, <1>6, <1>7, <1>8, <1>9, <1>10 DEF Keyed
<1>12. Ended(s, b) => Whole(kept)
  BY <1>5, <1>6, <1>8, <1>10 DEF json_after, Bad, Whole, Ended
<1>13. json_after(s, value, kept) = Read(b + 1, kept)
  <2>1. CASE PeekAt(s, b) = ","
    BY <1>6, <1>8, <2>1 DEF json_after
  <2>2. CASE PeekAt(s, b) = "}"
    <3>1. ~(kept.minute < 0 \/ kept.portions < 0)
      BY <1>10, <1>12, <2>2 DEF Whole, Ended
    <3>. QED BY <1>6, <1>8, <2>2, <3>1 DEF json_after
  <2>. QED BY <1>9, <2>1, <2>2
<1>. QED BY <1>3, <1>4, <1>7, <1>8, <1>11, <1>12, <1>13
-----------------------------------------------------------------------------
\* The keys met at the depth of those of the meal that opens at p, before q.
Names(s, p, q) == {i \in (p + 1)..(q - 1) : s[i - 1].t \in Begins /\ Opened(s, i) = Opened(s, p) + 1}

\* x is what the last of the keys says, or -1.
Told(s, K, key, x) ==
  \/ x = -1 /\ \A i \in K : s[i].key # key
  \/ \E i \in K : s[i].key = key /\ (\A j \in K : s[j].key = key => j <= i) /\ x = s[i + 2].n

\* How far a meal was read: to where its next key begins, or to its brace.
Tip(s, r) == IF Shut(s, r) THEN r.at - 1 ELSE r.at

SlotsRead == [minute : -1..1439, portions : -1..255]

\* A meal of which k keys were read, or all.
Reading(s, p, k, r) ==
  /\ r.ok /\ r.at \in Nat /\ r.at <= Len(s) + 1 /\ r.v \in SlotsRead
  /\ Shut(s, r) => Whole(r.v) /\ p + 1 < r.at
  /\ ~Shut(s, r) => s[r.at - 1].t \in Begins /\ p + 1 + k <= r.at
  /\ \A i \in (p + 1)..Tip(s, r) : Opened(s, i) >= Opened(s, p) + 1
  /\ Opened(s, Tip(s, r)) = Opened(s, p) + 1 =>
       /\ Told(s, Names(s, p, r.at), "time", r.v.minute)
       /\ Told(s, Names(s, p, r.at), "portions", r.v.portions)

\* One more key, after all of them.
LEMMA ToldOn ==
  ASSUME NEW s, NEW K, NEW a \in Int, \A i \in K : i \in Int /\ i < a, NEW key, NEW x,
         Told(s, K, key, x)
  PROVE  /\ s[a].key = key => Told(s, K \cup {a}, key, s[a + 2].n)
         /\ s[a].key # key => Told(s, K \cup {a}, key, x)
<1>1. ASSUME s[a].key = key PROVE Told(s, K \cup {a}, key, s[a + 2].n)
  <2>1. \A j \in K \cup {a} : j <= a
    OBVIOUS
  <2>. QED BY <1>1, <2>1 DEF Told
<1>2. ASSUME s[a].key # key PROVE Told(s, K \cup {a}, key, x)
  BY <1>2 DEF Told
<1>. QED BY <1>1, <1>2

\* Over a key and its value, up to b, nothing is closed and no other key is met.
LEMMA KeyAcross ==
  ASSUME NEW s \in Seq(Token), NEW a \in Nat \ {0}, NEW b, NEW value, Keyed(s, a, b, value)
  PROVE  /\ \A i \in a..b : Opened(s, i) \in Int /\ Opened(s, i) >= Opened(s, a)
         /\ \A i \in (a + 1)..b : Opened(s, i) = Opened(s, a) => s[i - 1].t \notin Begins
         /\ Opened(s, b + 1) = Opened(s, b) + (IF Ended(s, b) THEN -1 ELSE 0)
<1>1. a + 2 <= b /\ b \in 1..Len(s) /\ Len(s) \in Nat /\ b \in Nat \ {0}
  <2>1. a + 2 <= b /\ b \in 1..Len(s)
    BY DEF Keyed
  <2>2. Len(s) \in Nat
    BY LenProperties
  <2>. QED BY <2>1, <2>2
<1>2. Across(s, a, a + 1) /\ Across(s, a + 1, a + 2)
  <2>1. s[a].t \notin Structure /\ s[a + 1].t \notin Structure
    BY DEF Keyed, Structure, Open, Close
  <2>2. a + 1 \in Nat \ {0} /\ (a + 1) + 1 = a + 2
    BY SMTT(40)
  <2>. QED BY <2>1, <2>2, TokenAcross
<1>3. Across(s, a + 2, b)
  <2>1. json_value(s, a + 2, s[a].key).ok /\ b = json_value(s, a + 2, s[a].key).at
    BY DEF Keyed
  <2>2. a + 2 \in Nat \ {0}
    OBVIOUS
  <2>. QED BY <2>1, <2>2, ValueIs
<1>4. Opened(s, a + 1) = Opened(s, a) /\ Opened(s, a + 2) = Opened(s, a)
  <2>1. Deeper(s, a) = 0 /\ Deeper(s, a + 1) = 0
    BY DEF Keyed, Deeper, Open, Close
  <2>2. a + 1 \in Nat \ {0} /\ (a + 1) + 1 = a + 2
    OBVIOUS
  <2>. QED BY <2>1, <2>2, OpenedOn
<1>5. \A i \in a..b : Opened(s, i) \in Int
  <2>1. \A i \in a..b : i \in Nat \ {0}
    BY <1>1
  <2>. QED BY <2>1, OpenedOn
<1>6. ASSUME NEW i \in a..b PROVE Opened(s, i) >= Opened(s, a)
  <2>1. i = a \/ i = a + 1 \/ i \in (a + 2)..b
    BY <1>1
  <2>2. i \in (a + 2)..b => Opened(s, i) >= Opened(s, a)
    BY <1>3, <1>4 DEF Across
  <2>3. Opened(s, i) \in Int
    BY <1>5
  <2>. QED BY <1>4, <2>1, <2>2, <2>3
<1>7. ASSUME NEW i \in (a + 1)..b, Opened(s, i) = Opened(s, a) PROVE s[i - 1].t \notin Begins
  <2>1. CASE i = a + 1
    <3>1. i - 1 = a
      BY <2>1
    <3>. QED BY <3>1 DEF Keyed, Begins
  <2>2. CASE i = a + 2
    <3>1. i - 1 = a + 1
      BY <2>2
    <3>. QED BY <3>1 DEF Keyed, Begins
  <2>3. CASE i \in ((a + 2) + 1)..b
    BY <1>3, <1>4, <1>7, <2>3 DEF Across
  <2>4. i = a + 1 \/ i = a + 2 \/ i \in ((a + 2) + 1)..b
    BY <1>1
  <2>. QED BY <2>1, <2>2, <2>3, <2>4
<1>8. Opened(s, b + 1) = Opened(s, b) + (IF Ended(s, b) THEN -1 ELSE 0)
  <2>1. Opened(s, b + 1) = Opened(s, b) + Deeper(s, b)
    BY <1>1, OpenedOn
  <2>2. Deeper(s, b) = (IF Ended(s, b) THEN -1 ELSE 0)
    BY DEF Keyed, Deeper, Open, Close, Ended
  <2>. QED BY <2>1, <2>2
<1>. QED BY <1>5, <1>6, <1>7, <1>8

\* What is kept of a key.
LEMMA KeptIs ==
  ASSUME NEW s \in Seq(Token), NEW a \in Nat \ {0}, NEW b, NEW value, Keyed(s, a, b, value),
         NEW v \in SlotsRead
  PROVE  LET kept == json_kept(v, s[a].key, value)
         IN  /\ kept \in SlotsRead
             /\ kept.minute = (IF s[a].key = "time" THEN s[a + 2].n ELSE v.minute)
             /\ kept.portions = (IF s[a].key = "portions" THEN s[a + 2].n ELSE v.portions)
<1>. DEFINE kept == json_kept(v, s[a].key, value)
<1>1. /\ s[a].key = "time" => value.v = s[a + 2].n /\ s[a + 2].n \in 0..1439
      /\ s[a].key = "portions" => value.v = s[a + 2].n /\ s[a + 2].n \in 0..255
  <2>1. value = json_value(s, a + 2, s[a].key) /\ value.ok
    BY DEF Keyed
  <2>2. a + 2 \in Nat \ {0}
    OBVIOUS
  <2>3. PICK at, key : at = a + 2 /\ key = s[a].key
    OBVIOUS
  <2>4. at \in Nat \ {0} /\ value = json_value(s, at, key) /\ json_value(s, at, key).ok
    BY <2>1, <2>2, <2>3, SMTT(40)
  <2>5. /\ key = "time" => json_value(s, at, key).v = s[at].n /\ s[at].n \in 0..1439
        /\ key = "portions" => json_value(s, at, key).v = s[at].n /\ s[at].n \in 0..255
    BY <2>4, ValueIs
  <2>. QED BY <2>3, <2>4, <2>5, ZenonT(40)
<1>2. CASE s[a].key = "time"
  <2>0. PICK n : n = s[a + 2].n
    BY SMTT(40)
  <2>1. n \in 0..1439 /\ value.v = n /\ s[a + 2].n = n
    BY <1>1, <1>2, <2>0
  <2>2. kept = [v EXCEPT !.minute = n]
    BY <1>2, <2>1 DEF json_kept
  <2>3. kept = [minute |-> n, portions |-> v.portions] /\ v.portions \in -1..255
    BY <2>2 DEF SlotsRead
  <2>4. n \in -1..1439
    BY <2>1
  <2>5. kept \in SlotsRead
    BY <2>3, <2>4 DEF SlotsRead
  <2>. QED BY <1>2, <2>1, <2>3, <2>5
<1>3. CASE s[a].key = "portions"
  <2>0. PICK n : n = s[a + 2].n
    OBVIOUS
  <2>1. n \in 0..255 /\ value.v = n /\ s[a + 2].n = n
    BY <1>1, <1>3, <2>0
  <2>2. kept = [v EXCEPT !.portions = n]
    BY <1>3, <2>1 DEF json_kept
  <2>3. kept = [minute |-> v.minute, portions |-> n] /\ v.minute \in -1..1439
    BY <2>2 DEF SlotsRead
  <2>4. n \in -1..255
    BY <2>1
  <2>5. kept \in SlotsRead
    BY <2>3, <2>4 DEF SlotsRead
  <2>. QED BY <1>3, <2>1, <2>3, <2>5
<1>4. CASE s[a].key \notin {"time", "portions"}
  BY <1>4 DEF json_kept
<1>. QED BY <1>2, <1>3, <1>4, SMTT(40)

\* Before its first key.
LEMMA ReadingFirst ==
  ASSUME NEW s \in Seq(Token), NEW p \in 1..Len(s), Begun(s, p)
  PROVE  Reading(s, p, 0, Read(p + 1, [minute |-> -1, portions |-> -1]))
<1>. DEFINE r == Read(p + 1, [minute |-> -1, portions |-> -1])
<1>1. r.ok /\ r.at = p + 1 /\ r.v = [minute |-> -1, portions |-> -1]
  BY DEF Read
<1>2. r.at \in Nat /\ r.at <= Len(s) + 1 /\ r.at - 1 = p /\ p + 1 + 0 <= r.at
  <2>1. Len(s) \in Nat
    BY LenProperties
  <2>2. PICK q : q = p + 1
    OBVIOUS
  <2>3. q \in Nat /\ q <= Len(s) + 1 /\ q - 1 = p /\ p + 1 + 0 <= q
    BY <2>1, <2>2, SMTT(20)
  <2>. QED BY <1>1, <2>2, <2>3, SMTT(40)
<1>3. r.v \in SlotsRead
  <2>1. -1 \in -1..1439 /\ -1 \in -1..255
    OBVIOUS
  <2>. QED BY <1>1, <2>1 DEF SlotsRead
<1>4. ~Shut(s, r) /\ s[r.at - 1].t \in Begins
  BY <1>2 DEF Shut, Begins, Begun, Ended
<1>5. Tip(s, r) = p + 1
  BY <1>1, <1>4 DEF Tip
<1>6. Opened(s, p + 1) = Opened(s, p) + 1 /\ Opened(s, p) \in Int
  <2>1. Deeper(s, p) = 1
    BY DEF Deeper, Open, Begun
  <2>2. p \in Nat \ {0}
    OBVIOUS
  <2>. QED BY <2>1, <2>2, OpenedOn
<1>7. \A i \in (p + 1)..(p + 1) : Opened(s, i) >= Opened(s, p) + 1
  <2>1. \A i \in (p + 1)..(p + 1) : i = p + 1
    OBVIOUS
  <2>. QED BY <1>6, <2>1
<1>8. \A i \in Names(s, p, p + 1) : FALSE
  BY DEF Names
<1>9. Told(s, Names(s, p, r.at), "time", r.v.minute) /\ Told(s, Names(s, p, r.at), "portions", r.v.portions)
  BY <1>1, <1>8 DEF Told
<1>. HIDE DEF r
<1>10. Reading(s, p, 0, r)
  BY <1>1, <1>2, <1>3, <1>4, <1>5, <1>7, <1>9 DEF Reading
<1>. QED BY <1>10 DEF r

\* Every key that is read leaves it so.
LEMMA ReadingOn ==
  ASSUME NEW s \in Seq(Token), NEW p \in 1..Len(s), NEW k \in Nat, NEW r, Reading(s, p, k, r),
         json_member(s, r).ok
  PROVE  Reading(s, p, k + 1, json_member(s, r))
<1>1. CASE Shut(s, r)
  <2>1. json_member(s, r) = r
    BY <1>1 DEF json_member, Shut, Ended
  <2>. QED BY <1>1, <2>1 DEF Reading
<1>2. CASE ~Shut(s, r)
  <2>0. Len(s) \in Nat
    BY LenProperties
  <2>1. PICK a : a = r.at
    OBVIOUS
  <2>2. /\ r.ok /\ a \in Nat \ {0} /\ a <= Len(s) + 1 /\ r.v \in SlotsRead /\ s[a - 1].t \in Begins
        /\ p + 1 + k <= a
    BY <1>2, <2>1 DEF Reading
  <2>3. PICK b \in Nat : \E value, kept :
          /\ Keyed(s, a, b, value) /\ kept = json_kept(r.v, s[a].key, value)
          /\ json_member(s, r) = Read(b + 1, kept)
          /\ Ended(s, b) => Whole(kept)
    BY <1>2, <2>1, <2>2, MemberIs
  <2>22. PICK value, kept :
          /\ Keyed(s, a, b, value) /\ kept = json_kept(r.v, s[a].key, value)
          /\ json_member(s, r) = Read(b + 1, kept)
          /\ Ended(s, b) => Whole(kept)
    BY <2>3
  <2>4. a + 2 <= b /\ b \in 1..Len(s)
    BY <2>22 DEF Keyed
  <2>21. ~Ended(s, b) => s[b].t \in Begins
    BY <2>22 DEF Keyed, Begins, Ended
  <2>5. PICK w : w = Read(b + 1, kept)
    OBVIOUS
  <2>6. w.ok /\ w.at = b + 1 /\ w.v = kept /\ w.at - 1 = b
    <3>1. (b + 1) - 1 = b
      OBVIOUS
    <3>. QED BY <2>5, <3>1 DEF Read
  <2>7. w.at \in Nat /\ w.at <= Len(s) + 1 /\ p + 1 + (k + 1) <= w.at /\ p + 1 < w.at
    BY <2>0, <2>2, <2>4, <2>6
  <2>8. Shut(s, w) = (Ended(s, b))
    BY <2>6 DEF Shut
  <2>9. Tip(s, w) = (IF Ended(s, b) THEN b ELSE b + 1)
    BY <2>6, <2>8 DEF Tip
  <2>10. /\ \A i \in a..b : Opened(s, i) \in Int /\ Opened(s, i) >= Opened(s, a)
         /\ \A i \in (a + 1)..b : Opened(s, i) = Opened(s, a) => s[i - 1].t \notin Begins
         /\ Opened(s, b + 1) = Opened(s, b) + (IF Ended(s, b) THEN -1 ELSE 0)
    BY <2>2, <2>22, KeyAcross
  <2>11. \A i \in (p + 1)..a : Opened(s, i) >= Opened(s, p) + 1
    BY <1>2, <2>1 DEF Reading, Tip
  <2>12. Opened(s, p) \in Int /\ Opened(s, a) \in Int /\ Opened(s, b) \in Int /\ Opened(s, a) >= Opened(s, p) + 1
    <3>1. p \in Nat \ {0} /\ a \in (p + 1)..a /\ a \in a..b /\ b \in a..b
      BY <2>2, <2>4
    <3>. QED BY <2>10, <2>11, <3>1, OpenedOn
  <2>13. Opened(s, Tip(s, w)) = Opened(s, b)
    <3>1. ~Ended(s, b) => Opened(s, b + 1) = Opened(s, b) + 0
      BY <2>10
    <3>2. Opened(s, b) + 0 = Opened(s, b)
      BY <2>12
    <3>. QED BY <2>9, <3>1, <3>2
  <2>14. Tip(s, w) = b \/ Tip(s, w) = b + 1
    BY <2>9
  <2>15. ASSUME NEW i \in (p + 1)..Tip(s, w) PROVE Opened(s, i) >= Opened(s, p) + 1
    <3>0. PICK z : z = Tip(s, w)
      OBVIOUS
    <3>1. i \in (p + 1)..a \/ i \in a..b \/ i = z
      BY <2>2, <2>4, <2>14, <2>15, <3>0
    <3>2. \A j \in a..b : Opened(s, j) >= Opened(s, p) + 1
      BY <2>10, <2>12
    <3>3. b \in a..b
      BY <2>2, <2>4
    <3>. QED BY <2>11, <2>13, <3>0, <3>1, <3>2, <3>3
  <2>16. kept \in SlotsRead /\ kept.minute = (IF s[a].key = "time" THEN s[a + 2].n ELSE r.v.minute)
         /\ kept.portions = (IF s[a].key = "portions" THEN s[a + 2].n ELSE r.v.portions)
    BY <2>2, <2>22, KeptIs
  <2>17. ASSUME Opened(s, Tip(s, w)) = Opened(s, p) + 1
         PROVE  /\ Told(s, Names(s, p, w.at), "time", kept.minute)
                /\ Told(s, Names(s, p, w.at), "portions", kept.portions)
    <3>1. Opened(s, a) = Opened(s, p) + 1
      <4>1. Opened(s, b) >= Opened(s, a)
        <5>1. b \in a..b
          BY <2>2, <2>4
        <5>. QED BY <2>10, <5>1
      <4>. QED BY <2>12, <2>13, <2>17, <4>1
    <3>2. /\ Told(s, Names(s, p, a), "time", r.v.minute)
          /\ Told(s, Names(s, p, a), "portions", r.v.portions)
      BY <1>2, <2>1, <3>1 DEF Reading, Tip
    <3>3. Names(s, p, b + 1) = Names(s, p, a) \cup {a}
      <4>1. ASSUME NEW i \in Names(s, p, b + 1), i \notin Names(s, p, a) PROVE i = a
        <5>1. i \in (p + 1)..((b + 1) - 1) /\ s[i - 1].t \in Begins /\ Opened(s, i) = Opened(s, p) + 1
          BY DEF Names
        <5>2. i \notin (p + 1)..(a - 1)
          BY <4>1, <5>1 DEF Names
        <5>3. i \notin (a + 1)..b
          BY <2>10, <3>1, <5>1
        <5>. QED BY <2>2, <2>4, <5>1, <5>2, <5>3
      <4>2. ASSUME NEW i \in Names(s, p, a) PROVE i \in Names(s, p, b + 1)
        <5>1. i \in (p + 1)..(a - 1) /\ s[i - 1].t \in Begins /\ Opened(s, i) = Opened(s, p) + 1
          BY DEF Names
        <5>2. i \in (p + 1)..((b + 1) - 1)
          BY <2>2, <2>4, <5>1
        <5>. QED BY <5>1, <5>2 DEF Names
      <4>3. a \in Names(s, p, b + 1)
        <5>1. a \in (p + 1)..((b + 1) - 1)
          BY <2>2, <2>4
        <5>. QED BY <2>2, <3>1, <5>1 DEF Names
      <4>. QED BY <4>1, <4>2, <4>3
    <3>4. \A i \in Names(s, p, a) : i \in Int /\ i < a
      BY <2>2 DEF Names
    <3>5. Told(s, Names(s, p, b + 1), "time", kept.minute)
      <4>1. CASE s[a].key = "time"
        <5>1. Told(s, Names(s, p, a) \cup {a}, "time", s[a + 2].n)
          <6>1. a \in Int
            BY <2>2
          <6>. QED BY <3>2, <3>4, <4>1, <6>1, ToldOn
        <5>2. kept.minute = s[a + 2].n
          BY <2>16, <4>1
        <5>. QED BY <3>3, <5>1, <5>2
      <4>2. CASE s[a].key # "time"
        BY <2>2, <2>16, <3>2, <3>3, <3>4, <4>2, ToldOn
      <4>. QED BY <4>1, <4>2
    <3>6. Told(s, Names(s, p, b + 1), "portions", kept.portions)
      <4>1. CASE s[a].key = "portions"
        <5>1. Told(s, Names(s, p, a) \cup {a}, "portions", s[a + 2].n)
          <6>1. a \in Int
            BY <2>2
          <6>. QED BY <3>2, <3>4, <4>1, <6>1, ToldOn
        <5>2. kept.portions = s[a + 2].n
          BY <2>16, <4>1
        <5>. QED BY <3>3, <5>1, <5>2
      <4>2. CASE s[a].key # "portions"
        BY <2>2, <2>16, <3>2, <3>3, <3>4, <4>2, ToldOn
      <4>. QED BY <4>1, <4>2
    <3>. QED BY <2>6, <3>5, <3>6
  <2>18. Shut(s, w) => Whole(w.v)
    BY <2>22, <2>6, <2>8
  <2>19. ~Shut(s, w) => s[w.at - 1].t \in Begins
    BY <2>21, <2>6, <2>8
  <2>20. Reading(s, p, k + 1, w)
    BY <2>6, <2>7, <2>15, <2>16, <2>17, <2>18, <2>19 DEF Reading
  <2>. QED BY <2>22, <2>5, <2>20
<1>. QED BY <1>1, <1>2
-----------------------------------------------------------------------------
\* One step of the reading of a meal, or of the list of them.
Step(s, list, r) == IF list THEN json_next(s, r) ELSE json_member(s, r)

WalkTo(f, s, list, first, n) ==
  f = [k \in 0..n |-> IF k = 0 THEN first ELSE Step(s, list, f[k - 1])]

\* The recursions the readers are written with have an answer.
LEMMA WalkExists ==
  ASSUME NEW s, NEW list, NEW first, NEW m \in Nat
  PROVE  \E f : WalkTo(f, s, list, first, m)
<1>. DEFINE S == {n \in Nat : \E f : WalkTo(f, s, list, first, n)}
<1>1. 0 \in S
  <2>. DEFINE f == [k \in 0..0 |-> first]
  <2>1. \A k \in 0..0 : k = 0
    OBVIOUS
  <2>2. WalkTo(f, s, list, first, 0)
    BY <2>1 DEF WalkTo
  <2>3. \E g : WalkTo(g, s, list, first, 0)
    BY <2>2
  <2>. QED BY <2>3
<1>2. ASSUME NEW n \in S PROVE n + 1 \in S
  <2>1. n \in Nat /\ \E f : WalkTo(f, s, list, first, n)
    OBVIOUS
  <2>2. PICK f : WalkTo(f, s, list, first, n)
    BY <2>1
  <2>. DEFINE g == [k \in 0..(n + 1) |-> IF k = n + 1 THEN Step(s, list, f[n]) ELSE f[k]]
  <2>3. \A k \in 0..n : g[k] = f[k]
    <3>1. \A k \in 0..n : k \in 0..(n + 1) /\ k # n + 1
      BY <2>1
    <3>. QED BY <3>1
  <2>4. \A k \in 0..n : f[k] = IF k = 0 THEN first ELSE Step(s, list, f[k - 1])
    BY <2>2 DEF WalkTo
  <2>5. \A k \in 0..(n + 1) : g[k] = IF k = 0 THEN first ELSE Step(s, list, g[k - 1])
    <3>1. TAKE k \in 0..(n + 1)
    <3>2. CASE k = n + 1
      <4>1. n \in 0..n /\ n + 1 \in 0..(n + 1) /\ n + 1 # 0 /\ (n + 1) - 1 = n
        BY <2>1
      <4>2. g[n + 1] = Step(s, list, f[n]) /\ g[n] = f[n]
        BY <2>3, <4>1
      <4>. QED BY <3>2, <4>1, <4>2
    <3>3. CASE k # n + 1
      <4>1. k \in 0..n /\ (k # 0 => k - 1 \in 0..n)
        BY <2>1, <3>3
      <4>. QED BY <2>3, <2>4, <4>1
    <3>. QED BY <3>2, <3>3
  <2>6. g = [k \in 0..(n + 1) |-> IF k = 0 THEN first ELSE Step(s, list, g[k - 1])]
    <3>1. DOMAIN g = 0..(n + 1) /\ g = [k \in 0..(n + 1) |-> g[k]]
      OBVIOUS
    <3>. HIDE DEF g
    <3>. QED BY <2>5, <3>1
  <2>7. \E h : WalkTo(h, s, list, first, n + 1)
    <3>. HIDE DEF g
    <3>1. WalkTo(g, s, list, first, n + 1)
      BY <2>6 DEF WalkTo
    <3>. QED BY <3>1
  <2>8. n + 1 \in Nat
    BY <2>1
  <2>. QED BY <2>7, <2>8
<1>3. S = Nat
  <2>1. S \in SUBSET Nat
    OBVIOUS
  <2>. HIDE DEF S
  <2>. QED BY <1>1, <1>2, <2>1, Induction
<1>. QED BY <1>3

\* How far a reading gets in each of its steps.
Walking(f, s, list, first) == f[0] = first /\ \A k \in 1..Len(s) : f[k] = Step(s, list, f[k - 1])

LEMMA WalkIs ==
  ASSUME NEW f, NEW s, NEW list, NEW first, Len(s) \in Nat, WalkTo(f, s, list, first, Len(s))
  PROVE  Walking(f, s, list, first)
<1>1. \A k \in 0..Len(s) : f[k] = IF k = 0 THEN first ELSE Step(s, list, f[k - 1])
  BY DEF WalkTo
<1>2. 0 \in 0..Len(s) /\ \A k \in 1..Len(s) : k \in 0..Len(s) /\ k # 0
  OBVIOUS
<1>. QED BY <1>1, <1>2 DEF Walking

NoKeys == [minute |-> -1, portions |-> -1]

\* A meal is read key by key,
LEMMA SlotWalk ==
  ASSUME NEW s, Len(s) \in Nat, NEW p, PeekAt(s, p) = "{"
  PROVE  \E f : Walking(f, s, FALSE, Read(p + 1, NoKeys)) /\ json_slot(s, p) = f[Len(s)]
<1>. DEFINE f == CHOOSE g : WalkTo(g, s, FALSE, Read(p + 1, NoKeys), Len(s))
<1>1. WalkTo(f, s, FALSE, Read(p + 1, NoKeys), Len(s))
  BY WalkExists
<1>2. json_slot(s, p) = f[Len(s)]
  BY DEF json_slot, WalkTo, Step, NoKeys
<1>. HIDE DEF f
<1>. QED BY <1>1, <1>2, WalkIs

\* and a list meal by meal.
LEMMA ListWalk ==
  ASSUME NEW s, Len(s) \in Nat
  PROVE  \E f : Walking(f, s, TRUE, Read(2, <<>>)) /\ json_slots(s) = f[Len(s)]
<1>. DEFINE f == CHOOSE g : WalkTo(g, s, TRUE, Read(2, <<>>), Len(s))
<1>1. WalkTo(f, s, TRUE, Read(2, <<>>), Len(s))
  BY WalkExists
<1>2. json_slots(s) = f[Len(s)]
  BY DEF json_slots, WalkTo, Step
<1>. HIDE DEF f
<1>. QED BY <1>1, <1>2, WalkIs

\* What has failed stays so: a reading that succeeds had not failed before.
LEMMA AllRead ==
  ASSUME NEW f, NEW s, NEW list \in BOOLEAN, NEW first, Len(s) \in Nat, Walking(f, s, list, first),
         f[Len(s)].ok
  PROVE  \A k \in 0..Len(s) : f[k].ok
<1>. DEFINE S == {n \in Nat : n <= Len(s) => f[Len(s) - n].ok}
<1>1. 0 \in S
  <2>1. Len(s) - 0 = Len(s)
    OBVIOUS
  <2>. QED BY <2>1
<1>2. ASSUME NEW n \in S PROVE n + 1 \in S
  <2>. SUFFICES ASSUME n + 1 <= Len(s) PROVE f[Len(s) - (n + 1)].ok
    OBVIOUS
  <2>1. PICK k : k = Len(s) - n
    OBVIOUS
  <2>2. k \in 1..Len(s) /\ k - 1 = Len(s) - (n + 1) /\ n <= Len(s)
    BY <2>1
  <2>3. f[k].ok
    BY <2>1, <2>2
  <2>4. f[k] = Step(s, list, f[k - 1])
    BY <2>2 DEF Walking
  <2>5. ~f[k - 1].ok => Step(s, list, f[k - 1]) = f[k - 1]
    BY DEF Step, json_member, json_next
  <2>. QED BY <2>2, <2>3, <2>4, <2>5
<1>3. S = Nat
  <2>1. S \in SUBSET Nat
    OBVIOUS
  <2>. HIDE DEF S
  <2>. QED BY <1>1, <1>2, <2>1, Induction
<1>4. TAKE k \in 0..Len(s)
<1>5. Len(s) - k \in Nat /\ Len(s) - k <= Len(s) /\ Len(s) - (Len(s) - k) = k
  OBVIOUS
<1>6. Len(s) - k \in S
  BY <1>3, <1>5
<1>. QED BY <1>5, <1>6

\* A meal that was read, from the brace that opens it to the one that closes it.
MealRead(s, p, r) ==
  /\ p \in 1..Len(s) /\ Begun(s, p)
  /\ r.ok /\ r.at \in Nat /\ p + 1 < r.at /\ r.at <= Len(s) + 1 /\ Ended(s, r.at - 1)
  /\ r.v \in SlotsRead /\ Whole(r.v)
  /\ \A i \in (p + 1)..(r.at - 1) : Opened(s, i) >= Opened(s, p) + 1
  /\ Opened(s, r.at - 1) = Opened(s, p) + 1 =>
       /\ Told(s, Names(s, p, r.at), "time", r.v.minute)
       /\ Told(s, Names(s, p, r.at), "portions", r.v.portions)

LEMMA MealIs ==
  ASSUME NEW s \in Seq(Token), NEW p \in Nat \ {0}, json_slot(s, p).ok
  PROVE  MealRead(s, p, json_slot(s, p))
<1>0. Len(s) \in Nat
  BY LenProperties
<1>1. PeekAt(s, p) = "{"
  BY DEF json_slot, Bad
<1>2. p \in 1..Len(s) /\ Begun(s, p)
  BY <1>1, PeekIs DEF Begun
<1>3. PICK f : Walking(f, s, FALSE, Read(p + 1, NoKeys)) /\ json_slot(s, p) = f[Len(s)]
  BY <1>0, <1>1, SlotWalk
<1>4. \A k \in 0..Len(s) : f[k].ok
  BY <1>0, <1>3, AllRead
<1>. DEFINE S == {n \in Nat : n <= Len(s) => Reading(s, p, n, f[n])}
<1>5. S = Nat
  <2>1. 0 \in S
    BY <1>2, <1>3, ReadingFirst DEF Walking, NoKeys
  <2>2. ASSUME NEW n \in S PROVE n + 1 \in S
    <3>. SUFFICES ASSUME n + 1 <= Len(s) PROVE Reading(s, p, n + 1, f[n + 1])
      OBVIOUS
    <3>1. n + 1 \in 1..Len(s) /\ (n + 1) - 1 = n /\ n + 1 \in 0..Len(s) /\ n \in Nat
      BY <1>0
    <3>2. Reading(s, p, n, f[n])
      <4>1. n <= Len(s)
        BY <1>0
      <4>. QED BY <4>1
    <3>3. f[n + 1] = json_member(s, f[n])
      BY <1>3, <3>1 DEF Walking, Step
    <3>4. json_member(s, f[n]).ok
      BY <1>4, <3>1, <3>3
    <3>. QED BY <1>2, <3>1, <3>2, <3>3, <3>4, ReadingOn
  <2>3. S \in SUBSET Nat
    OBVIOUS
  <2>. HIDE DEF S
  <2>. QED BY <2>1, <2>2, <2>3, Induction
<1>6. Reading(s, p, Len(s), f[Len(s)])
  <2>1. Len(s) \in S
    BY <1>0, <1>5
  <2>. QED BY <1>0, <2>1
<1>7. PICK r : r = f[Len(s)]
  OBVIOUS
<1>8. Shut(s, r)
  <2>. SUFFICES ASSUME ~Shut(s, r) PROVE FALSE
    OBVIOUS
  <2>1. p + 1 + Len(s) <= r.at /\ r.at <= Len(s) + 1 /\ r.at \in Nat
    BY <1>6, <1>7 DEF Reading
  <2>. QED BY <1>0, <2>1
<1>9. MealRead(s, p, r)
  BY <1>2, <1>6, <1>7, <1>8 DEF Reading, MealRead, Shut, Tip
<1>. QED BY <1>3, <1>7, <1>9
-----------------------------------------------------------------------------
\* What a key says is what its last says.
LEMMA SaidIs ==
  ASSUME NEW s, NEW m, Keys(s, m) \subseteq Int, NEW key, NEW x, x # -1, Told(s, Keys(s, m), key, x)
  PROVE  x = Said(s, m, key)
<1>. DEFINE K == Keys(s, m)
            named == {i \in K : s[i].key = key}
            last == CHOOSE i \in named : \A j \in named : j <= i
<1>1. PICK i \in K : s[i].key = key /\ (\A j \in K : s[j].key = key => j <= i) /\ x = s[i + 2].n
  BY DEF Told
<1>2. i \in named /\ \A j \in named : j <= i
  BY <1>1
<1>3. last \in named /\ \A j \in named : j <= last
  BY <1>2
<1>4. last = i
  <2>1. last \in Int /\ i \in Int /\ last <= i /\ i <= last
    BY <1>2, <1>3
  <2>. HIDE DEF last
  <2>. QED BY <2>1
<1>5. Said(s, m, key) = s[last + 2].n
  BY DEF Said
<1>. HIDE DEF last
<1>. QED BY <1>1, <1>4, <1>5

\* Past a meal the depth is no less than before it, and the meal's own if it is not more.
LEMMA MealAcross ==
  ASSUME NEW s \in Seq(Token), NEW p, NEW r, MealRead(s, p, r)
  PROVE  /\ Opened(s, p) \in Int /\ Opened(s, r.at) \in Int
         /\ \A i \in p..r.at : Opened(s, i) >= Opened(s, p)
         /\ \A i \in (p + 1)..(r.at - 1) : Opened(s, i) >= Opened(s, p) + 1
         /\ Opened(s, r.at - 1) = Opened(s, r.at) + 1
<1>0. Len(s) \in Nat /\ p \in Nat \ {0} /\ r.at \in Nat /\ p + 1 < r.at
  BY LenProperties DEF MealRead
<1>1. PICK q : q = r.at - 1
  OBVIOUS
<1>2. q \in Nat \ {0} /\ q + 1 = r.at /\ p + 1 <= q
  BY <1>0, <1>1
<1>3. Opened(s, q + 1) = Opened(s, q) - 1 /\ Opened(s, q) \in Int /\ Opened(s, q + 1) \in Int
  <2>1. Deeper(s, q) = -1
    BY <1>1 DEF MealRead, Ended, Deeper, Open, Close
  <2>. QED BY <1>2, <2>1, OpenedOn
<1>4. Opened(s, p) \in Int
  BY <1>0, OpenedOn
<1>5. \A i \in (p + 1)..q : Opened(s, i) >= Opened(s, p) + 1
  BY <1>1 DEF MealRead
<1>6. ASSUME NEW i \in p..(q + 1) PROVE Opened(s, i) >= Opened(s, p)
  <2>1. i = p \/ i \in (p + 1)..q \/ i = q + 1
    BY <1>0, <1>2
  <2>2. ASSUME NEW j \in (p + 1)..q PROVE Opened(s, j) >= Opened(s, p)
    <3>1. Opened(s, j) >= Opened(s, p) + 1
      BY <1>5
    <3>2. Opened(s, j) \in Int
      <4>1. j \in Nat \ {0}
        BY <1>0
      <4>. QED BY <4>1, OpenedOn
    <3>. QED BY <1>4, <3>1, <3>2
  <2>3. Opened(s, q + 1) >= Opened(s, p)
    <3>1. q \in (p + 1)..q
      BY <1>0, <1>2
    <3>2. Opened(s, q) >= Opened(s, p) + 1
      BY <1>5, <3>1
    <3>. QED BY <1>3, <1>4, <3>2
  <2>4. Opened(s, p) >= Opened(s, p)
    BY <1>4
  <2>. QED BY <2>1, <2>2, <2>3, <2>4
<1>7. Opened(s, q) = Opened(s, q + 1) + 1
  BY <1>3
<1>. QED BY <1>1, <1>2, <1>3, <1>4, <1>5, <1>6, <1>7

\* The keys of a meal of the list's own depth are those that were met.
LEMMA KeysAre ==
  ASSUME NEW s \in Seq(Token), NEW p, NEW r, MealRead(s, p, r), Opened(s, p) = 1, Opened(s, r.at) = 1
  PROVE  Keys(s, p) = Names(s, p, r.at)
<1>0. Len(s) \in Nat /\ p \in Nat \ {0} /\ r.at \in Nat /\ p + 1 < r.at /\ r.at <= Len(s) + 1
  BY LenProperties DEF MealRead
<1>1. \A i \in (p + 1)..(r.at - 1) : Opened(s, i) >= 2
  BY MealAcross
<1>2. ASSUME NEW i \in Keys(s, p) PROVE i \in Names(s, p, r.at)
  <2>1. /\ i \in 1..Len(s) /\ p < i /\ s[i - 1].t \in Begins /\ Opened(s, i) = 2
        /\ \A j \in (p + 1)..i : Opened(s, j) >= 2
    BY LenProperties DEF Keys, Begins
  <2>2. ~(r.at <= i)
    <3>. SUFFICES ASSUME r.at <= i PROVE FALSE
      OBVIOUS
    <3>1. r.at \in (p + 1)..i
      BY <1>0, <2>1
    <3>2. Opened(s, r.at) >= 2
      BY <2>1, <3>1
    <3>. QED BY <3>2
  <2>3. i \in (p + 1)..(r.at - 1)
    BY <1>0, <2>1, <2>2
  <2>. QED BY <2>1, <2>3 DEF Names
<1>3. ASSUME NEW i \in Names(s, p, r.at) PROVE i \in Keys(s, p)
  <2>1. i \in (p + 1)..(r.at - 1) /\ s[i - 1].t \in Begins /\ Opened(s, i) = 2
    BY DEF Names
  <2>2. i \in 1..Len(s) /\ p < i
    BY <1>0, <2>1
  <2>3. \A j \in (p + 1)..i : Opened(s, j) >= 2
    <3>1. \A j \in (p + 1)..i : j \in (p + 1)..(r.at - 1)
      BY <1>0, <2>1
    <3>. QED BY <1>1, <3>1
  <2>4. i \in DOMAIN s
    BY <2>2, LenProperties
  <2>. QED BY <2>1, <2>2, <2>3, <2>4 DEF Keys, Begins
<1>. QED BY <1>2, <1>3

\* Such a meal is what the text says.
LEMMA MealSaid ==
  ASSUME NEW s \in Seq(Token), NEW p, NEW r, MealRead(s, p, r), Opened(s, p) = 1, Opened(s, r.at) = 1
  PROVE  r.v = [minute |-> Said(s, p, "time"), portions |-> Said(s, p, "portions")]
<1>1. Keys(s, p) = Names(s, p, r.at) /\ Keys(s, p) \subseteq Int
  <2>1. Names(s, p, r.at) \subseteq Int
    <3>1. p \in Nat /\ r.at \in Nat
      BY DEF MealRead
    <3>. QED BY <3>1 DEF Names
  <2>. QED BY <2>1, KeysAre
<1>2. Opened(s, r.at - 1) = Opened(s, p) + 1
  BY MealAcross
<1>3. /\ Told(s, Keys(s, p), "time", r.v.minute)
      /\ Told(s, Keys(s, p), "portions", r.v.portions)
  BY <1>1, <1>2 DEF MealRead
<1>4. r.v.minute # -1 /\ r.v.portions # -1 /\ r.v \in SlotsRead
  BY DEF MealRead, Whole
<1>5. r.v.minute = Said(s, p, "time") /\ r.v.portions = Said(s, p, "portions")
  BY <1>1, <1>3, <1>4, SaidIs
<1>. QED BY <1>4, <1>5 DEF SlotsRead
-----------------------------------------------------------------------------
\* Of v, the meals are those that open in M, in their order.
AsHeard(s, M, v) ==
  /\ Len(v) = Cardinality(M)
  /\ \A m \in M :
       v[Cardinality({j \in M : j <= m})]
         = [minute |-> Said(s, m, "time"), portions |-> Said(s, m, "portions")]

\* One more, after all of them.
LEMMA HeardOn ==
  ASSUME NEW s, NEW M \in SUBSET Int, IsFiniteSet(M), NEW p \in Int, \A m \in M : m < p,
         NEW T, NEW v \in Seq(T), AsHeard(s, M, v),
         NEW x \in T, x = [minute |-> Said(s, p, "time"), portions |-> Said(s, p, "portions")]
  PROVE  AsHeard(s, M \cup {p}, Append(v, x))
<1>1. p \notin M
  <2>1. ~(p < p)
    OBVIOUS
  <2>. QED BY <2>1
<1>2. Cardinality(M \cup {p}) = Cardinality(M) + 1 /\ Cardinality(M) \in Nat
  BY <1>1, FS_AddElement, FS_CardinalityType
<1>3. Len(v) = Cardinality(M) /\ Len(v) \in Nat
  BY LenProperties DEF AsHeard
<1>4. /\ Len(Append(v, x)) = Len(v) + 1 /\ Append(v, x)[Len(v) + 1] = x
      /\ \A i \in 1..Len(v) : Append(v, x)[i] = v[i]
  BY AppendProperties
<1>5. ASSUME NEW m \in M
      PROVE  /\ {j \in M \cup {p} : j <= m} = {j \in M : j <= m}
             /\ Cardinality({j \in M : j <= m}) \in 1..Len(v)
  <2>1. ~(p <= m)
    <3>1. m < p /\ m \in Int
      OBVIOUS
    <3>. QED BY <3>1
  <2>2. {j \in M \cup {p} : j <= m} = {j \in M : j <= m}
    BY <2>1
  <2>. DEFINE B == {j \in M : j <= m}
  <2>3. B \subseteq M /\ IsFiniteSet(B) /\ Cardinality(B) \in Nat /\ Cardinality(B) <= Cardinality(M)
    <3>1. B \subseteq M
      OBVIOUS
    <3>. HIDE DEF B
    <3>. QED BY <3>1, FS_Subset, FS_CardinalityType
  <2>4. Cardinality(B) # 0
    <3>1. m \in B
      <4>1. m <= m
        OBVIOUS
      <4>. QED BY <4>1
    <3>. HIDE DEF B
    <3>. QED BY <2>3, <3>1, FS_EmptySet
  <2>5. Cardinality(B) \in 1..Len(v)
    <3>. HIDE DEF B
    <3>. QED BY <1>3, <2>3, <2>4
  <2>. QED BY <2>2, <2>5
<1>6. {j \in M \cup {p} : j <= p} = M \cup {p}
  <2>1. p <= p /\ \A m \in M : m <= p
    OBVIOUS
  <2>. QED BY <2>1
<1>7. ASSUME NEW m \in M \cup {p}
      PROVE  Append(v, x)[Cardinality({j \in M \cup {p} : j <= m})]
               = [minute |-> Said(s, m, "time"), portions |-> Said(s, m, "portions")]
  <2>1. CASE m \in M
    <3>1. v[Cardinality({j \in M : j <= m})]
            = [minute |-> Said(s, m, "time"), portions |-> Said(s, m, "portions")]
      BY <2>1 DEF AsHeard
    <3>2. PICK c : c = Cardinality({j \in M : j <= m})
      OBVIOUS
    <3>3. c = Cardinality({j \in M \cup {p} : j <= m}) /\ c \in 1..Len(v)
      BY <1>5, <2>1, <3>2
    <3>4. Append(v, x)[c] = v[c]
      BY <1>4, <3>3
    <3>. QED BY <3>1, <3>2, <3>3, <3>4
  <2>2. CASE m = p
    <3>1. Cardinality({j \in M \cup {p} : j <= m}) = Len(v) + 1
      BY <1>2, <1>3, <1>6, <2>2
    <3>. QED BY <1>4, <2>2, <3>1
  <2>. QED BY <2>1, <2>2
<1>8. Len(Append(v, x)) = Cardinality(M \cup {p})
  BY <1>2, <1>3, <1>4
<1>. QED BY <1>7, <1>8 DEF AsHeard
-----------------------------------------------------------------------------
\* A list whose bracket has closed, and how far it was read.
Finished(s, l) == s[l.at - 1].t = "]"
Edge(s, l) == IF Finished(s, l) THEN l.at - 1 ELSE l.at

\* The meals that open before n.
Until(s, n) == {i \in 2..(n - 1) : Begun(s, i) /\ Opened(s, i) = 1}

MealsRead == [minute : 0..1439, portions : 0..255]

\* A list of which k meals were read, or all.
Listing(s, k, l) ==
  /\ l.ok /\ l.at \in Nat /\ l.at <= Len(s) + 1 /\ 2 <= l.at
  /\ l.v \in Seq(MealsRead) /\ Len(l.v) <= MAX_SLOTS
  /\ Finished(s, l) => l.at = Len(s) + 1
  /\ ~Finished(s, l) => 2 + k <= l.at
  /\ \A i \in 2..Edge(s, l) : Opened(s, i) >= 1
  /\ Opened(s, Edge(s, l)) = 1 => AsHeard(s, Until(s, l.at), l.v)

\* Before its first meal.
LEMMA ListingFirst ==
  ASSUME NEW s \in Seq(Token), PeekAt(s, 1) = "[", MAX_SLOTS \in Nat
  PROVE  Listing(s, 0, Read(2, <<>>))
<1>0. Len(s) \in Nat
  BY LenProperties
<1>1. PICK l : l = Read(2, <<>>)
  OBVIOUS
<1>2. l.ok /\ l.at = 2 /\ l.v = <<>>
  BY <1>1 DEF Read
<1>3. 1 \in 1..Len(s) /\ s[1].t = "["
  BY PeekIs
<1>4. l.at \in Nat /\ l.at <= Len(s) + 1 /\ 2 <= l.at /\ 2 + 0 <= l.at /\ l.at - 1 = 1
  BY <1>0, <1>2, <1>3
<1>5. ~Finished(s, l) /\ Edge(s, l) = 2
  BY <1>2, <1>3, <1>4 DEF Finished, Edge
<1>6. Opened(s, 2) = 1
  <2>1. Deeper(s, 1) = 1
    BY <1>3 DEF Deeper, Open
  <2>2. Opened(s, 1) = 0 /\ Opened(s, 1 + 1) = Opened(s, 1) + Deeper(s, 1)
    BY OpenedFirst, OpenedOn
  <2>. QED BY <2>1, <2>2
<1>7. \A i \in 2..2 : Opened(s, i) >= 1
  <2>1. \A i \in 2..2 : i = 2
    OBVIOUS
  <2>. QED BY <1>6, <2>1
<1>8. AsHeard(s, Until(s, l.at), l.v)
  <2>1. Until(s, 2) = {}
    BY DEF Until
  <2>2. Cardinality({}) = 0
    BY FS_EmptySet
  <2>. QED BY <1>2, <2>1, <2>2 DEF AsHeard
<1>9. l.v \in Seq(MealsRead) /\ Len(l.v) <= MAX_SLOTS
  <2>1. <<>> \in Seq(MealsRead) /\ Len(<<>>) <= MAX_SLOTS
    OBVIOUS
  <2>. QED BY <1>2, <2>1
<1>10. Listing(s, 0, l)
  BY <1>2, <1>4, <1>5, <1>7, <1>8, <1>9 DEF Listing
<1>. QED BY <1>1, <1>10

\* A meal that is read is added, and a comma or the bracket follows.
Added(s, l, r, w) ==
  /\ MealRead(s, l.at, r) /\ r.v \in MealsRead /\ r.at \in 1..Len(s) /\ s[r.at].t \in {",", "]"}
  /\ w = Read(r.at + 1, Append(l.v, r.v)) /\ Len(l.v) + 1 <= MAX_SLOTS
  /\ s[r.at].t = "]" => r.at = Len(s)

LEMMA NextIs ==
  ASSUME NEW s \in Seq(Token), MAX_SLOTS \in Nat, NEW l, l.ok, ~Finished(s, l), l.at \in Nat \ {0},
         l.v \in Seq(MealsRead), json_next(s, l).ok
  PROVE  /\ json_slot(s, l.at).ok
         /\ Added(s, l, json_slot(s, l.at), json_next(s, l))
<1>0. Len(s) \in Nat
  BY LenProperties
<1>1. PICK r, v : r = json_slot(s, l.at) /\ v = Append(l.v, r.v)
  OBVIOUS
<1>2. json_next(s, l) = json_pushed(s, r, v)
  BY <1>1 DEF json_next, Finished, Push
<1>3. r.ok
  BY <1>2 DEF json_pushed
<1>4. MealRead(s, l.at, r)
  BY <1>1, <1>3, MealIs
<1>5. r.at \in Nat \ {0} /\ r.at + 1 \in Nat \ {0}
  <2>1. r.at \in Nat /\ l.at + 1 < r.at
    BY <1>4 DEF MealRead
  <2>. QED BY <2>1
<1>6. r.v \in MealsRead
  <2>1. r.v \in SlotsRead /\ ~(r.v.minute < 0) /\ ~(r.v.portions < 0)
    BY <1>4 DEF MealRead, Whole
  <2>2. PICK m, p : m = r.v.minute /\ p = r.v.portions
    OBVIOUS
  <2>3. m \in -1..1439 /\ p \in -1..255 /\ r.v = [minute |-> m, portions |-> p]
    BY <2>1, <2>2 DEF SlotsRead
  <2>4. m \in 0..1439 /\ p \in 0..255
    <3>1. ~(m < 0) /\ ~(p < 0)
      BY <2>1, <2>2
    <3>2. m \in -1..1439 /\ p \in -1..255
      BY <2>3
    <3>. QED BY <3>1, <3>2
  <2>. QED BY <2>3, <2>4 DEF MealsRead
<1>7. Len(v) = Len(l.v) + 1 /\ Len(v) \in Nat
  BY <1>1, <1>6, AppendProperties, LenProperties
<1>8. Len(v) <= MAX_SLOTS /\ ~(Len(v) > MAX_SLOTS)
  <2>1. ~(Len(v) > MAX_SLOTS)
    <3>. SUFFICES ASSUME Len(v) > MAX_SLOTS PROVE FALSE
      OBVIOUS
    <3>1. ~(Len(v) <= MAX_SLOTS)
      BY <1>7
    <3>2. json_pushed(s, r, v) = Bad("TooManySlots")
      BY <1>3, <3>1 DEF json_pushed
    <3>. QED BY <1>2, <3>2 DEF Bad
  <2>. QED BY <1>7, <2>1
<1>9. PeekAt(s, r.at) \in {",", "]"}
  <2>. SUFFICES ASSUME PeekAt(s, r.at) # ",", PeekAt(s, r.at) # "]" PROVE FALSE
    OBVIOUS
  <2>1. json_pushed(s, r, v) = Bad("Malformed")
    BY <1>3, <1>8 DEF json_pushed
  <2>2. json_next(s, l) = Bad("Malformed")
    BY <1>2, <2>1
  <2>3. ~Bad("Malformed").ok
    BY DEF Bad
  <2>. QED BY <2>2, <2>3
<1>10. r.at \in 1..Len(s) /\ s[r.at].t = PeekAt(s, r.at)
  <2>1. PeekAt(s, r.at) # "end"
    BY <1>9
  <2>. QED BY <1>5, <2>1, PeekIs
<1>11. CASE PeekAt(s, r.at) = ","
  <2>1. json_next(s, l) = Read(r.at + 1, v)
    BY <1>2, <1>3, <1>8, <1>11 DEF json_pushed
  <2>2. s[r.at].t # "]"
    BY <1>10, <1>11
  <2>. QED BY <1>1, <1>3, <1>4, <1>6, <1>7, <1>8, <1>9, <1>10, <2>1, <2>2 DEF Added
<1>12. CASE PeekAt(s, r.at) = "]"
  <2>1. json_next(s, l) = json_end(s, r.at + 1, v)
    BY <1>2, <1>3, <1>8, <1>12 DEF json_pushed
  <2>2. PeekAt(s, r.at + 1) = "end"
    BY <2>1 DEF json_end, Bad
  <2>3. json_next(s, l) = Read(r.at + 1, v)
    BY <2>1, <2>2 DEF json_end
  <2>4. r.at = Len(s)
    <3>1. r.at + 1 > Len(s)
      BY <1>5, <2>2, PeekIs
    <3>. QED BY <1>0, <1>10, <3>1
  <2>. QED BY <1>1, <1>3, <1>4, <1>6, <1>7, <1>8, <1>9, <1>10, <2>3, <2>4 DEF Added
<1>. QED BY <1>9, <1>11, <1>12

\* Every meal that is read leaves it so.
LEMMA ListingOn ==
  ASSUME NEW s \in Seq(Token), MAX_SLOTS \in Nat, NEW k \in Nat, NEW l, Listing(s, k, l),
         json_next(s, l).ok
  PROVE  Listing(s, k + 1, json_next(s, l))
<1>1. CASE Finished(s, l)
  <2>1. json_next(s, l) = l
    BY <1>1 DEF json_next, Finished
  <2>. QED BY <1>1, <2>1 DEF Listing
<1>2. CASE ~Finished(s, l)
  <2>0. Len(s) \in Nat
    BY LenProperties
  <2>1. PICK p, r, w : p = l.at /\ r = json_slot(s, l.at) /\ w = json_next(s, l)
    OBVIOUS
  <2>2. l.ok /\ p \in Nat \ {0} /\ 2 <= p /\ 2 + k <= p /\ l.v \in Seq(MealsRead)
    BY <1>2, <2>1 DEF Listing
  <2>3. Added(s, l, r, w)
    BY <1>2, <2>1, <2>2, NextIs
  <2>4. MealRead(s, p, r)
    BY <2>1, <2>3 DEF Added
  <2>5. PICK c : c = r.at
    OBVIOUS
  <2>6. c \in 1..Len(s) /\ c \in Nat \ {0} /\ p + 1 < c
    <3>1. c \in 1..Len(s) /\ p + 1 < c
      BY <2>3, <2>4, <2>5 DEF Added, MealRead
    <3>. QED BY <3>1
  <2>7. w.ok /\ w.at = c + 1 /\ w.v = Append(l.v, r.v) /\ w.at - 1 = c
    <3>1. (c + 1) - 1 = c
      BY <2>6
    <3>. QED BY <2>3, <2>5, <3>1 DEF Added, Read
  <2>8. w.at \in Nat /\ w.at <= Len(s) + 1 /\ 2 <= w.at /\ 2 + (k + 1) <= w.at
    BY <2>0, <2>2, <2>6, <2>7
  <2>9. w.v \in Seq(MealsRead) /\ Len(w.v) <= MAX_SLOTS
    <3>1. r.v \in MealsRead /\ Len(l.v) + 1 <= MAX_SLOTS
      BY <2>3 DEF Added
    <3>. QED BY <2>2, <2>7, <3>1, AppendProperties
  <2>10. Finished(s, w) = (s[c].t = "]")
    BY <2>7 DEF Finished
  <2>11. Finished(s, w) => w.at = Len(s) + 1
    BY <2>3, <2>5, <2>7, <2>10 DEF Added
  <2>12. Edge(s, w) = c \/ (Edge(s, w) = c + 1 /\ s[c].t = ",")
    BY <2>3, <2>5, <2>7, <2>10 DEF Edge, Added
  <2>13. /\ Opened(s, p) \in Int /\ Opened(s, c) \in Int
         /\ \A i \in p..c : Opened(s, i) >= Opened(s, p)
         /\ \A i \in (p + 1)..(c - 1) : Opened(s, i) >= Opened(s, p) + 1
    BY <2>4, <2>5, MealAcross
  <2>14. Opened(s, Edge(s, w)) = Opened(s, c)
    <3>1. ASSUME s[c].t = "," PROVE Opened(s, c + 1) = Opened(s, c)
      <4>1. Deeper(s, c) = 0
        BY <3>1 DEF Deeper, Open, Close
      <4>. QED BY <2>6, <2>13, <4>1, OpenedOn
    <3>. QED BY <2>12, <3>1
  <2>15. \A i \in 2..p : Opened(s, i) >= 1
    BY <1>2, <2>1 DEF Listing, Edge
  <2>16. Opened(s, p) >= 1 /\ Opened(s, c) >= Opened(s, p)
    <3>1. p \in 2..p /\ c \in p..c
      BY <2>2, <2>6
    <3>. QED BY <2>13, <2>15, <3>1
  <2>17. ASSUME NEW i \in 2..Edge(s, w) PROVE Opened(s, i) >= 1
    <3>0. PICK z : z = Edge(s, w)
      OBVIOUS
    <3>1. z = c \/ z = c + 1
      BY <2>12, <3>0
    <3>2. i \in 2..p \/ i \in p..c \/ i = z
      BY <2>2, <2>6, <2>17, <3>0, <3>1
    <3>3. ASSUME NEW j \in p..c PROVE Opened(s, j) >= 1
      <4>1. Opened(s, j) >= Opened(s, p)
        BY <2>13
      <4>2. Opened(s, j) \in Int
        <5>1. j \in Nat \ {0}
          BY <2>2
        <5>. QED BY <5>1, OpenedOn
      <4>. QED BY <2>13, <2>16, <4>1, <4>2
    <3>4. Opened(s, z) >= 1
      BY <2>13, <2>14, <2>16, <3>0
    <3>. QED BY <2>15, <3>2, <3>3, <3>4
  <2>18. ASSUME Opened(s, Edge(s, w)) = 1 PROVE AsHeard(s, Until(s, w.at), w.v)
    <3>1. Opened(s, p) = 1 /\ Opened(s, c) = 1
      BY <2>13, <2>14, <2>16, <2>18
    <3>2. AsHeard(s, Until(s, p), l.v)
      BY <1>2, <2>1, <3>1 DEF Listing, Edge
    <3>3. r.v = [minute |-> Said(s, p, "time"), portions |-> Said(s, p, "portions")]
      BY <2>4, <2>5, <3>1, MealSaid
    <3>4. Until(s, c + 1) = Until(s, p) \cup {p}
      <4>1. ASSUME NEW i \in Until(s, c + 1), i \notin Until(s, p) PROVE i = p
        <5>1. i \in 2..((c + 1) - 1) /\ Begun(s, i) /\ Opened(s, i) = 1
          BY DEF Until
        <5>2. i \notin 2..(p - 1)
          BY <4>1, <5>1 DEF Until
        <5>3. i # c
          BY <2>3, <2>5, <5>1 DEF Added, Begun
        <5>4. i \notin (p + 1)..(c - 1)
          <6>. SUFFICES ASSUME i \in (p + 1)..(c - 1) PROVE FALSE
            OBVIOUS
          <6>1. Opened(s, i) >= 2
            BY <2>13, <3>1
          <6>. QED BY <5>1, <6>1
        <5>. QED BY <2>2, <2>6, <5>1, <5>2, <5>3, <5>4
      <4>2. ASSUME NEW i \in Until(s, p) PROVE i \in Until(s, c + 1)
        <5>1. i \in 2..(p - 1) /\ Begun(s, i) /\ Opened(s, i) = 1
          BY DEF Until
        <5>2. i \in 2..((c + 1) - 1)
          BY <2>2, <2>6, <5>1
        <5>. QED BY <5>1, <5>2 DEF Until
      <4>3. p \in Until(s, c + 1)
        <5>1. p \in 2..((c + 1) - 1)
          BY <2>2, <2>6
        <5>. QED BY <2>4, <3>1, <5>1 DEF Until, MealRead
      <4>. QED BY <4>1, <4>2, <4>3
    <3>5. IsFiniteSet(Until(s, p)) /\ Until(s, p) \in SUBSET Int /\ \A m \in Until(s, p) : m < p
      <4>1. Until(s, p) \subseteq 2..(p - 1)
        BY DEF Until
      <4>2. IsFiniteSet(2..(p - 1)) /\ 2..(p - 1) \subseteq Int /\ \A m \in 2..(p - 1) : m < p
        BY <2>2, FS_Interval
      <4>. QED BY <4>1, <4>2, FS_Subset
    <3>6. r.v \in MealsRead
      BY <2>3 DEF Added
    <3>7. p \in Int
      BY <2>2
    <3>8. AsHeard(s, Until(s, p) \cup {p}, Append(l.v, r.v))
      BY <2>2, <3>2, <3>3, <3>5, <3>6, <3>7, HeardOn
    <3>. QED BY <2>7, <3>4, <3>8
  <2>19. Listing(s, k + 1, w)
    BY <2>7, <2>8, <2>9, <2>11, <2>17, <2>18 DEF Listing
  <2>. QED BY <2>1, <2>19
<1>. QED BY <1>1, <1>2

\* A list that was read, to its end.
LEMMA ListIs ==
  ASSUME NEW s \in Seq(Token), MAX_SLOTS \in Nat, PeekAt(s, 1) = "[", json_slots(s).ok
  PROVE  Listing(s, Len(s), json_slots(s)) /\ Finished(s, json_slots(s))
<1>0. Len(s) \in Nat
  BY LenProperties
<1>1. PICK f : Walking(f, s, TRUE, Read(2, <<>>)) /\ json_slots(s) = f[Len(s)]
  BY <1>0, ListWalk
<1>2. \A k \in 0..Len(s) : f[k].ok
  BY <1>0, <1>1, AllRead
<1>. DEFINE S == {n \in Nat : n <= Len(s) => Listing(s, n, f[n])}
<1>3. S = Nat
  <2>1. 0 \in S
    BY <1>1, ListingFirst DEF Walking
  <2>2. ASSUME NEW n \in S PROVE n + 1 \in S
    <3>. SUFFICES ASSUME n + 1 <= Len(s) PROVE Listing(s, n + 1, f[n + 1])
      OBVIOUS
    <3>1. n + 1 \in 1..Len(s) /\ (n + 1) - 1 = n /\ n + 1 \in 0..Len(s) /\ n \in Nat
      BY <1>0
    <3>2. Listing(s, n, f[n])
      <4>1. n <= Len(s)
        BY <1>0
      <4>. QED BY <4>1
    <3>3. f[n + 1] = json_next(s, f[n])
      BY <1>1, <3>1 DEF Walking, Step
    <3>4. json_next(s, f[n]).ok
      BY <1>2, <3>1, <3>3
    <3>. QED BY <3>1, <3>2, <3>3, <3>4, ListingOn
  <2>3. S \in SUBSET Nat
    OBVIOUS
  <2>. HIDE DEF S
  <2>. QED BY <2>1, <2>2, <2>3, Induction
<1>4. Listing(s, Len(s), f[Len(s)])
  <2>1. Len(s) \in S
    BY <1>0, <1>3
  <2>. QED BY <1>0, <2>1
<1>5. PICK l : l = f[Len(s)]
  OBVIOUS
<1>6. Finished(s, l)
  <2>. SUFFICES ASSUME ~Finished(s, l) PROVE FALSE
    OBVIOUS
  <2>1. 2 + Len(s) <= l.at /\ l.at <= Len(s) + 1 /\ l.at \in Nat
    BY <1>4, <1>5 DEF Listing
  <2>. QED BY <1>0, <2>1
<1>. QED BY <1>1, <1>4, <1>5, <1>6

\* Of a list that was read, the meals are within range and no more than fit; and if its
\* brackets pair they are what the text says.
LEMMA ScheduleIs ==
  ASSUME NEW s \in Seq(Token), MAX_SLOTS \in Nat, parse_schedule(s).ok
  PROVE  LET v == parse_schedule(s).v
         IN  /\ v \in Seq(MealsRead) /\ Len(v) <= MAX_SLOTS
             /\ Balanced(s) => AsSaid(s, v)
<1>0. Len(s) \in Nat
  BY LenProperties
<1>1. PeekAt(s, 1) = "["
  BY DEF parse_schedule, Bad
<1>2. 1 \in 1..Len(s) /\ s[1].t = "["
  BY <1>1, PeekIs
<1>3. Opened(s, 1) = 0
  BY OpenedFirst
<1>4. CASE PeekAt(s, 2) = "]"
  <2>1. parse_schedule(s) = json_end(s, 3, <<>>)
    BY <1>1, <1>4 DEF parse_schedule
  <2>2. PeekAt(s, 3) = "end"
    BY <2>1 DEF json_end, Bad
  <2>3. parse_schedule(s).v = <<>>
    BY <2>1, <2>2 DEF json_end, Read
  <2>4. 2 \in 1..Len(s) /\ s[2].t = "]"
    BY <1>4, PeekIs
  <2>5. 3 > Len(s)
    BY <2>2, PeekIs
  <2>6. Meals(s) = {}
    <3>1. \A i \in 1..Len(s) : i = 1 \/ i = 2
      BY <1>0, <2>5
    <3>2. ~Begun(s, 1) /\ ~Begun(s, 2)
      BY <1>2, <2>4 DEF Begun
    <3>3. DOMAIN s = 1..Len(s)
      BY LenProperties
    <3>. QED BY <3>1, <3>2, <3>3 DEF Meals, Begun
  <2>7. AsSaid(s, <<>>)
    <3>1. Len(<<>>) = 0 /\ Cardinality({}) = 0
      BY FS_EmptySet
    <3>. QED BY <2>6, <3>1 DEF AsSaid
  <2>8. <<>> \in Seq(MealsRead) /\ Len(<<>>) <= MAX_SLOTS
    OBVIOUS
  <2>. QED BY <2>3, <2>7, <2>8
<1>5. CASE PeekAt(s, 2) # "]"
  <2>1. PICK l : l = json_slots(s)
    OBVIOUS
  <2>2. parse_schedule(s) = l
    BY <1>1, <1>5, <2>1 DEF parse_schedule
  <2>3. Listing(s, Len(s), l) /\ Finished(s, l)
    BY <1>1, <2>1, <2>2, ListIs
  <2>4. l.v \in Seq(MealsRead) /\ Len(l.v) <= MAX_SLOTS /\ l.at = Len(s) + 1
    BY <2>3 DEF Listing
  <2>5. ASSUME Balanced(s) PROVE AsSaid(s, l.v)
    <3>1. PICK e : e = Len(s)
      OBVIOUS
    <3>2. e \in Nat \ {0} /\ l.at - 1 = e /\ l.at = e + 1
      BY <1>0, <1>2, <2>4, <3>1
    <3>3. s[e].t = "]" /\ Edge(s, l) = e
      BY <2>3, <3>2 DEF Finished, Edge
    <3>4. Opened(s, e) = 1
      <4>1. Deeper(s, e) = -1
        BY <3>3 DEF Deeper, Open, Close
      <4>2. Opened(s, e + 1) = Opened(s, e) + Deeper(s, e) /\ Opened(s, e) \in Int
        BY <3>2, OpenedOn
      <4>3. Opened(s, e + 1) = 0
        BY <2>5, <3>1 DEF Balanced
      <4>. QED BY <4>1, <4>2, <4>3
    <3>5. AsHeard(s, Until(s, e + 1), l.v)
      BY <2>3, <3>2, <3>3, <3>4 DEF Listing
    <3>6. Until(s, e + 1) = Meals(s)
      <4>1. DOMAIN s = 1..e
        BY <3>1, LenProperties
      <4>2. ~Begun(s, 1)
        BY <1>2 DEF Begun
      <4>3. Meals(s) = {i \in 1..e : Begun(s, i) /\ Opened(s, i) = 1}
        BY <4>1 DEF Meals, Begun
      <4>4. \A i \in 1..e : i = 1 \/ i \in 2..((e + 1) - 1)
        BY <3>2
      <4>5. \A i \in 2..((e + 1) - 1) : i \in 1..e
        BY <3>2
      <4>. QED BY <4>2, <4>3, <4>4, <4>5 DEF Until
    <3>. QED BY <3>5, <3>6 DEF AsHeard, AsSaid
  <2>. QED BY <2>2, <2>4, <2>5
<1>. QED BY <1>4, <1>5
-----------------------------------------------------------------------------
(***************************************************************************)
(* A text that breaks off.                                                 *)
(***************************************************************************)
\* u is where s breaks off.
Broken(u, s) ==
  /\ u \in Seq(Token) /\ s \in Seq(Token) /\ Len(u) < Len(s)
  /\ \A i \in 1..Len(u) : u[i] = s[i]

\* What is met in it is what is met in the whole.
LEMMA PeekBroken ==
  ASSUME NEW u, NEW s, Broken(u, s), NEW at \in Nat \ {0}, at <= Len(u)
  PROVE  PeekAt(u, at) = PeekAt(s, at) /\ u[at] = s[at]
<1>0. Len(u) \in Nat /\ Len(s) \in Nat /\ Len(u) < Len(s)
  BY LenProperties DEF Broken
<1>1. at \in 1..Len(u) /\ at \in 1..Len(s)
  BY <1>0
<1>2. u[at] = s[at] /\ u \in Seq(Token) /\ s \in Seq(Token)
  BY <1>1 DEF Broken
<1>3. PeekAt(u, at) = u[at].t /\ PeekAt(s, at) = s[at].t
  BY <1>1, <1>2, PeekIs
<1>. QED BY <1>2, <1>3

\* A value with something after it is the same value.
LEMMA ValueBroken ==
  ASSUME NEW u, NEW s, Broken(u, s), NEW at \in Nat \ {0}, NEW key, json_value(u, at, key).ok,
         json_value(u, at, key).at <= Len(u)
  PROVE  json_value(s, at, key) = json_value(u, at, key)
<1>0. /\ Len(u) \in Nat /\ Len(s) \in Nat /\ Len(u) < Len(s)
      /\ u \in Seq(Token) /\ s \in Seq(Token)
  BY LenProperties, SMTT(20) DEF Broken
<1>1. at <= Len(u)
  BY <1>0, ValueIs
<1>2. PeekAt(u, at) = PeekAt(s, at) /\ u[at] = s[at]
  BY <1>1, PeekBroken
<1>3. CASE key = "time"
  BY <1>2, <1>3 DEF json_value, json_time
<1>4. CASE key = "portions"
  BY <1>2, <1>4 DEF json_value, json_portions
<1>5. CASE key \notin {"time", "portions"}
  <2>1. json_value(u, at, key) = skip_value(u, at) /\ json_value(s, at, key) = skip_value(s, at)
    BY <1>5 DEF json_value
  <2>2. PeekAt(u, at) \notin {"end", "esc"} /\ skip_value(u, at).ok
    <3>1. skip_value(u, at).ok
      BY <2>1
    <3>2. PeekAt(u, at) \in {"end", "esc"} => skip_value(u, at) = Bad("Malformed")
      BY DEF skip_value
    <3>3. ~Bad("Malformed").ok
      BY DEF Bad
    <3>. QED BY <3>1, <3>2, <3>3
  <2>3. CASE PeekAt(u, at) = "str"
    BY <1>2, <2>1, <2>3 DEF skip_value
  <2>4. ASSUME NEW close, skip_nested(u, at, close).ok,
               skip_nested(u, at, close).at <= Len(u)
        PROVE  skip_nested(s, at, close) = skip_nested(u, at, close)
    <3>1. PICK e \in Nat : NestedTo(u, at, close, e) /\ skip_nested(u, at, close) = Read(e + 1, 0)
      BY <1>0, <2>4, NestedIs
    <3>2. e \in at..Len(u) /\ u[e].t = close /\ Opened(u, e + 1) = Opened(u, at)
          /\ (\A i \in at..(e - 1) : Opened(u, i + 1) # Opened(u, at))
          /\ \A i \in at..e : u[i].t # "esc"
      BY <3>1 DEF NestedTo
    <3>3. \A i \in 1..(Len(u) + 1) : Opened(u, i) = Opened(s, i)
      <4>1. \A i \in 1..Len(u) : u[i] = s[i]
        BY DEF Broken
      <4>. QED BY <1>0, <4>1, OpenedSame
    <3>4. e \in at..Len(s) /\ Opened(s, e + 1) = Opened(s, at)
      <4>1. e \in at..Len(s) /\ e + 1 \in 1..(Len(u) + 1) /\ at \in 1..(Len(u) + 1)
        BY <1>0, <1>1, <3>2
      <4>. QED BY <3>2, <3>3, <4>1
    <3>5. \A i \in at..e : u[i] = s[i]
      <4>1. \A i \in at..e : i \in 1..Len(u)
        BY <1>0, <3>2
      <4>. QED BY <4>1 DEF Broken
    <3>6. s[e].t = close /\ \A i \in at..e : s[i].t # "esc"
      <4>1. e \in at..e
        BY <3>2
      <4>. QED BY <3>2, <3>5, <4>1
    <3>7. \A i \in at..(e - 1) : Opened(s, i + 1) # Opened(s, at)
      <4>1. \A i \in at..(e - 1) : i + 1 \in 1..(Len(u) + 1)
        BY <1>0, <3>2
      <4>2. at \in 1..(Len(u) + 1)
        BY <1>0, <1>1
      <4>. QED BY <3>2, <3>3, <4>1, <4>2
    <3>8. NestedTo(s, at, close, e)
      BY <3>4, <3>6, <3>7 DEF NestedTo
    <3>. QED BY <1>0, <3>1, <3>8, NestedOnly
  <2>5. CASE PeekAt(u, at) = "{"
    BY <1>2, <2>1, <2>4, <2>5 DEF skip_value
  <2>6. CASE PeekAt(u, at) = "["
    BY <1>2, <2>1, <2>4, <2>6 DEF skip_value
  <2>7. CASE PeekAt(u, at) \notin {"end", "esc", "str", "{", "["}
    <3>1. skip_value(u, at) = skip_bare(u, at) /\ skip_value(s, at) = skip_bare(s, at)
      BY <1>2, <2>7 DEF skip_value
    <3>2. PICK e \in Nat : BareTo(u, at, e) /\ skip_bare(u, at) = Read(e, 0)
      <4>1. at <= Len(u) + 1
        BY <1>0, <1>1
      <4>. QED BY <1>0, <4>1, BareIs
    <3>3. e <= Len(u) /\ e \in at..(Len(u) + 1) /\ PeekAt(u, e) \in Delimiters
          /\ \A i \in at..(e - 1) : PeekAt(u, i) \notin Delimiters
      BY <2>1, <3>1, <3>2 DEF BareTo, Read
    <3>4. \A i \in at..e : PeekAt(u, i) = PeekAt(s, i)
      <4>1. \A i \in at..e : i \in Nat \ {0} /\ i <= Len(u)
        BY <1>0, <3>3
      <4>. QED BY <4>1, PeekBroken
    <3>5. e \in at..(Len(s) + 1) /\ e \in at..e /\ \A i \in at..(e - 1) : i \in at..e
      BY <1>0, <3>3
    <3>6. BareTo(s, at, e)
      BY <3>3, <3>4, <3>5 DEF BareTo
    <3>. QED BY <1>0, <2>1, <3>1, <3>2, <3>6, BareOnly
  <2>. QED BY <2>2, <2>3, <2>5, <2>6, <2>7
<1>. QED BY <1>3, <1>4, <1>5

\* A key that is read is the same key.
LEMMA MemberBroken ==
  ASSUME NEW u, NEW s, Broken(u, s), NEW r, r.ok, r.at \in Nat, 2 <= r.at, r.at <= Len(u) + 1,
         json_member(u, r).ok
  PROVE  json_member(s, r) = json_member(u, r)
<1>0. /\ Len(u) \in Nat /\ Len(s) \in Nat /\ Len(u) < Len(s)
      /\ u \in Seq(Token) /\ s \in Seq(Token)
  BY LenProperties DEF Broken
<1>1. u[r.at - 1] = s[r.at - 1]
  <2>1. PICK q : q = r.at - 1
    OBVIOUS
  <2>2. q \in Nat \ {0} /\ q <= Len(u)
    BY <1>0, <2>1
  <2>. QED BY <2>1, <2>2, PeekBroken
<1>2. CASE Shut(u, r)
  BY <1>1, <1>2 DEF json_member, Shut, Ended
<1>3. CASE ~Shut(u, r)
  <2>1. PICK a : a = r.at
    OBVIOUS
  <2>2. a \in Nat \ {0} /\ a + 1 \in Nat \ {0} /\ a + 2 \in Nat \ {0}
    BY <2>1
  <2>3. PICK b \in Nat : \E value :
          /\ Keyed(u, a, b, value)
          /\ json_member(u, r) = Read(b + 1, json_kept(r.v, u[a].key, value))
          /\ Ended(u, b) => Whole(json_kept(r.v, u[a].key, value))
    BY <1>0, <1>3, <2>1, <2>2, MemberIs
  <2>4. PICK value, kept :
          /\ Keyed(u, a, b, value) /\ kept = json_kept(r.v, u[a].key, value)
          /\ json_member(u, r) = Read(b + 1, kept)
          /\ Ended(u, b) => Whole(kept)
    BY <2>3
  <2>5. a + 2 <= b /\ b \in 1..Len(u)
    BY <2>4 DEF Keyed
  <2>6. /\ u[a] = s[a] /\ u[a + 1] = s[a + 1] /\ u[b] = s[b]
        /\ PeekAt(u, a) = PeekAt(s, a) /\ PeekAt(u, a + 1) = PeekAt(s, a + 1) /\ PeekAt(u, b) = PeekAt(s, b)
    <3>1. a <= Len(u) /\ a + 1 <= Len(u) /\ b \in Nat \ {0} /\ b <= Len(u)
      BY <1>0, <2>2, <2>5
    <3>. QED BY <2>2, <3>1, PeekBroken
  <2>7. value = json_value(s, a + 2, s[a].key)
    <3>1. PICK at, key : at = a + 2 /\ key = u[a].key
      OBVIOUS
    <3>2. value = json_value(u, at, key) /\ json_value(u, at, key).ok /\ json_value(u, at, key).at = b
      BY <2>4, <3>1 DEF Keyed
    <3>3. at \in Nat \ {0} /\ json_value(u, at, key).at <= Len(u)
      BY <1>0, <2>2, <2>5, <3>1, <3>2
    <3>. QED BY <2>6, <3>1, <3>2, <3>3, ValueBroken
  <2>8. PeekAt(s, a) = "str" /\ PeekAt(s, a + 1) = ":"
    <3>1. PeekAt(u, a) = u[a].t /\ PeekAt(u, a + 1) = u[a + 1].t
      <4>1. a \in 1..Len(u) /\ a + 1 \in 1..Len(u)
        BY <1>0, <2>2, <2>5
      <4>. QED BY <1>0, <2>2, <4>1, PeekIs
    <3>. QED BY <2>4, <2>6, <3>1 DEF Keyed
  <2>9. json_member(s, r) = json_after(s, value, kept)
    <3>1. ~Shut(s, r)
      BY <1>1, <1>3 DEF Shut, Ended
    <3>2. kept = json_kept(r.v, s[a].key, value)
      BY <2>4, <2>6
    <3>. QED BY <2>1, <2>7, <2>8, <3>1, <3>2 DEF json_member, Shut, Ended
  <2>10. PeekAt(s, b) = u[b].t /\ value.ok /\ value.at = b /\ u[b].t \in {",", "}"}
    <3>1. PeekAt(u, b) = u[b].t
      <4>1. b \in Nat \ {0}
        BY <2>5
      <4>. QED BY <1>0, <2>5, <4>1, PeekIs
    <3>. QED BY <2>4, <2>6, <3>1 DEF Keyed
  <2>11. json_after(s, value, kept) = Read(b + 1, kept)
    <3>1. CASE u[b].t = ","
      BY <2>10, <3>1 DEF json_after
    <3>2. CASE u[b].t = "}"
      <4>1. ~(kept.minute < 0 \/ kept.portions < 0)
        BY <2>4, <3>2 DEF Whole, Ended
      <4>. QED BY <2>10, <3>2, <4>1 DEF json_after
    <3>. QED BY <2>10, <3>1, <3>2
  <2>. QED BY <2>4, <2>9, <2>11
<1>. QED BY <1>2, <1>3

\* A meal is over once its brace has closed.
LEMMA MealStays ==
  ASSUME NEW f, NEW s, NEW first, Len(s) \in Nat, Walking(f, s, FALSE, first),
         NEW n \in 0..Len(s), f[n].ok, Shut(s, f[n])
  PROVE  f[Len(s)] = f[n]
<1>. DEFINE S == {k \in Nat : n + k <= Len(s) => f[n + k] = f[n]}
<1>1. 0 \in S
  <2>1. n + 0 = n
    OBVIOUS
  <2>. QED BY <2>1
<1>2. ASSUME NEW k \in S PROVE k + 1 \in S
  <2>. SUFFICES ASSUME n + (k + 1) <= Len(s) PROVE f[n + (k + 1)] = f[n]
    OBVIOUS
  <2>1. PICK m : m = n + (k + 1)
    OBVIOUS
  <2>2. m \in 1..Len(s) /\ m - 1 = n + k /\ n + k <= Len(s)
    BY <2>1
  <2>3. f[m - 1] = f[n]
    BY <2>2
  <2>4. f[m] = json_member(s, f[m - 1])
    BY <2>2 DEF Walking, Step
  <2>5. json_member(s, f[n]) = f[n]
    BY DEF json_member, Shut, Ended
  <2>. QED BY <2>1, <2>3, <2>4, <2>5
<1>3. S = Nat
  <2>1. S \in SUBSET Nat
    OBVIOUS
  <2>. HIDE DEF S
  <2>. QED BY <1>1, <1>2, <2>1, Induction
<1>4. Len(s) - n \in Nat /\ n + (Len(s) - n) = Len(s)
  OBVIOUS
<1>5. Len(s) - n \in S
  BY <1>3, <1>4
<1>. QED BY <1>4, <1>5

\* A meal that is read is the same meal.
LEMMA MealBroken ==
  ASSUME NEW u, NEW s, Broken(u, s), NEW p \in Nat \ {0}, json_slot(u, p).ok
  PROVE  json_slot(s, p) = json_slot(u, p)
<1>0. /\ Len(u) \in Nat /\ Len(s) \in Nat /\ Len(u) < Len(s)
      /\ u \in Seq(Token) /\ s \in Seq(Token)
  BY LenProperties DEF Broken
<1>1. PeekAt(u, p) = "{"
  BY DEF json_slot, Bad
<1>2. p \in 1..Len(u) /\ Begun(u, p) /\ p <= Len(u)
  <2>1. p \in 1..Len(u) /\ Begun(u, p)
    BY <1>0, <1>1, PeekIs DEF Begun
  <2>. QED BY <2>1
<1>3. PeekAt(s, p) = "{"
  <2>1. PeekAt(s, p) = PeekAt(u, p)
    BY <1>2, PeekBroken
  <2>. QED BY <1>1, <2>1
<1>4. PICK f : Walking(f, u, FALSE, Read(p + 1, NoKeys)) /\ json_slot(u, p) = f[Len(u)]
  BY <1>0, <1>1, SlotWalk
<1>5. PICK g : Walking(g, s, FALSE, Read(p + 1, NoKeys)) /\ json_slot(s, p) = g[Len(s)]
  BY <1>0, <1>3, SlotWalk
<1>6. \A k \in 0..Len(u) : f[k].ok
  BY <1>0, <1>4, AllRead
<1>. DEFINE S == {n \in Nat : n <= Len(u) => Reading(u, p, n, f[n]) /\ g[n] = f[n]}
<1>7. S = Nat
  <2>1. 0 \in S
    BY <1>0, <1>2, <1>4, <1>5, ReadingFirst DEF Walking, NoKeys
  <2>2. ASSUME NEW n \in S PROVE n + 1 \in S
    <3>. SUFFICES ASSUME n + 1 <= Len(u) PROVE Reading(u, p, n + 1, f[n + 1]) /\ g[n + 1] = f[n + 1]
      OBVIOUS
    <3>1. /\ n + 1 \in 1..Len(u) /\ n + 1 \in 1..Len(s) /\ (n + 1) - 1 = n /\ n + 1 \in 0..Len(u)
          /\ n \in Nat /\ n <= Len(u)
      BY <1>0
    <3>2. Reading(u, p, n, f[n]) /\ g[n] = f[n]
      BY <3>1
    <3>3. f[n + 1] = json_member(u, f[n]) /\ g[n + 1] = json_member(s, g[n])
      BY <1>4, <1>5, <3>1 DEF Walking, Step
    <3>4. json_member(u, f[n]).ok
      BY <1>6, <3>1, <3>3
    <3>5. Reading(u, p, n + 1, f[n + 1])
      BY <1>0, <1>2, <3>1, <3>2, <3>3, <3>4, ReadingOn
    <3>6. PICK r : r = f[n]
      OBVIOUS
    <3>7. r.ok /\ r.at \in Nat /\ 2 <= r.at /\ r.at <= Len(u) + 1
      <4>1. Reading(u, p, n, r)
        BY <3>2, <3>6
      <4>2. r.ok /\ r.at \in Nat /\ r.at <= Len(u) + 1 /\ (p + 1 < r.at \/ p + 1 + n <= r.at)
        BY <4>1 DEF Reading
      <4>. QED BY <3>1, <4>2
    <3>8. json_member(s, r) = json_member(u, r)
      BY <3>3, <3>4, <3>6, <3>7, MemberBroken
    <3>. QED BY <3>2, <3>3, <3>5, <3>6, <3>8
  <2>3. S \in SUBSET Nat
    OBVIOUS
  <2>. HIDE DEF S
  <2>. QED BY <2>1, <2>2, <2>3, Induction
<1>8. g[Len(u)] = f[Len(u)]
  <2>1. Len(u) \in S
    BY <1>0, <1>7
  <2>. QED BY <1>0, <2>1
<1>9. PICK r : r = f[Len(u)]
  OBVIOUS
<1>10. MealRead(u, p, r)
  BY <1>0, <1>4, <1>9, MealIs
<1>11. r.ok /\ Shut(s, r)
  <2>1. PICK q : q = r.at - 1
    OBVIOUS
  <2>2. q \in Nat \ {0} /\ q <= Len(u)
    <3>1. r.at \in Nat /\ p + 1 < r.at /\ r.at <= Len(u) + 1
      BY <1>10 DEF MealRead
    <3>. QED BY <1>0, <2>1, <3>1
  <2>3. u[q] = s[q]
    BY <2>2, PeekBroken
  <2>. QED BY <1>10, <2>1, <2>3 DEF MealRead, Shut, Ended
<1>12. g[Len(s)] = g[Len(u)]
  <2>1. Len(u) \in 0..Len(s)
    BY <1>0
  <2>. QED BY <1>0, <1>5, <1>8, <1>9, <1>11, <2>1, MealStays
<1>. QED BY <1>4, <1>5, <1>8, <1>12

\* A list that was read is not read where it breaks off; and where it is, the whole is not.
LEMMA ScheduleBroken ==
  ASSUME NEW u, NEW s, Broken(u, s), MAX_SLOTS \in Nat, parse_schedule(u).ok, parse_schedule(s).ok
  PROVE  FALSE
<1>0. /\ Len(u) \in Nat /\ Len(s) \in Nat /\ Len(u) < Len(s)
      /\ u \in Seq(Token) /\ s \in Seq(Token)
  BY LenProperties DEF Broken
<1>1. PeekAt(u, 1) = "[" /\ PeekAt(s, 1) = "["
  BY DEF parse_schedule, Bad
<1>2. 1 \in 1..Len(u) /\ u[1].t = "["
  BY <1>0, <1>1, PeekIs
<1>3. CASE PeekAt(u, 2) = "]"
  <2>1. parse_schedule(u) = json_end(u, 3, <<>>)
    BY <1>1, <1>3 DEF parse_schedule
  <2>2. PeekAt(u, 3) = "end"
    BY <2>1 DEF json_end, Bad
  <2>3. 3 > Len(u) /\ 2 <= Len(u)
    <3>1. 2 \in 1..Len(u)
      BY <1>0, <1>3, PeekIs
    <3>2. 3 > Len(u)
      BY <1>0, <2>2, PeekIs
    <3>. QED BY <3>1, <3>2
  <2>4. PeekAt(s, 2) = "]"
    BY <1>3, <2>3, PeekBroken
  <2>5. parse_schedule(s) = json_end(s, 3, <<>>)
    BY <1>1, <2>4 DEF parse_schedule
  <2>6. PeekAt(s, 3) # "end"
    <3>1. 3 \in 1..Len(s)
      BY <1>0, <2>3
    <3>. QED BY <1>0, <3>1, PeekIs
  <2>. QED BY <2>5, <2>6 DEF json_end, Bad
<1>4. CASE PeekAt(u, 2) # "]"
  <2>1. parse_schedule(u) = json_slots(u)
    BY <1>1, <1>4 DEF parse_schedule
  <2>2. Listing(u, Len(u), json_slots(u)) /\ Finished(u, json_slots(u))
    BY <1>0, <1>1, <2>1, ListIs
  <2>3. 2 <= Len(u)
    <3>0. Len(u) # 1 => 2 <= Len(u)
      <4>1. PICK e : e = Len(u)
        OBVIOUS
      <4>2. e \in Nat /\ 1 <= e
        BY <1>0, <1>2, <4>1
      <4>3. e # 1 => 2 <= e
        BY <4>2
      <4>. QED BY <4>1, <4>3
    <3>. SUFFICES ASSUME Len(u) = 1 PROVE FALSE
      BY <3>0
    <3>1. PICK l : l = json_slots(u)
      OBVIOUS
    <3>2. l.at = Len(u) + 1 /\ u[l.at - 1].t = "]"
      BY <2>2, <3>1 DEF Listing, Finished
    <3>3. l.at - 1 = 1
      BY <3>2
    <3>. QED BY <1>2, <3>2, <3>3
  <2>4. PeekAt(s, 2) # "]"
    <3>1. PeekAt(s, 2) = PeekAt(u, 2)
      BY <2>3, PeekBroken
    <3>. QED BY <1>4, <3>1
  <2>5. parse_schedule(s) = json_slots(s)
    BY <1>1, <2>4 DEF parse_schedule
  <2>6. PICK f : Walking(f, u, TRUE, Read(2, <<>>)) /\ json_slots(u) = f[Len(u)]
    BY <1>0, ListWalk
  <2>7. PICK g : Walking(g, s, TRUE, Read(2, <<>>)) /\ json_slots(s) = g[Len(s)]
    BY <1>0, ListWalk
  <2>8. (\A k \in 0..Len(u) : f[k].ok) /\ (\A k \in 0..Len(s) : g[k].ok)
    BY <1>0, <2>1, <2>5, <2>6, <2>7, AllRead
  <2>. DEFINE S == {n \in Nat : n <= Len(u) =>
                      Listing(u, n, f[n]) /\ ~Finished(u, f[n]) /\ g[n] = f[n]}
  <2>9. S = Nat
    <3>1. 0 \in S
      <4>1. f[0] = Read(2, <<>>) /\ g[0] = f[0]
        BY <2>6, <2>7 DEF Walking
      <4>2. Listing(u, 0, f[0])
        BY <1>0, <1>1, <4>1, ListingFirst
      <4>3. ~Finished(u, f[0])
        <5>1. f[0].at - 1 = 1
          BY <4>1 DEF Read
        <5>. QED BY <1>2, <5>1 DEF Finished
      <4>. QED BY <4>1, <4>2, <4>3
    <3>2. ASSUME NEW n \in S PROVE n + 1 \in S
      <4>. SUFFICES ASSUME n + 1 <= Len(u)
                    PROVE  Listing(u, n + 1, f[n + 1]) /\ ~Finished(u, f[n + 1]) /\ g[n + 1] = f[n + 1]
        OBVIOUS
      <4>1. /\ n + 1 \in 1..Len(u) /\ n + 1 \in 1..Len(s) /\ (n + 1) - 1 = n
            /\ n + 1 \in 0..Len(u) /\ n + 1 \in 0..Len(s) /\ n \in Nat /\ n <= Len(u)
        BY <1>0
      <4>2. PICK l : l = f[n]
        OBVIOUS
      <4>3. Listing(u, n, l) /\ ~Finished(u, l) /\ g[n] = l
        BY <4>1, <4>2
      <4>4. f[n + 1] = json_next(u, l) /\ g[n + 1] = json_next(s, l)
        BY <2>6, <2>7, <4>1, <4>2, <4>3 DEF Walking, Step
      <4>5. json_next(u, l).ok /\ json_next(s, l).ok
        BY <2>8, <4>1, <4>4
      <4>6. Listing(u, n + 1, f[n + 1])
        BY <1>0, <4>1, <4>3, <4>4, <4>5, ListingOn
      <4>7. l.ok /\ l.at \in Nat \ {0} /\ 2 <= l.at /\ l.at <= Len(u) + 1 /\ l.v \in Seq(MealsRead)
        BY <4>3 DEF Listing
      <4>8. ~Finished(s, l)
        <5>1. PICK q : q = l.at - 1
          OBVIOUS
        <5>2. q \in Nat \ {0} /\ q <= Len(u)
          BY <1>0, <4>7, <5>1
        <5>3. u[q] = s[q]
          BY <5>2, PeekBroken
        <5>. QED BY <4>3, <5>1, <5>3 DEF Finished
      <4>9. PICK r : r = json_slot(u, l.at)
        OBVIOUS
      <4>10. r.ok /\ Added(u, l, r, json_next(u, l))
        BY <1>0, <4>3, <4>5, <4>7, <4>9, NextIs
      <4>11. json_slot(s, l.at) = r
        BY <4>7, <4>9, <4>10, MealBroken
      <4>12. Added(s, l, r, json_next(s, l))
        BY <1>0, <4>5, <4>7, <4>8, <4>11, NextIs
      <4>13. json_next(s, l) = json_next(u, l)
        BY <4>10, <4>12 DEF Added
      <4>14. ~Finished(u, json_next(u, l))
        <5>. SUFFICES ASSUME Finished(u, json_next(u, l)) PROVE FALSE
          OBVIOUS
        <5>1. PICK c : c = r.at
          OBVIOUS
        <5>2. c \in 1..Len(u) /\ json_next(u, l) = Read(c + 1, Append(l.v, r.v))
          BY <4>10, <5>1 DEF Added
        <5>3. c + 1 - 1 = c /\ c \in Nat \ {0} /\ c <= Len(u)
          BY <5>2
        <5>4. u[c].t = "]"
          BY <5>2, <5>3 DEF Finished, Read
        <5>5. u[c] = s[c]
          BY <5>3, PeekBroken
        <5>6. c = Len(s)
          BY <4>12, <5>1, <5>4, <5>5 DEF Added
        <5>. QED BY <1>0, <5>3, <5>6
      <4>. QED BY <4>4, <4>6, <4>13, <4>14
    <3>3. S \in SUBSET Nat
      OBVIOUS
    <3>. HIDE DEF S
    <3>. QED BY <3>1, <3>2, <3>3, Induction
  <2>10. ~Finished(u, f[Len(u)])
    <3>1. Len(u) \in S
      BY <1>0, <2>9
    <3>. QED BY <1>0, <3>1
  <2>. QED BY <2>2, <2>6, <2>10
<1>. QED BY <1>3, <1>4
-----------------------------------------------------------------------------
(***************************************************************************)
(* What the unit writes, read back.                                        *)
(***************************************************************************)
\* What the tokens of a meal are.
LEMMA SignIs ==
  ASSUME NEW x
  PROVE  /\ Sign(x).t = x
         /\ Key(x).t = "str" /\ Key(x).key = x
         /\ Hhmm(x).t = "str" /\ Hhmm(x).n = x
         /\ Num(x).t = "num" /\ Num(x).n = x
BY DEF Sign, Key, Hhmm, Num

\* A meal is written from p on.
WrittenAt(s, p, x) ==
  /\ s[p] = Sign("{") /\ s[p + 1] = Key("time") /\ s[p + 2] = Sign(":") /\ s[p + 3] = Hhmm(x.minute)
  /\ s[p + 4] = Sign(",") /\ s[p + 5] = Key("portions") /\ s[p + 6] = Sign(":")
  /\ s[p + 7] = Num(x.portions) /\ s[p + 8] = Sign("}")

\* It is read as what it is.
LEMMA SlotEcho ==
  ASSUME NEW s, Len(s) \in Nat, NEW p \in Nat \ {0}, p + 8 <= Len(s), NEW x \in MealsRead,
         WrittenAt(s, p, x)
  PROVE  json_slot(s, p) = Read(p + 9, x)
<1>10. /\ s[p].t = "{" /\ s[p + 1].t = "str" /\ s[p + 2].t = ":" /\ s[p + 3].t = "str"
       /\ s[p + 4].t = "," /\ s[p + 5].t = "str" /\ s[p + 6].t = ":" /\ s[p + 7].t = "num"
       /\ s[p + 8].t = "}"
       /\ s[p + 1].key = "time" /\ s[p + 3].n = x.minute
       /\ s[p + 5].key = "portions" /\ s[p + 7].n = x.portions
  <2>1. s[p].t = "{" /\ s[p + 2].t = ":" /\ s[p + 4].t = "," /\ s[p + 6].t = ":" /\ s[p + 8].t = "}"
    <3>1. s[p] = Sign("{") /\ s[p + 2] = Sign(":") /\ s[p + 4] = Sign(",") /\ s[p + 6] = Sign(":")
          /\ s[p + 8] = Sign("}")
      BY DEF WrittenAt
    <3>2. \A c : Sign(c).t = c
      BY SignIs
    <3>. QED BY <3>1, <3>2
  <2>2. s[p + 1].t = "str" /\ s[p + 1].key = "time" /\ s[p + 5].t = "str" /\ s[p + 5].key = "portions"
    <3>1. s[p + 1] = Key("time") /\ s[p + 5] = Key("portions")
      BY DEF WrittenAt
    <3>. QED BY <3>1, SignIs
  <2>3. s[p + 3].t = "str" /\ s[p + 3].n = x.minute /\ s[p + 7].t = "num" /\ s[p + 7].n = x.portions
    <3>1. s[p + 3] = Hhmm(x.minute) /\ s[p + 7] = Num(x.portions)
      BY DEF WrittenAt
    <3>. QED BY <3>1, SignIs
  <2>. QED BY <2>1, <2>2, <2>3
<1>0. PICK m, n : m = x.minute /\ n = x.portions
  OBVIOUS
<1>1. m \in 0..1439 /\ n \in 0..255 /\ x = [minute |-> m, portions |-> n]
  BY <1>0 DEF MealsRead
<1>2. /\ PeekAt(s, p) = s[p].t /\ PeekAt(s, p + 1) = s[p + 1].t /\ PeekAt(s, p + 2) = s[p + 2].t
      /\ PeekAt(s, p + 3) = s[p + 3].t /\ PeekAt(s, p + 4) = s[p + 4].t /\ PeekAt(s, p + 5) = s[p + 5].t
      /\ PeekAt(s, p + 6) = s[p + 6].t /\ PeekAt(s, p + 7) = s[p + 7].t /\ PeekAt(s, p + 8) = s[p + 8].t
  <2>1. p <= Len(s) /\ p + 1 <= Len(s) /\ p + 2 <= Len(s) /\ p + 3 <= Len(s) /\ p + 4 <= Len(s)
        /\ p + 5 <= Len(s) /\ p + 6 <= Len(s) /\ p + 7 <= Len(s) /\ p + 8 <= Len(s)
    OBVIOUS
  <2>. QED BY <2>1 DEF PeekAt
<1>3. /\ PeekAt(s, p) = "{" /\ PeekAt(s, p + 1) = "str" /\ PeekAt(s, p + 2) = ":"
      /\ PeekAt(s, p + 3) = "str" /\ PeekAt(s, p + 4) = "," /\ PeekAt(s, p + 5) = "str"
      /\ PeekAt(s, p + 6) = ":" /\ PeekAt(s, p + 7) = "num" /\ PeekAt(s, p + 8) = "}"
  BY <1>2, <1>10
<1>4. PICK f : Walking(f, s, FALSE, Read(p + 1, NoKeys)) /\ json_slot(s, p) = f[Len(s)]
  BY <1>3, SlotWalk
<1>5. f[0] = Read(p + 1, NoKeys) /\ f[1] = json_member(s, f[0]) /\ f[2] = json_member(s, f[1])
  <2>1. 1 \in 1..Len(s) /\ 2 \in 1..Len(s) /\ 1 - 1 = 0 /\ 2 - 1 = 1
    OBVIOUS
  <2>. QED BY <1>4, <2>1 DEF Walking, Step
<1>6. f[1] = Read(p + 5, [minute |-> m, portions |-> -1])
  <2>1. PICK r : r = Read(p + 1, NoKeys)
    OBVIOUS
  <2>2. r.ok /\ r.at = p + 1 /\ r.v = [minute |-> -1, portions |-> -1] /\ r.at - 1 = p /\ r.at + 1 = p + 2
        /\ r.at + 2 = p + 3
    <3>1. (p + 1) - 1 = p /\ (p + 1) + 1 = p + 2 /\ (p + 1) + 2 = p + 3
      OBVIOUS
    <3>. QED BY <2>1, <3>1 DEF Read, NoKeys
  <2>3. s[r.at - 1].t # "}"
    BY <1>10, <2>2
  <2>4. s[r.at].key = "time"
    BY <1>10, <2>2
  <2>5. json_value(s, p + 3, "time") = Read(p + 4, m)
    <3>1. s[p + 3].n = m /\ ~(m < 0)
      <4>1. ~(m < 0)
        BY <1>1
      <4>. QED BY <1>0, <1>10, <4>1
    <3>2. json_time(s, p + 3) = Read(p + 3 + 1, m)
      BY <1>3, <3>1 DEF json_time
    <3>3. p + 3 + 1 = p + 4
      OBVIOUS
    <3>. QED BY <3>2, <3>3 DEF json_value
  <2>6. json_kept(r.v, "time", Read(p + 4, m)) = [minute |-> m, portions |-> -1]
    BY <2>2 DEF json_kept, Read
  <2>7. json_member(s, r) = json_after(s, Read(p + 4, m), [minute |-> m, portions |-> -1])
    BY <1>3, <2>2, <2>3, <2>4, <2>5, <2>6 DEF json_member
  <2>8. json_after(s, Read(p + 4, m), [minute |-> m, portions |-> -1])
          = Read(p + 4 + 1, [minute |-> m, portions |-> -1])
    BY <1>3 DEF json_after, Read
  <2>9. p + 4 + 1 = p + 5
    OBVIOUS
  <2>. QED BY <1>5, <2>1, <2>7, <2>8, <2>9
<1>7. f[2] = Read(p + 9, x)
  <2>1. PICK r : r = Read(p + 5, [minute |-> m, portions |-> -1])
    OBVIOUS
  <2>2. r.ok /\ r.at = p + 5 /\ r.v = [minute |-> m, portions |-> -1] /\ r.at - 1 = p + 4
        /\ r.at + 1 = p + 6 /\ r.at + 2 = p + 7
    <3>1. (p + 5) - 1 = p + 4 /\ (p + 5) + 1 = p + 6 /\ (p + 5) + 2 = p + 7
      OBVIOUS
    <3>. QED BY <2>1, <3>1 DEF Read
  <2>3. s[r.at - 1].t # "}"
    BY <1>10, <2>2
  <2>4. s[r.at].key = "portions"
    BY <1>10, <2>2
  <2>5. json_value(s, p + 7, "portions") = Read(p + 8, n)
    <3>1. s[p + 7].n = n /\ ~(n > 255)
      <4>1. ~(n > 255)
        BY <1>1
      <4>. QED BY <1>0, <1>10, <4>1
    <3>2. json_portions(s, p + 7) = Read(p + 7 + 1, n)
      BY <1>3, <3>1 DEF json_portions
    <3>3. p + 7 + 1 = p + 8
      OBVIOUS
    <3>. QED BY <3>2, <3>3 DEF json_value
  <2>6. json_kept(r.v, "portions", Read(p + 8, n)) = x
    BY <1>1, <2>2 DEF json_kept, Read
  <2>7. json_member(s, r) = json_after(s, Read(p + 8, n), x)
    BY <1>3, <2>2, <2>3, <2>4, <2>5, <2>6 DEF json_member
  <2>8. json_after(s, Read(p + 8, n), x) = Read(p + 8 + 1, x)
    <3>1. ~(x.minute < 0 \/ x.portions < 0)
      <4>1. ~(m < 0 \/ n < 0)
        BY <1>1
      <4>. QED BY <1>0, <4>1
    <3>. QED BY <1>3, <3>1 DEF json_after, Read
  <2>9. p + 8 + 1 = p + 9
    OBVIOUS
  <2>. QED BY <1>5, <1>6, <2>1, <2>7, <2>8, <2>9
<1>8. f[2].ok /\ Shut(s, f[2]) /\ 2 \in 0..Len(s)
  <2>1. (p + 9) - 1 = p + 8 /\ 2 \in 0..Len(s)
    OBVIOUS
  <2>2. f[2].ok /\ f[2].at = p + 9
    BY <1>7 DEF Read
  <2>3. s[p + 8].t = "}"
    BY <1>10
  <2>. QED BY <2>1, <2>2, <2>3 DEF Shut, Ended
<1>9. f[Len(s)] = f[2]
  BY <1>4, <1>8, MealStays
<1>. QED BY <1>4, <1>7, <1>9

\* What is written of some meals: a bracket, each meal and a sign after it.
LEMMA EchoIs ==
  ASSUME NEW v \in Seq(MealsRead), v # <<>>
  PROVE  LET s == to_json(v)
         IN  /\ Len(v) \in Nat \ {0} /\ Len(s) = 10 * Len(v) + 1
             /\ s[1] = Sign("[")
             /\ \A k \in 0..(Len(v) - 1) :
                  /\ WrittenAt(s, 10 * k + 2, v[k + 1])
                  /\ s[10 * k + 11] = Sign(IF k + 1 = Len(v) THEN "]" ELSE ",")
<1>. DEFINE s == to_json(v)
            Cell(i) == LET k == (i - 2) \div 10 + 1
                           j == ((i - 2) % 10) + 1
                       IN  CASE i = 1 -> Sign("[")
                             [] i > 1 /\ j < 10 -> slot_tokens(v[k])[j]
                             [] i > 1 /\ j = 10 -> Sign(IF k = Len(v) THEN "]" ELSE ",")
<1>1. Len(v) \in Nat \ {0}
  BY LenProperties, EmptySeq
<1>2. s = [i \in 1..(10 * Len(v) + 1) |-> Cell(i)]
  BY DEF to_json
<1>3. Len(s) = 10 * Len(v) + 1 /\ \A i \in 1..(10 * Len(v) + 1) : s[i] = Cell(i)
  <2>. HIDE DEF Cell
  <2>1. 10 * Len(v) + 1 \in Nat
    BY <1>1
  <2>2. \A i \in 1..(10 * Len(v) + 1) : s[i] = Cell(i)
    BY <1>2
  <2>3. DOMAIN s = 1..(10 * Len(v) + 1)
    BY <1>2
  <2>. HIDE DEF s
  <2>4. Len(s) = 10 * Len(v) + 1
    BY <2>1, <2>3
  <2>. QED BY <2>2, <2>4
<1>4. s[1] = Sign("[")
  <2>1. 1 \in 1..(10 * Len(v) + 1)
    BY <1>1
  <2>2. Cell(1) = Sign("[")
    OBVIOUS
  <2>. QED BY <1>3, <2>1, <2>2
<1>5. ASSUME NEW k \in 0..(Len(v) - 1), NEW j \in 1..10
      PROVE  /\ 10 * k + j + 1 \in 1..(10 * Len(v) + 1)
             /\ j < 10 => s[10 * k + j + 1] = slot_tokens(v[k + 1])[j]
             /\ j = 10 => s[10 * k + j + 1] = Sign(IF k + 1 = Len(v) THEN "]" ELSE ",")
  <2>1. PICK i : i = 10 * k + j + 1
    OBVIOUS
  <2>2. i \in 1..(10 * Len(v) + 1) /\ i > 1 /\ i # 1
    BY <1>1, <2>1
  <2>3. (i - 2) \div 10 + 1 = k + 1 /\ ((i - 2) % 10) + 1 = j
    <3>1. PICK m : m = i - 2
      OBVIOUS
    <3>2. m = 10 * k + (j - 1) /\ k \in Nat /\ j - 1 \in 0..9
      BY <1>1, <2>1, <3>1
    <3>3. m \div 10 = k /\ m % 10 = j - 1
      BY <3>2
    <3>. QED BY <3>1, <3>3
  <2>4. /\ j < 10 => Cell(i) = slot_tokens(v[k + 1])[j]
        /\ j = 10 => Cell(i) = Sign(IF k + 1 = Len(v) THEN "]" ELSE ",")
    <3>1. ASSUME j < 10 PROVE Cell(i) = slot_tokens(v[k + 1])[j]
      <4>1. ~(j = 10)
        BY <3>1
      <4>. QED BY <2>2, <2>3, <3>1, <4>1
    <3>2. ASSUME j = 10 PROVE Cell(i) = Sign(IF k + 1 = Len(v) THEN "]" ELSE ",")
      <4>1. ~(j < 10)
        BY <3>2
      <4>. QED BY <2>2, <2>3, <3>2, <4>1
    <3>. QED BY <3>1, <3>2
  <2>5. s[i] = Cell(i)
    BY <1>3, <2>2
  <2>. HIDE DEF s, Cell
  <2>. QED BY <2>1, <2>2, <2>4, <2>5
<1>. HIDE DEF s
<1>6. ASSUME NEW k \in 0..(Len(v) - 1)
      PROVE  /\ WrittenAt(s, 10 * k + 2, v[k + 1])
             /\ s[10 * k + 11] = Sign(IF k + 1 = Len(v) THEN "]" ELSE ",")
  <2>1. PICK p : p = 10 * k + 2
    OBVIOUS
  <2>2. /\ 10 * k + 1 + 1 = p /\ 10 * k + 2 + 1 = p + 1 /\ 10 * k + 3 + 1 = p + 2 /\ 10 * k + 4 + 1 = p + 3
        /\ 10 * k + 5 + 1 = p + 4 /\ 10 * k + 6 + 1 = p + 5 /\ 10 * k + 7 + 1 = p + 6
        /\ 10 * k + 8 + 1 = p + 7 /\ 10 * k + 9 + 1 = p + 8 /\ 10 * k + 10 + 1 = 10 * k + 11
    BY <2>1
  <2>3. PICK x : x = v[k + 1]
    OBVIOUS
  <2>4. \A j \in 1..9 : s[10 * k + j + 1] = slot_tokens(x)[j]
    <3>1. \A j \in 1..9 : j \in 1..10 /\ j < 10
      OBVIOUS
    <3>. QED BY <1>5, <2>3, <3>1
  <2>5. /\ s[p] = slot_tokens(x)[1] /\ s[p + 1] = slot_tokens(x)[2] /\ s[p + 2] = slot_tokens(x)[3]
        /\ s[p + 3] = slot_tokens(x)[4] /\ s[p + 4] = slot_tokens(x)[5] /\ s[p + 5] = slot_tokens(x)[6]
        /\ s[p + 6] = slot_tokens(x)[7] /\ s[p + 7] = slot_tokens(x)[8] /\ s[p + 8] = slot_tokens(x)[9]
    <3>1. 1 \in 1..9 /\ 2 \in 1..9 /\ 3 \in 1..9 /\ 4 \in 1..9 /\ 5 \in 1..9 /\ 6 \in 1..9 /\ 7 \in 1..9
          /\ 8 \in 1..9 /\ 9 \in 1..9
      OBVIOUS
    <3>. QED BY <2>2, <2>4, <3>1
  <2>6. WrittenAt(s, p, x)
    BY <2>5 DEF slot_tokens, WrittenAt
  <2>7. 10 \in 1..10
    OBVIOUS
  <2>8. s[10 * k + 10 + 1] = Sign(IF k + 1 = Len(v) THEN "]" ELSE ",")
    BY <1>5, <2>7
  <2>. QED BY <2>1, <2>2, <2>3, <2>6, <2>8
<1>. QED BY <1>1, <1>3, <1>4, <1>6 DEF s

\* A list is over once its bracket has closed.
LEMMA ListStays ==
  ASSUME NEW f, NEW s, NEW first, Len(s) \in Nat, Walking(f, s, TRUE, first),
         NEW n \in 0..Len(s), Finished(s, f[n])
  PROVE  f[Len(s)] = f[n]
<1>. DEFINE S == {k \in Nat : n + k <= Len(s) => f[n + k] = f[n]}
<1>1. 0 \in S
  <2>1. n + 0 = n
    OBVIOUS
  <2>. QED BY <2>1
<1>2. ASSUME NEW k \in S PROVE k + 1 \in S
  <2>. SUFFICES ASSUME n + (k + 1) <= Len(s) PROVE f[n + (k + 1)] = f[n]
    OBVIOUS
  <2>1. PICK m : m = n + (k + 1)
    OBVIOUS
  <2>2. m \in 1..Len(s) /\ m - 1 = n + k /\ n + k <= Len(s)
    BY <2>1
  <2>3. f[m - 1] = f[n]
    BY <2>2
  <2>4. f[m] = json_next(s, f[m - 1])
    BY <2>2 DEF Walking, Step
  <2>5. json_next(s, f[n]) = f[n]
    BY DEF json_next, Finished
  <2>. QED BY <2>1, <2>3, <2>4, <2>5
<1>3. S = Nat
  <2>1. S \in SUBSET Nat
    OBVIOUS
  <2>. HIDE DEF S
  <2>. QED BY <1>1, <1>2, <2>1, Induction
<1>4. Len(s) - n \in Nat /\ n + (Len(s) - n) = Len(s)
  OBVIOUS
<1>5. Len(s) - n \in S
  BY <1>3, <1>4
<1>. QED BY <1>4, <1>5

\* What was read of what is written: the first k meals.
FirstOf(x, v, k) == x \in Seq(MealsRead) /\ Len(x) = k /\ \A i \in 1..k : x[i] = v[i]

\* One more of them.
LEMMA EchoOn ==
  ASSUME NEW v \in Seq(MealsRead), v # <<>>, MAX_SLOTS \in Nat, Len(v) <= MAX_SLOTS,
         NEW k \in 0..(Len(v) - 1), NEW x, FirstOf(x, v, k)
  PROVE  \E y : /\ FirstOf(y, v, k + 1)
                /\ json_next(to_json(v), Read(10 * k + 2, x)) = Read(10 * (k + 1) + 2, y)
<1>. DEFINE s == to_json(v)
<1>1. /\ Len(v) \in Nat \ {0} /\ Len(s) = 10 * Len(v) + 1
      /\ s[1] = Sign("[")
      /\ \A j \in 0..(Len(v) - 1) :
           /\ WrittenAt(s, 10 * j + 2, v[j + 1])
           /\ s[10 * j + 11] = Sign(IF j + 1 = Len(v) THEN "]" ELSE ",")
  BY EchoIs
<1>. HIDE DEF s
<1>0. Len(v) \in Nat \ {0} /\ Len(s) = 10 * Len(v) + 1
  BY <1>1
<1>2. PICK p, z, l : p = 10 * k + 2 /\ z = v[k + 1] /\ l = Read(10 * k + 2, x)
  OBVIOUS
<1>3. z \in MealsRead
  <2>1. k + 1 \in 1..Len(v)
    BY <1>0
  <2>. QED BY <1>2, <2>1, ElementOfSeq
<1>4. json_slot(s, p) = Read(p + 9, z)
  <2>1. Len(s) \in Nat /\ p \in Nat \ {0} /\ p + 8 <= Len(s)
    BY <1>0, <1>2
  <2>2. WrittenAt(s, p, z)
    BY <1>1, <1>2
  <2>. QED BY <1>3, <2>1, <2>2, SlotEcho
<1>5. l.ok /\ l.at = p /\ l.v = x
  BY <1>2 DEF Read
<1>6. ~Finished(s, l)
  <2>1. PICK q : q = p - 1
    OBVIOUS
  <2>2. CASE k = 0
    <3>1. q = 1
      BY <1>2, <2>1, <2>2
    <3>2. s[q].t = "["
      BY <1>1, <3>1, SignIs
    <3>. QED BY <1>5, <2>1, <3>2 DEF Finished
  <2>3. CASE k # 0
    <3>1. k - 1 \in 0..(Len(v) - 1) /\ q = 10 * (k - 1) + 11 /\ (k - 1) + 1 # Len(v)
      BY <1>0, <1>2, <2>1, <2>3
    <3>2. s[q] = Sign(",")
      BY <1>1, <3>1
    <3>3. s[q].t = ","
      BY <3>2, SignIs
    <3>. QED BY <1>5, <2>1, <3>3 DEF Finished
  <2>. QED BY <2>2, <2>3
<1>7. PICK y : y = Append(x, z)
  OBVIOUS
<1>8. FirstOf(y, v, k + 1)
  <2>1. x \in Seq(MealsRead) /\ Len(x) = k /\ \A i \in 1..k : x[i] = v[i]
    BY DEF FirstOf
  <2>2. y \in Seq(MealsRead) /\ Len(y) = k + 1 /\ (\A i \in 1..k : y[i] = x[i]) /\ y[k + 1] = z
    BY <1>3, <1>7, <2>1, AppendProperties
  <2>3. \A i \in 1..(k + 1) : i \in 1..k \/ i = k + 1
    OBVIOUS
  <2>. QED BY <1>2, <2>1, <2>2, <2>3 DEF FirstOf
<1>9. Len(y) <= MAX_SLOTS /\ ~(Len(y) > MAX_SLOTS)
  <2>1. Len(y) = k + 1
    BY <1>8 DEF FirstOf
  <2>. QED BY <1>0, <2>1
<1>10. PICK r : r = Read(p + 9, z)
  OBVIOUS
<1>11. r.ok /\ r.at = p + 9 /\ r.v = z /\ p + 9 = 10 * k + 11 /\ p + 9 + 1 = 10 * (k + 1) + 2
  <2>1. r.ok /\ r.at = p + 9 /\ r.v = z
    BY <1>10 DEF Read
  <2>2. p + 9 = 10 * k + 11 /\ p + 9 + 1 = 10 * (k + 1) + 2
    BY <1>2
  <2>. QED BY <2>1, <2>2
<1>12. json_next(s, l) = json_pushed(s, r, y)
  BY <1>4, <1>5, <1>6, <1>7, <1>10, <1>11 DEF json_next, Finished, Push
<1>13. PeekAt(s, p + 9) = s[p + 9].t
  <2>1. p + 9 <= Len(s)
    BY <1>0, <1>2
  <2>. QED BY <2>1 DEF PeekAt
<1>14. CASE k + 1 = Len(v)
  <2>1. PeekAt(s, p + 9) = "]"
    <3>1. s[p + 9] = Sign("]")
      BY <1>1, <1>11, <1>14
    <3>. QED BY <1>13, <3>1, SignIs
  <2>2. json_pushed(s, r, y) = json_end(s, p + 9 + 1, y)
    BY <1>9, <1>11, <2>1 DEF json_pushed
  <2>3. PeekAt(s, p + 9 + 1) = "end"
    <3>1. ~(p + 9 + 1 <= Len(s))
      BY <1>0, <1>2, <1>14
    <3>. QED BY <3>1 DEF PeekAt
  <2>4. json_end(s, p + 9 + 1, y) = Read(p + 9 + 1, y)
    BY <2>3 DEF json_end
  <2>5. json_next(s, l) = Read(10 * (k + 1) + 2, y)
    BY <1>11, <1>12, <2>2, <2>4
  <2>. QED BY <1>2, <1>8, <2>5 DEF s
<1>15. CASE k + 1 # Len(v)
  <2>1. PeekAt(s, p + 9) = ","
    <3>1. s[p + 9] = Sign(",")
      BY <1>1, <1>11, <1>15
    <3>. QED BY <1>13, <3>1, SignIs, ZenonT(40)
  <2>2. json_pushed(s, r, y) = Read(p + 9 + 1, y)
    BY <1>9, <1>11, <2>1 DEF json_pushed
  <2>3. json_next(s, l) = Read(10 * (k + 1) + 2, y)
    BY <1>11, <1>12, <2>2
  <2>. QED BY <1>2, <1>8, <2>3 DEF s
<1>. QED BY <1>14, <1>15

\* Meals that fit are read back as they were written.
LEMMA EchoReadBack ==
  ASSUME NEW v \in Seq(MealsRead), MAX_SLOTS \in Nat, Len(v) <= MAX_SLOTS
  PROVE  parse_schedule(to_json(v)).ok /\ parse_schedule(to_json(v)).v = v
<1>1. CASE v = <<>>
  <2>1. PICK s : s = <<Sign("["), Sign("]")>>
    OBVIOUS
  <2>2. to_json(v) = s
    BY <1>1, <2>1 DEF to_json
  <2>3. Len(s) = 2 /\ s[1] = Sign("[") /\ s[2] = Sign("]")
    BY <2>1
  <2>4. PeekAt(s, 1) = "[" /\ PeekAt(s, 2) = "]" /\ PeekAt(s, 3) = "end"
    <3>1. 1 <= Len(s) /\ 2 <= Len(s) /\ ~(3 <= Len(s))
      BY <2>3
    <3>2. s[1].t = "[" /\ s[2].t = "]"
      BY <2>3, SignIs
    <3>. QED BY <3>1, <3>2 DEF PeekAt
  <2>5. parse_schedule(s) = json_end(s, 3, <<>>)
    BY <2>4 DEF parse_schedule
  <2>6. parse_schedule(s) = Read(3, <<>>)
    BY <2>4, <2>5 DEF json_end
  <2>. QED BY <1>1, <2>2, <2>6 DEF Read
<1>2. CASE v # <<>>
  <2>0. PICK s : s = to_json(v)
    OBVIOUS
  <2>1. /\ Len(v) \in Nat \ {0} /\ Len(s) = 10 * Len(v) + 1 /\ s[1] = Sign("[")
        /\ WrittenAt(s, 2, v[1])
        /\ s[10 * (Len(v) - 1) + 11] = Sign("]")
    <3>1. /\ Len(v) \in Nat \ {0} /\ Len(s) = 10 * Len(v) + 1 /\ s[1] = Sign("[")
          /\ \A k \in 0..(Len(v) - 1) :
               /\ WrittenAt(s, 10 * k + 2, v[k + 1])
               /\ s[10 * k + 11] = Sign(IF k + 1 = Len(v) THEN "]" ELSE ",")
      BY <1>2, <2>0, EchoIs
    <3>2. 0 \in 0..(Len(v) - 1) /\ 10 * 0 + 2 = 2 /\ 0 + 1 = 1
          /\ Len(v) - 1 \in 0..(Len(v) - 1) /\ (Len(v) - 1) + 1 = Len(v)
      <4>1. Len(v) \in Nat \ {0}
        BY <3>1
      <4>. QED BY <4>1
    <3>. QED BY <3>1, <3>2
  <2>2. PeekAt(s, 1) = "[" /\ PeekAt(s, 2) = "{"
    <3>1. 1 <= Len(s) /\ 2 <= Len(s)
      BY <2>1
    <3>2. s[1].t = "[" /\ s[2].t = "{"
      <4>1. s[2] = Sign("{")
        BY <2>1 DEF WrittenAt
      <4>. QED BY <2>1, <4>1, SignIs
    <3>. QED BY <3>1, <3>2 DEF PeekAt
  <2>3. parse_schedule(s) = json_slots(s)
    BY <2>2 DEF parse_schedule
  <2>4. PICK f : Walking(f, s, TRUE, Read(2, <<>>)) /\ json_slots(s) = f[Len(s)]
    <3>1. Len(s) \in Nat
      BY <2>1
    <3>. QED BY <3>1, ListWalk
  <2>. DEFINE S == {k \in Nat : k <= Len(v) => \E x : FirstOf(x, v, k) /\ f[k] = Read(10 * k + 2, x)}
  <2>5. S = Nat
    <3>1. 0 \in S
      <4>1. f[0] = Read(10 * 0 + 2, <<>>)
        <5>1. 10 * 0 + 2 = 2
          OBVIOUS
        <5>. QED BY <2>4, <5>1 DEF Walking
      <4>2. FirstOf(<<>>, v, 0)
        BY EmptySeq DEF FirstOf
      <4>. QED BY <4>1, <4>2
    <3>2. ASSUME NEW k \in S PROVE k + 1 \in S
      <4>. SUFFICES ASSUME k + 1 <= Len(v)
                    PROVE  \E x : FirstOf(x, v, k + 1) /\ f[k + 1] = Read(10 * (k + 1) + 2, x)
        OBVIOUS
      <4>1. k \in 0..(Len(v) - 1) /\ k + 1 \in 1..Len(s) /\ (k + 1) - 1 = k /\ k <= Len(v)
        BY <2>1
      <4>2. PICK x : FirstOf(x, v, k) /\ f[k] = Read(10 * k + 2, x)
        BY <4>1
      <4>3. PICK y : /\ FirstOf(y, v, k + 1)
                     /\ json_next(to_json(v), Read(10 * k + 2, x)) = Read(10 * (k + 1) + 2, y)
        BY <1>2, <4>1, <4>2, EchoOn
      <4>4. f[k + 1] = json_next(s, f[k])
        BY <2>4, <4>1 DEF Walking, Step
      <4>. QED BY <2>0, <4>2, <4>3, <4>4
    <3>3. S \in SUBSET Nat
      OBVIOUS
    <3>. HIDE DEF S
    <3>. QED BY <3>1, <3>2, <3>3, Induction
  <2>6. PICK x : FirstOf(x, v, Len(v)) /\ f[Len(v)] = Read(10 * Len(v) + 2, x)
    <3>1. Len(v) \in S
      BY <2>1, <2>5
    <3>. QED BY <2>1, <3>1
  <2>7. x = v
    BY <2>6, SeqEqual DEF FirstOf
  <2>8. Finished(s, f[Len(v)])
    <3>1. f[Len(v)].at - 1 = 10 * (Len(v) - 1) + 11
      <4>1. f[Len(v)].at = 10 * Len(v) + 2
        BY <2>6 DEF Read
      <4>. QED BY <2>1, <4>1
    <3>. QED BY <2>1, <3>1, SignIs DEF Finished
  <2>9. f[Len(s)] = f[Len(v)]
    <3>1. Len(v) \in 0..Len(s) /\ Len(s) \in Nat
      BY <2>1
    <3>. QED BY <2>4, <2>8, <3>1, ListStays
  <2>. QED BY <2>0, <2>3, <2>4, <2>6, <2>7, <2>9 DEF Read
<1>. QED BY <1>1, <1>2
-----------------------------------------------------------------------------
(***************************************************************************)
(* The rule of a zone.                                                     *)
(***************************************************************************)
\* q is what was read after r: the same numbers, or one more, of T.
Same(r, q) == q.ok => r.ok /\ q.v = r.v
More(r, q, T) == q.ok => r.ok /\ \E x \in T : q.v = Append(r.v, x)

\* What a reading that goes on from r gives.
LEMMA FromIs ==
  ASSUME NEW r, NEW next, From(r, next).ok
  PROVE  r.ok /\ next.ok /\ From(r, next) = next
BY DEF From

\* The steps of the reader.
LEMMA WithIs ==
  ASSUME NEW r, NEW n
  PROVE  With(r, n).v = Append(r.v, n) /\ Past(r).v = r.v /\ Past(With(r, n)).v = Append(r.v, n)
BY DEF With, Past, Read

LEMMA TakeSame ==
  ASSUME NEW s, NEW r, NEW t, NEW error
  PROVE  Same(r, rule_take(s, r, t, error))
<1>. DEFINE next == IF PeekAt(s, r.at) = t THEN Past(r) ELSE Bad(error)
<1>. SUFFICES ASSUME From(r, next).ok PROVE r.ok /\ From(r, next).v = r.v
  BY DEF rule_take, Same
<1>1. r.ok /\ next.ok /\ From(r, next) = next
  BY FromIs
<1>2. next = Past(r)
  BY <1>1 DEF Bad
<1>. HIDE DEF next
<1>. QED BY <1>1, <1>2, WithIs

LEMMA NumberMore ==
  ASSUME NEW s, NEW r, NEW allowed
  PROVE  More(r, rule_number(s, r, allowed), allowed)
<1>. DEFINE met == PeekAt(s, r.at) = "num" /\ s[r.at].n \in allowed
            next == IF met THEN Past(With(r, s[r.at].n)) ELSE Bad("Malformed")
<1>. SUFFICES ASSUME From(r, next).ok
              PROVE  r.ok /\ \E x \in allowed : From(r, next).v = Append(r.v, x)
  BY DEF rule_number, More
<1>1. r.ok /\ next.ok /\ From(r, next) = next
  BY FromIs
<1>2. met /\ next = Past(With(r, s[r.at].n))
  BY <1>1 DEF Bad
<1>3. s[r.at].n \in allowed
  BY <1>2
<1>. HIDE DEF next
<1>. QED BY <1>1, <1>2, <1>3, WithIs

LEMMA SignMore ==
  ASSUME NEW s, NEW r
  PROVE  More(r, rule_sign(s, r), {-1, 1})
<1>. DEFINE next == CASE PeekAt(s, r.at) = "-" -> Past(With(r, -1))
                      [] PeekAt(s, r.at) = "+" -> Past(With(r, 1))
                      [] OTHER -> With(r, 1)
<1>. SUFFICES ASSUME From(r, next).ok
              PROVE  r.ok /\ \E x \in {-1, 1} : From(r, next).v = Append(r.v, x)
  BY DEF rule_sign, More
<1>1. r.ok /\ next.ok /\ From(r, next) = next
  BY FromIs
<1>2. next \in {Past(With(r, -1)), Past(With(r, 1)), With(r, 1)}
  OBVIOUS
<1>. HIDE DEF next
<1>3. next.v = Append(r.v, -1) \/ next.v = Append(r.v, 1)
  BY <1>2, WithIs, SMTT(40)
<1>. QED BY <1>1, <1>3

LEMMA MoreMore ==
  ASSUME NEW s, NEW r
  PROVE  More(r, rule_more(s, r), 0..59)
<1>. DEFINE next == IF PeekAt(s, r.at) = ":" THEN rule_number(s, Past(r), 0..59) ELSE With(r, 0)
<1>. SUFFICES ASSUME From(r, next).ok
              PROVE  r.ok /\ \E x \in 0..59 : From(r, next).v = Append(r.v, x)
  BY Zenon DEF rule_more, More
<1>1. r.ok /\ next.ok /\ From(r, next) = next
  BY FromIs
<1>2. CASE PeekAt(s, r.at) = ":"
  <2>1. next = rule_number(s, Past(r), 0..59)
    BY <1>2
  <2>2. More(Past(r), rule_number(s, Past(r), 0..59), 0..59)
    BY NumberMore
  <2>. HIDE DEF next
  <2>3. PICK x \in 0..59 : next.v = Append(Past(r).v, x)
    BY <1>1, <2>1, <2>2 DEF More
  <2>4. next.v = Append(r.v, x)
    BY <2>3, WithIs
  <2>. QED BY <1>1, <2>4, SMTT(40)
<1>3. CASE PeekAt(s, r.at) # ":"
  <2>1. next = With(r, 0)
    BY <1>3
  <2>2. 0 \in 0..59
    OBVIOUS
  <2>. HIDE DEF next
  <2>. QED BY <1>1, <2>1, <2>2, WithIs
<1>. QED BY <1>2, <1>3, ZenonT(40)

\* A number more makes a sequence one longer, and leaves what it had.
LEMMA Longer ==
  ASSUME NEW w \in Seq(Int), NEW e \in Int, NEW n \in Nat, Len(w) = n
  PROVE  /\ Append(w, e) \in Seq(Int) /\ Len(Append(w, e)) = n + 1
         /\ Append(w, e)[n + 1] = e /\ \A i \in 1..n : Append(w, e)[i] = w[i]
BY AppendProperties

\* What a sign, hours, minutes and seconds make.
Hms(a, b, c, d) == a * (b * 3600 + c * 60 + d)

\* Four numbers more.
Four(w, a, b, c, d) == Append(Append(Append(Append(w, a), b), c), d)

\* v is w and four numbers more, the first of them at n + 1.
Fours(v, w, n, a, b, c, d) ==
  /\ v \in Seq(Int) /\ Len(v) = n + 4
  /\ v[n + 1] = a /\ v[n + 2] = b /\ v[n + 3] = c /\ v[n + 4] = d
  /\ \A i \in 1..n : v[i] = w[i]

LEMMA FourIs ==
  ASSUME NEW w \in Seq(Int), NEW a \in Int, NEW b \in Int, NEW c \in Int, NEW d \in Int,
         NEW n \in Nat, Len(w) = n
  PROVE  Fours(Four(w, a, b, c, d), w, n, a, b, c, d)
<1>0. PICK n1 \in Nat, n2 \in Nat, n3 \in Nat, n4 \in Nat :
        n1 = n + 1 /\ n2 = n1 + 1 /\ n3 = n2 + 1 /\ n4 = n3 + 1
  OBVIOUS
<1>1. PICK w1, w2, w3, v : w1 = Append(w, a) /\ w2 = Append(w1, b) /\ w3 = Append(w2, c) /\ v = Append(w3, d)
  OBVIOUS
<1>2. w1 \in Seq(Int) /\ Len(w1) = n1 /\ w1[n1] = a /\ \A i \in 1..n : w1[i] = w[i]
  BY <1>0, <1>1, Longer
<1>3. w2 \in Seq(Int) /\ Len(w2) = n2 /\ w2[n2] = b /\ \A i \in 1..n1 : w2[i] = w1[i]
  BY <1>0, <1>1, <1>2, Longer, SMTT(40)
<1>4. w3 \in Seq(Int) /\ Len(w3) = n3 /\ w3[n3] = c /\ \A i \in 1..n2 : w3[i] = w2[i]
  BY <1>0, <1>1, <1>3, Longer, SMTT(40)
<1>5. v \in Seq(Int) /\ Len(v) = n4 /\ v[n4] = d /\ \A i \in 1..n3 : v[i] = w3[i]
  BY <1>0, <1>1, <1>4, Longer, SMTT(40)
<1>6. /\ n1 \in 1..n1 /\ n1 \in 1..n2 /\ n1 \in 1..n3 /\ n2 \in 1..n2 /\ n2 \in 1..n3 /\ n3 \in 1..n3
      /\ \A i \in 1..n : i \in 1..n1 /\ i \in 1..n2 /\ i \in 1..n3
  BY <1>0
<1>7. v[n1] = a /\ v[n2] = b /\ v[n3] = c /\ v[n4] = d
  BY <1>2, <1>3, <1>4, <1>5, <1>6
<1>8. \A i \in 1..n : v[i] = w[i]
  BY <1>2, <1>3, <1>4, <1>5, <1>6
<1>9. v = Four(w, a, b, c, d)
  BY <1>1, Zenon DEF Four
<1>10. n1 = n + 1 /\ n2 = n + 2 /\ n3 = n + 3 /\ n4 = n + 4
  BY <1>0
<1>11. Fours(v, w, n, a, b, c, d)
  BY <1>5, <1>7, <1>8, <1>10 DEF Fours
<1>. QED BY <1>9, <1>11

LEMMA FourIn ==
  ASSUME NEW w \in Seq(Int), NEW a \in Int, NEW b \in Int, NEW c \in Int, NEW d \in Int
  PROVE  Four(w, a, b, c, d) \in Seq(Int)
<1>1. PICK w1, w2, w3 : w1 = Append(w, a) /\ w2 = Append(w1, b) /\ w3 = Append(w2, c)
  OBVIOUS
<1>2. w1 \in Seq(Int)
  BY <1>1, AppendProperties
<1>3. w2 \in Seq(Int)
  BY <1>1, <1>2, AppendProperties
<1>4. w3 \in Seq(Int)
  BY <1>1, <1>3, AppendProperties
<1>5. Append(w3, d) \in Seq(Int)
  BY <1>4, AppendProperties
<1>. QED BY <1>1, <1>5, Zenon DEF Four

\* What comes before the last of a sequence is a sequence again.
LEMMA FrontIs ==
  ASSUME NEW w \in Seq(Int), NEW v \in Seq(Int), NEW n \in Nat, Len(w) = n, \A i \in 1..n : v[i] = w[i]
  PROVE  SubSeq(v, 1, n) = w
<1>1. \A i \in 1..n : v[i] \in Int
  <2>1. \A i \in 1..n : w[i] \in Int
    BY ElementOfSeq
  <2>. QED BY <2>1
<1>2. /\ SubSeq(v, 1, n) \in Seq(Int)
      /\ Len(SubSeq(v, 1, n)) = IF 1 <= n THEN n - 1 + 1 ELSE 0
      /\ \A i \in 1..(n - 1 + 1) : SubSeq(v, 1, n)[i] = v[1 + i - 1]
  <2>1. n \in Int /\ 1 \in Int
    OBVIOUS
  <2>. QED BY <1>1, <2>1, SubSeqProperties
<1>3. (IF 1 <= n THEN n - 1 + 1 ELSE 0) = n /\ n - 1 + 1 = n /\ \A i \in 1..n : 1 + i - 1 = i
  OBVIOUS
<1>4. \A i \in 1..n : SubSeq(v, 1, n)[i] = w[i]
  BY <1>2, <1>3
<1>5. Len(SubSeq(v, 1, n)) = n
  BY <1>2, <1>3
<1>. QED BY <1>2, <1>4, <1>5, SeqEqual

\* The last four numbers of a sequence become one.
LEMMA InSecondsIs ==
  ASSUME NEW w \in Seq(Int), NEW a \in Int, NEW b \in Int, NEW c \in Int, NEW d \in Int
  PROVE  InSeconds(Four(w, a, b, c, d), Len(Four(w, a, b, c, d))) = Append(w, Hms(a, b, c, d))
<1>0. PICK n \in Nat : Len(w) = n
  BY LenProperties
<1>1. PICK v : v = Four(w, a, b, c, d)
  OBVIOUS
<1>2. PICK n4 \in Nat : n4 = n + 4
  OBVIOUS
<1>3. /\ v \in Seq(Int) /\ Len(v) = n4 /\ v[n4 - 3] = a /\ v[n4 - 2] = b /\ v[n4 - 1] = c /\ v[n4] = d
      /\ \A i \in 1..n : v[i] = w[i]
  <2>1. Fours(v, w, n, a, b, c, d)
    BY <1>0, <1>1, FourIs
  <2>2. n4 - 3 = n + 1 /\ n4 - 2 = n + 2 /\ n4 - 1 = n + 3
    BY <1>2
  <2>. QED BY <1>2, <2>1, <2>2 DEF Fours
<1>4. n4 - 4 = n
  BY <1>2
<1>5. SubSeq(v, 1, n4 - 4) = w
  BY <1>0, <1>3, <1>4, FrontIs
<1>6. InSeconds(v, n4)
        = Append(SubSeq(v, 1, n4 - 4), v[n4 - 3] * (v[n4 - 2] * 3600 + v[n4 - 1] * 60 + v[n4]))
  BY DEF InSeconds
<1>7. v[n4 - 3] * (v[n4 - 2] * 3600 + v[n4 - 1] * 60 + v[n4]) = Hms(a, b, c, d)
  BY <1>3 DEF Hms
<1>8. InSeconds(v, n4) = Append(w, Hms(a, b, c, d))
  BY <1>5, <1>6, <1>7, SMTT(40)
<1>. QED BY <1>1, <1>3, <1>8

\* A reading and then another.
LEMMA MoreThen ==
  ASSUME NEW r, NEW q, NEW p, NEW T
  PROVE  (Same(r, q) /\ More(q, p, T) => More(r, p, T)) /\ (More(r, q, T) /\ Same(q, p) => More(r, p, T))
BY DEF Same, More

\* The numbers no further than n from nothing.
UpTo(n) == {x \in Int : -n <= x /\ x <= n}

\* The most seconds that h hours, and minutes and seconds, are.
Most(h) == h * 3600 + 3599

LEMMA HmsRange ==
  ASSUME NEW h \in Nat, NEW a \in {-1, 1}, NEW b \in 0..h, NEW c \in 0..59, NEW d \in 0..59
  PROVE  Hms(a, b, c, d) \in UpTo(Most(h))
<1>1. PICK n \in Nat : n = b * 3600 + c * 60 + d /\ n <= h * 3600 + 3599
  BY DEF Most
<1>2. a * n \in UpTo(Most(h))
  <2>1. CASE a = 1
    BY <1>1, <2>1 DEF UpTo, Most
  <2>2. CASE a = -1
    BY <1>1, <2>2 DEF UpTo, Most
  <2>. QED BY <2>1, <2>2
<1>. QED BY <1>1, <1>2 DEF Hms

\* Hours, minutes and seconds add one number of seconds, in their range.
LEMMA HmsMore ==
  ASSUME NEW s, NEW r, NEW max_h \in Nat, r.ok => r.v \in Seq(Int)
  PROVE  More(r, rule_hms(s, r, max_h), UpTo(Most(max_h)))
<1>. DEFINE sign == rule_sign(s, r)
            hour == rule_number(s, sign, 0..max_h)
            minute == rule_more(s, hour)
            second == rule_more(s, minute)
            next == Read(second.at, InSeconds(second.v, Len(second.v)))
<1>. SUFFICES ASSUME From(second, next).ok
              PROVE  r.ok /\ \E x \in UpTo(Most(max_h)) :
                               From(second, next).v = Append(r.v, x)
  BY DEF rule_hms, Totalled, More
<1>1. second.ok /\ From(second, next) = next
  BY FromIs
<1>2. next.v = InSeconds(second.v, Len(second.v))
  BY DEF Read
<1>3. More(r, sign, {-1, 1}) /\ More(sign, hour, 0..max_h) /\ More(hour, minute, 0..59)
      /\ More(minute, second, 0..59)
  BY SignMore, NumberMore, MoreMore
<1>. HIDE DEF sign, hour, minute, second, next
<1>4. PICK d \in 0..59 : minute.ok /\ second.v = Append(minute.v, d)
  BY <1>1, <1>3, ZenonT(40) DEF More
<1>5. PICK c \in 0..59 : hour.ok /\ minute.v = Append(hour.v, c)
  BY <1>3, <1>4, ZenonT(40) DEF More
<1>6. PICK b \in 0..max_h : sign.ok /\ hour.v = Append(sign.v, b)
  BY <1>3, <1>5, SMTT(40) DEF More
<1>7. PICK a \in {-1, 1} : r.ok /\ sign.v = Append(r.v, a)
  BY <1>3, <1>6 DEF More
<1>8. second.v = Four(r.v, a, b, c, d)
  BY <1>4, <1>5, <1>6, <1>7, Zenon DEF Four
<1>9. InSeconds(second.v, Len(second.v)) = Append(r.v, Hms(a, b, c, d))
  <2>1. r.v \in Seq(Int)
    BY <1>7
  <2>2. a \in Int /\ b \in Int /\ c \in Int /\ d \in Int
    OBVIOUS
  <2>3. InSeconds(Four(r.v, a, b, c, d), Len(Four(r.v, a, b, c, d))) = Append(r.v, Hms(a, b, c, d))
    BY <2>1, <2>2, InSecondsIs, SMTT(40)
  <2>. QED BY <1>8, <2>3, Zenon
<1>10. Hms(a, b, c, d) \in UpTo(Most(max_h))
  BY HmsRange, Zenon
<1>. QED BY <1>1, <1>2, <1>7, <1>9, <1>10, Zenon

LEMMA FrontLast ==
  ASSUME NEW w \in Seq(Int), NEW x \in Int
  PROVE  Front(Append(w, x)) = w /\ Last(Append(w, x)) = x
<1>1. PICK n \in Nat : n = Len(w)
  BY LenProperties
<1>2. PICK v : v = Append(w, x)
  OBVIOUS
<1>3. v \in Seq(Int) /\ Len(v) = n + 1 /\ v[n + 1] = x /\ \A i \in 1..n : v[i] = w[i]
  BY <1>1, <1>2, Longer
<1>4. Last(v) = x
  BY <1>3 DEF Last
<1>5. Front(v) = SubSeq(v, 1, n)
  <2>1. Front(v) = SubSeq(v, 1, (n + 1) - 1)
    BY <1>3 DEF Front
  <2>2. (n + 1) - 1 = n
    BY <1>1
  <2>. QED BY <2>1, <2>2
<1>6. SubSeq(v, 1, n) = w
  BY <1>1, <1>3, FrontIs
<1>. QED BY <1>2, <1>4, <1>5, <1>6

\* The offsets a rule can give its zone and its summer, in minutes, and its changes' times.
Offsets == UpTo(1499)
SummerOffsets == UpTo(1559)
Times == UpTo(Most(167))

LEMMA MinutesRange ==
  ASSUME NEW x \in UpTo(Most(24)), x % 60 = 0
  PROVE  -(x \div 60) \in Offsets
<1>1. x \in Int /\ -89999 <= x /\ x <= 89999
  BY DEF UpTo, Most
<1>2. PICK q \in Int : q = x \div 60
  BY <1>1
<1>3. -1499 <= q /\ q <= 1499
  BY <1>1, <1>2
<1>. QED BY <1>2, <1>3 DEF UpTo, Offsets

\* An offset adds one number of minutes: less than 25 hours of them.
LEMMA OffsetMore ==
  ASSUME NEW s, NEW r, r.ok => r.v \in Seq(Int)
  PROVE  More(r, rule_offset(s, r), Offsets)
<1>. DEFINE hms == rule_hms(s, r, 24)
            next == IF Last(hms.v) % 60 # 0 THEN Bad("Malformed")
                    ELSE Read(hms.at, Append(Front(hms.v), -(Last(hms.v) \div 60)))
<1>. SUFFICES ASSUME From(hms, next).ok
              PROVE  r.ok /\ \E x \in Offsets : From(hms, next).v = Append(r.v, x)
  BY DEF rule_offset, EastPositive, More
<1>1. hms.ok /\ next.ok /\ From(hms, next) = next
  BY FromIs
<1>2. Last(hms.v) % 60 = 0 /\ next.v = Append(Front(hms.v), -(Last(hms.v) \div 60))
  BY <1>1 DEF Bad, Read
<1>3. More(r, hms, UpTo(Most(24)))
  <2>1. 24 \in Nat
    OBVIOUS
  <2>. QED BY <2>1, HmsMore, Zenon
<1>. HIDE DEF hms, next
<1>4. PICK x \in UpTo(Most(24)) : r.ok /\ hms.v = Append(r.v, x)
  BY <1>1, <1>3 DEF More
<1>5. Front(hms.v) = r.v /\ Last(hms.v) = x
  <2>1. x \in Int
    BY DEF UpTo
  <2>2. r.v \in Seq(Int)
    BY <1>4
  <2>3. Front(Append(r.v, x)) = r.v /\ Last(Append(r.v, x)) = x
    BY <2>1, <2>2, FrontLast
  <2>. QED BY <1>4, <2>3, Zenon
<1>6. x % 60 = 0 /\ next.v = Append(r.v, -(x \div 60))
  BY <1>2, <1>5
<1>7. -(x \div 60) \in Offsets
  BY <1>6, MinutesRange
<1>. QED BY <1>1, <1>4, <1>6, <1>7

\* What was read before is in r, and what is read from it is as r was.
LEMMA PastSame ==
  ASSUME NEW r
  PROVE  Past(r).ok /\ Past(r).v = r.v
BY DEF Past, Read

\* A time of day adds one number of seconds: less than a week of them.
LEMMA TimeMore ==
  ASSUME NEW s, NEW r, r.ok => r.v \in Seq(Int)
  PROVE  More(r, rule_time(s, r), Times)
<1>. DEFINE hms == rule_hms(s, Past(r), 167)
            next == IF PeekAt(s, r.at) = "/" THEN hms ELSE With(r, 7200)
<1>. SUFFICES ASSUME From(r, next).ok
              PROVE  r.ok /\ \E x \in Times : From(r, next).v = Append(r.v, x)
  BY DEF rule_time, More
<1>1. r.ok /\ next.ok /\ From(r, next) = next
  BY FromIs
<1>2. CASE PeekAt(s, r.at) = "/"
  <2>1. next = hms
    BY <1>2
  <2>2. 167 \in Nat
    OBVIOUS
  <2>3. Past(r).v \in Seq(Int)
    BY <1>1, PastSame
  <2>4. More(Past(r), hms, Times)
    BY <2>2, <2>3, HmsMore DEF Times
  <2>. HIDE DEF next, hms
  <2>5. PICK x \in Times : next.v = Append(Past(r).v, x)
    BY <1>1, <2>1, <2>4 DEF More
  <2>. QED BY <1>1, <2>5, PastSame
<1>3. CASE PeekAt(s, r.at) # "/"
  <2>1. next = With(r, 7200)
    BY <1>3
  <2>2. 7200 \in Times
    BY DEF UpTo, Times, Most
  <2>3. With(r, 7200).v = Append(r.v, 7200)
    BY DEF With, Read
  <2>. HIDE DEF next, hms
  <2>. QED BY <1>1, <2>1, <2>2, <2>3
<1>. QED BY <1>2, <1>3

LEMMA DotMore ==
  ASSUME NEW s, NEW r, NEW allowed
  PROVE  More(r, rule_dot(s, r, allowed), allowed)
BY NumberMore, TakeSame, MoreThen, ZenonT(40) DEF rule_dot

\* q is what was read after r, and a change of the clock more.
Changed(r, q) ==
  q.ok => r.ok /\ \E m \in 1..12, w \in 1..5, d \in 0..6, x \in Times :
                     q.v = Four(r.v, m, w, d, x)

LEMMA ChangeMore ==
  ASSUME NEW s, NEW r, r.ok => r.v \in Seq(Int)
  PROVE  Changed(r, rule_change(s, r))
<1>. DEFINE letter_M == rule_take(s, r, "M", "Unsupported")
            month == rule_dot(s, letter_M, 1..12)
            week == rule_dot(s, month, 1..5)
            day == rule_number(s, week, 0..6)
            time == rule_time(s, day)
<1>1. rule_change(s, r) = time
  BY Zenon DEF rule_change
<1>2. /\ More(r, month, 1..12) /\ More(month, week, 1..5) /\ More(week, day, 0..6)
  <2>1. Same(r, letter_M) /\ More(letter_M, month, 1..12)
    BY TakeSame, DotMore, Zenon
  <2>2. More(month, week, 1..5) /\ More(week, day, 0..6)
    BY DotMore, NumberMore, Zenon
  <2>. QED BY <2>1, <2>2, MoreThen, Zenon
<1>3. (day.ok => day.v \in Seq(Int)) => More(day, time, Times)
  BY TimeMore, Zenon
<1>. HIDE DEF letter_M, month, week, day, time
<1>4. ASSUME day.ok
      PROVE  r.ok /\ \E m \in 1..12, w \in 1..5, d \in 0..6 :
                       day.v = Append(Append(Append(r.v, m), w), d)
  <2>1. PICK d \in 0..6 : week.ok /\ day.v = Append(week.v, d)
    BY <1>2, <1>4 DEF More
  <2>2. PICK w \in 1..5 : month.ok /\ week.v = Append(month.v, w)
    BY <1>2, <2>1 DEF More
  <2>3. PICK m \in 1..12 : r.ok /\ month.v = Append(r.v, m)
    BY <1>2, <2>2 DEF More
  <2>. QED BY <2>1, <2>2, <2>3, Zenon
<1>5. day.ok => day.v \in Seq(Int)
  <2>1. ASSUME day.ok PROVE day.v \in Seq(Int)
    <3>1. PICK m \in 1..12, w \in 1..5, d \in 0..6 :
            r.ok /\ day.v = Append(Append(Append(r.v, m), w), d)
      BY <1>4, <2>1, ZenonT(40)
    <3>2. PICK v1, v2, v3 : v1 = Append(r.v, m) /\ v2 = Append(v1, w) /\ v3 = Append(v2, d)
      OBVIOUS
    <3>3. m \in Int /\ w \in Int /\ d \in Int /\ r.v \in Seq(Int)
      BY <3>1
    <3>4. v1 \in Seq(Int)
      BY <3>2, <3>3, AppendProperties
    <3>5. v2 \in Seq(Int)
      BY <3>2, <3>3, <3>4, AppendProperties
    <3>6. v3 \in Seq(Int)
      BY <3>2, <3>3, <3>5, AppendProperties
    <3>7. day.v = v3
      BY <3>1, <3>2
    <3>. QED BY <3>6, <3>7, SMTT(40)
  <2>. QED BY <2>1
<1>6. ASSUME time.ok
      PROVE  r.ok /\ \E m \in 1..12, w \in 1..5, d \in 0..6, x \in Times :
                       time.v = Four(r.v, m, w, d, x)
  <2>1. PICK x \in Times : day.ok /\ time.v = Append(day.v, x)
    BY <1>3, <1>5, <1>6 DEF More
  <2>2. PICK m \in 1..12, w \in 1..5, d \in 0..6 :
          r.ok /\ day.v = Append(Append(Append(r.v, m), w), d)
    BY <1>4, <2>1, ZenonT(40)
  <2>3. time.v = Four(r.v, m, w, d, x)
    BY <2>1, <2>2, Zenon DEF Four
  <2>. QED BY <2>2, <2>3, ZenonT(40)
<1>. QED BY <1>1, <1>6, Zenon DEF Changed

\* Summer time adds one number: an hour to the offset there is, or an offset.
LEMMA DstMore ==
  ASSUME NEW s, NEW r, NEW std \in Offsets, r.ok => r.v = Append(<<>>, std)
  PROVE  More(r, rule_dst(s, r), SummerOffsets)
<1>. DEFINE offset == rule_offset(s, r)
            next == IF PeekAt(s, r.at) \in {",", "end"} THEN With(r, r.v[1] + 60) ELSE offset
<1>. SUFFICES ASSUME From(r, next).ok
              PROVE  r.ok /\ \E x \in SummerOffsets : From(r, next).v = Append(r.v, x)
  BY DEF rule_dst, More
<1>. HIDE DEF next, offset
<1>1. r.ok /\ next.ok /\ From(r, next) = next
  BY FromIs
<1>2. std \in Int
  BY DEF UpTo, Offsets, SummerOffsets, Times
<1>3. r.v \in Seq(Int) /\ r.v[1] = std
  <2>1. <<>> \in Seq(Int) /\ Len(<<>>) = 0 /\ 0 + 1 = 1
    OBVIOUS
  <2>2. Append(<<>>, std) \in Seq(Int) /\ Append(<<>>, std)[0 + 1] = std
    BY <1>2, <2>1, Longer
  <2>3. Append(<<>>, std)[1] = std
    BY <2>1, <2>2
  <2>. QED BY <1>1, <2>2, <2>3
<1>4. CASE PeekAt(s, r.at) \in {",", "end"}
  <2>1. next = With(r, r.v[1] + 60)
    BY <1>4 DEF next
  <2>2. next.v = Append(r.v, r.v[1] + 60)
    BY <2>1 DEF With, Read
  <2>3. std + 60 \in SummerOffsets
    BY DEF UpTo, Offsets, SummerOffsets, Times
  <2>. QED BY <1>1, <1>3, <2>2, <2>3
<1>5. CASE PeekAt(s, r.at) \notin {",", "end"}
  <2>1. next = offset
    BY <1>5 DEF next
  <2>2. More(r, offset, Offsets)
    BY <1>3, OffsetMore DEF offset
  <2>3. PICK x \in Offsets : next.v = Append(r.v, x)
    BY <1>1, <2>1, <2>2 DEF More
  <2>4. x \in SummerOffsets
    BY DEF UpTo, Offsets, SummerOffsets, Times
  <2>. QED BY <1>1, <2>3, <2>4
<1>. QED BY <1>4, <1>5

\* An offset, another, and two changes.
Ten(std, dst, m, w, d, x, m2, w2, d2, x2) ==
  Four(Four(Append(Append(<<>>, std), dst), m, w, d, x), m2, w2, d2, x2)

\* The numbers of a rule that is read.
RuleIn(v) ==
  \/ \E std \in Offsets : v = Append(<<>>, std)
  \/ \E std \in Offsets, dst \in SummerOffsets :
     \E m \in 1..12, w \in 1..5, d \in 0..6, x \in Times :
     \E m2 \in 1..12, w2 \in 1..5, d2 \in 0..6, x2 \in Times :
       v = Ten(std, dst, m, w, d, x, m2, w2, d2, x2)

LEMMA SeasonsIn ==
  ASSUME NEW s, NEW r, NEW std \in Offsets, r.v = Append(<<>>, std), rule_seasons(s, r).ok
  PROVE  r.ok /\ RuleIn(rule_seasons(s, r).v)
<1>. DEFINE name == rule_name(s, r)
            dst == rule_dst(s, name)
            comma == rule_take(s, dst, ",", "Unsupported")
            start == rule_change(s, comma)
            comma2 == rule_take(s, start, ",", "Malformed")
            end == rule_change(s, comma2)
<1>1. rule_seasons(s, r) = end
  BY Zenon DEF rule_seasons
<1>2. Same(r, name) /\ Same(dst, comma) /\ Same(start, comma2)
  BY TakeSame, Zenon DEF rule_name
<1>3. (name.ok => name.v = Append(<<>>, std)) => More(name, dst, SummerOffsets)
  BY DstMore
<1>4. (comma.ok => comma.v \in Seq(Int)) => Changed(comma, start)
  BY ChangeMore, Zenon
<1>5. (comma2.ok => comma2.v \in Seq(Int)) => Changed(comma2, end)
  BY ChangeMore, Zenon
<1>. HIDE DEF name, dst, comma, start, comma2, end
<1>6. std \in Int
  BY DEF UpTo, Offsets, SummerOffsets, Times
<1>7. Append(<<>>, std) \in Seq(Int)
  <2>1. <<>> \in Seq(Int)
    OBVIOUS
  <2>. QED BY <1>6, <2>1, AppendProperties
<1>8. More(name, dst, SummerOffsets)
  BY <1>2, <1>3, Zenon DEF Same
<1>9. ASSUME comma.ok
      PROVE  r.ok /\ \E c \in SummerOffsets : /\ comma.v = Append(Append(<<>>, std), c)
                                             /\ comma.v \in Seq(Int)
  <2>1. dst.ok /\ comma.v = dst.v
    BY <1>2, <1>9, Zenon DEF Same
  <2>2. PICK c \in SummerOffsets : name.ok /\ dst.v = Append(name.v, c)
    BY <1>8, <2>1 DEF More
  <2>3. r.ok /\ name.v = Append(<<>>, std)
    BY <1>2, <2>2, Zenon DEF Same
  <2>4. c \in Int
    BY DEF UpTo, Offsets, SummerOffsets, Times
  <2>5. Append(Append(<<>>, std), c) \in Seq(Int)
    BY <1>7, <2>4, AppendProperties
  <2>. QED BY <2>1, <2>2, <2>3, <2>5, Zenon
<1>10. Changed(comma, start)
  BY <1>4, <1>9, Zenon
<1>11. ASSUME comma2.ok
       PROVE  /\ r.ok /\ comma2.v \in Seq(Int)
              /\ \E c \in SummerOffsets :
                 \E m \in 1..12, w \in 1..5, d \in 0..6, x \in Times :
                   comma2.v = Four(Append(Append(<<>>, std), c), m, w, d, x)
  <2>1. start.ok /\ comma2.v = start.v
    BY <1>2, <1>11, ZenonT(40) DEF Same
  <2>2. PICK m \in 1..12, w \in 1..5, d \in 0..6, x \in Times :
          comma.ok /\ start.v = Four(comma.v, m, w, d, x)
    BY <1>10, <2>1, ZenonT(40) DEF Changed
  <2>3. PICK c \in SummerOffsets : /\ comma.v = Append(Append(<<>>, std), c)
                                  /\ comma.v \in Seq(Int)
    BY <1>9, <2>2
  <2>4. Four(comma.v, m, w, d, x) \in Seq(Int)
    <3>1. m \in Int /\ w \in Int /\ d \in Int /\ x \in Int
      BY DEF UpTo, Offsets, SummerOffsets, Times
    <3>. QED BY <2>3, <3>1, FourIn
  <2>5. r.ok
    BY <1>9, <2>2
  <2>. QED BY <2>1, <2>2, <2>3, <2>4, <2>5, Zenon
<1>12. Changed(comma2, end)
  BY <1>5, <1>11, Zenon
<1>13. PICK m2 \in 1..12, w2 \in 1..5, d2 \in 0..6, x2 \in Times :
         comma2.ok /\ end.v = Four(comma2.v, m2, w2, d2, x2)
  BY <1>1, <1>12, Zenon DEF Changed
<1>14. PICK c \in SummerOffsets :
       \E m \in 1..12, w \in 1..5, d \in 0..6, x \in Times :
         comma2.v = Four(Append(Append(<<>>, std), c), m, w, d, x)
  BY <1>11, <1>13, Zenon
<1>15. PICK m \in 1..12, w \in 1..5, d \in 0..6, x \in Times :
         comma2.v = Four(Append(Append(<<>>, std), c), m, w, d, x)
  BY <1>14, Zenon
<1>16. r.ok
  BY <1>11, <1>13, Zenon
<1>17. end.v = Ten(std, c, m, w, d, x, m2, w2, d2, x2)
  BY <1>13, <1>15, Zenon DEF Ten
<1>. QED BY <1>1, <1>16, <1>17, Zenon DEF RuleIn

\* What is read of a rule is what its numbers make.
LEMMA RuleIs ==
  ASSUME NEW s, parse_rule(s).ok
  PROVE  \E v : RuleIn(v) /\ parse_rule(s).v = RuleOf(v)
<1>. DEFINE first == Read(1, <<>>)
            name == rule_name(s, first)
            offset == rule_offset(s, name)
            rest == rule_rest(s, offset)
            next == IF PeekAt(s, rest.at) = "end" THEN Read(rest.at, RuleOf(rest.v)) ELSE Bad("Malformed")
            seasons == IF PeekAt(s, offset.at) = "end" THEN offset ELSE rule_seasons(s, offset)
<1>1. parse_rule(s) = From(rest, next)
  BY Zenon DEF parse_rule, rule_done
<1>2. rest = From(offset, seasons)
  BY Zenon DEF rule_rest
<1>3. rest.ok /\ next.ok /\ parse_rule(s) = next
  BY <1>1, FromIs, ZenonT(40)
<1>4. next.v = RuleOf(rest.v)
  <2>. HIDE DEF rest
  <2>. QED BY <1>3 DEF Bad, Read
<1>5. offset.ok /\ rest = seasons
  BY <1>2, <1>3, FromIs, ZenonT(40)
<1>6. Same(first, name)
  BY TakeSame, Zenon DEF rule_name
<1>7. (name.ok => name.v \in Seq(Int)) => More(name, offset, Offsets)
  BY OffsetMore, Zenon
<1>8. first.v = <<>>
  BY DEF Read
<1>9. seasons = offset \/ seasons = rule_seasons(s, offset)
  BY Zenon
<1>. HIDE DEF first, name, offset, rest, next, seasons
<1>10. name.ok => name.v = <<>>
  BY <1>6, <1>8, Zenon DEF Same
<1>11. name.ok => name.v \in Seq(Int)
  <2>1. <<>> \in Seq(Int)
    OBVIOUS
  <2>. QED BY <1>10, <2>1
<1>12. PICK std \in Offsets : name.ok /\ offset.v = Append(name.v, std)
  BY <1>5, <1>7, <1>11, Zenon DEF More
<1>13. offset.v = Append(<<>>, std)
  BY <1>10, <1>12, Zenon
<1>14. CASE seasons = offset
  <2>1. RuleIn(offset.v)
    BY <1>13, Zenon DEF RuleIn
  <2>. QED BY <1>3, <1>4, <1>5, <1>14, <2>1, Zenon
<1>15. CASE seasons = rule_seasons(s, offset)
  <2>1. RuleIn(seasons.v)
    BY <1>3, <1>5, <1>13, <1>15, SeasonsIn, Zenon
  <2>. QED BY <1>3, <1>4, <1>5, <2>1, Zenon
<1>. QED BY <1>9, <1>14, <1>15, Zenon

\* How far from nothing a number is.
LEMMA Nearer ==
  /\ \A x \in Offsets : Absolute(x) < 25 * 60
  /\ \A x \in SummerOffsets : Absolute(x) < 26 * 60
  /\ \A x \in Times : Absolute(x) < 168 * 3600
BY DEF Absolute, Offsets, SummerOffsets, Times, UpTo, Most

AllInt(std, dst, m, w, d, x, m2, w2, d2, x2) ==
  /\ std \in Int /\ dst \in Int /\ m \in Int /\ w \in Int /\ d \in Int /\ x \in Int
  /\ m2 \in Int /\ w2 \in Int /\ d2 \in Int /\ x2 \in Int

\* The ten numbers of a rule that has its seasons.
LEMMA TenIs ==
  ASSUME NEW std, NEW dst, NEW m, NEW w, NEW d, NEW x, NEW m2, NEW w2, NEW d2, NEW x2,
         AllInt(std, dst, m, w, d, x, m2, w2, d2, x2)
  PROVE  Ten(std, dst, m, w, d, x, m2, w2, d2, x2)
           = <<std, dst, m, w, d, x, m2, w2, d2, x2>>
<1>. /\ std \in Int /\ dst \in Int /\ m \in Int /\ w \in Int /\ d \in Int /\ x \in Int
     /\ m2 \in Int /\ w2 \in Int /\ d2 \in Int /\ x2 \in Int
  BY DEF AllInt
<1>1. PICK v1, v2, v3, v : /\ v1 = Append(<<>>, std) /\ v2 = Append(v1, dst)
                        /\ v3 = Four(v2, m, w, d, x) /\ v = Four(v3, m2, w2, d2, x2)
  OBVIOUS
<1>2. v1 \in Seq(Int) /\ Len(v1) = 1 /\ v1[1] = std
  <2>1. <<>> \in Seq(Int) /\ Len(<<>>) = 0 /\ 0 + 1 = 1
    OBVIOUS
  <2>2. Append(<<>>, std) \in Seq(Int) /\ Len(Append(<<>>, std)) = 0 + 1 /\ Append(<<>>, std)[0 + 1] = std
    BY <2>1, Longer
  <2>. QED BY <1>1, <2>1, <2>2
<1>3. PICK one \in Nat, two \in Nat, six \in Nat, ten \in Nat : one = 1 /\ two = 2 /\ six = 6 /\ ten = 10
  OBVIOUS
<1>4. v2 \in Seq(Int) /\ Len(v2) = two /\ v2[two] = dst /\ v2[1] = std
  <2>1. one + 1 = two /\ 1 \in 1..one
    BY <1>3
  <2>2. v1 \in Seq(Int) /\ Len(v1) = one
    BY <1>2, <1>3
  <2>3. /\ Append(v1, dst) \in Seq(Int) /\ Len(Append(v1, dst)) = one + 1
        /\ Append(v1, dst)[one + 1] = dst /\ \A i \in 1..one : Append(v1, dst)[i] = v1[i]
    BY <2>2, Longer
  <2>. QED BY <1>1, <1>2, <2>1, <2>3
<1>5. /\ v3 \in Seq(Int) /\ Len(v3) = six /\ v3[3] = m /\ v3[4] = w /\ v3[5] = d /\ v3[6] = x
      /\ \A i \in 1..two : v3[i] = v2[i]
  <2>1. v2 \in Seq(Int) /\ Len(v2) = two
    BY <1>4
  <2>2. Fours(Four(v2, m, w, d, x), v2, two, m, w, d, x)
    BY <2>1, FourIs
  <2>3. two + 4 = six /\ two + 1 = 3 /\ two + 2 = 4 /\ two + 3 = 5 /\ two + 4 = 6
    BY <1>3
  <2>. QED BY <1>1, <2>2, <2>3 DEF Fours
<1>6. /\ v \in Seq(Int) /\ Len(v) = ten /\ v[7] = m2 /\ v[8] = w2 /\ v[9] = d2 /\ v[10] = x2
      /\ \A i \in 1..six : v[i] = v3[i]
  <2>1. v3 \in Seq(Int) /\ Len(v3) = six
    BY <1>5
  <2>2. Fours(Four(v3, m2, w2, d2, x2), v3, six, m2, w2, d2, x2)
    BY <2>1, FourIs
  <2>3. six + 4 = ten /\ six + 1 = 7 /\ six + 2 = 8 /\ six + 3 = 9 /\ six + 4 = 10
    BY <1>3
  <2>. QED BY <1>1, <2>2, <2>3 DEF Fours
<1>7. 1 \in 1..two /\ 2 \in 1..two /\ \A i \in {1, 2, 3, 4, 5, 6} : i \in 1..six
  BY <1>3
<1>8. v[1] = std /\ v[2] = dst
  BY <1>3, <1>4, <1>5, <1>6, <1>7
<1>9. v[3] = m /\ v[4] = w /\ v[5] = d /\ v[6] = x
  BY <1>5, <1>6, <1>7
<1>10. v \in Seq(Int) /\ Len(v) = 10
  BY <1>3, <1>6
<1>11. PICK u : u = <<std, dst, m, w, d, x, m2, w2, d2, x2>>
  OBVIOUS
<1>12. /\ u \in Seq(Int) /\ Len(u) = 10 /\ u[1] = std /\ u[2] = dst /\ u[3] = m /\ u[4] = w /\ u[5] = d
       /\ u[6] = x /\ u[7] = m2 /\ u[8] = w2 /\ u[9] = d2 /\ u[10] = x2
  BY <1>11
<1>13. \A i \in 1..10 : v[i] = u[i]
  <2>1. TAKE i \in 1..10
  <2>2. i \in {1, 2, 3, 4, 5, 6, 7, 8, 9, 10}
    OBVIOUS
  <2>3. v[1] = u[1] /\ v[2] = u[2] /\ v[3] = u[3] /\ v[4] = u[4] /\ v[5] = u[5]
    BY <1>8, <1>9, <1>12
  <2>4. v[6] = u[6] /\ v[7] = u[7] /\ v[8] = u[8] /\ v[9] = u[9] /\ v[10] = u[10]
    BY <1>6, <1>9, <1>12
  <2>. QED BY <2>2, <2>3, <2>4
<1>14. v = u
  BY <1>10, <1>12, <1>13, SeqEqual
<1>15. Ten(std, dst, m, w, d, x, m2, w2, d2, x2) = v
  BY <1>1, Zenon DEF Ten
<1>. QED BY <1>11, <1>14, <1>15

\* A rule that is read never leads the clock out of the calendar.
LEMMA RuleRead ==
  ASSUME NEW s
  PROVE  WholeRule(parse_rule(s))
<1>. SUFFICES ASSUME parse_rule(s).ok
              PROVE  LET got == parse_rule(s).v
                     IN  /\ Absolute(got.std) < 25 * 60
                         /\ \A i \in DOMAIN got.changes :
                              /\ Absolute(got.changes[i].dst) < 26 * 60
                              /\ InRange(got.changes[i].start) /\ InRange(got.changes[i].end)
  BY DEF WholeRule
<1>1. PICK v : RuleIn(v) /\ parse_rule(s).v = RuleOf(v)
  BY RuleIs
<1>2. PICK got : got = RuleOf(v)
  OBVIOUS
<1>3. ASSUME NEW std \in Offsets, v = Append(<<>>, std)
      PROVE  Absolute(got.std) < 25 * 60 /\ got.changes = <<>>
  <2>1. Len(v) = 1 /\ v[1] = std
    <3>1. <<>> \in Seq(Int) /\ Len(<<>>) = 0 /\ 0 + 1 = 1 /\ std \in Int
      BY DEF Offsets, UpTo
    <3>2. Len(Append(<<>>, std)) = 0 + 1 /\ Append(<<>>, std)[0 + 1] = std
      BY <3>1, Longer
    <3>3. Append(<<>>, std)[1] = std
      BY <3>1, <3>2
    <3>. QED BY <1>3, <3>1, <3>2, <3>3
  <2>2. got.std = std /\ got.changes = <<>>
    BY <1>2, <2>1 DEF RuleOf
  <2>. QED BY <2>2, Nearer
<1>4. CASE \E std \in Offsets, dst \in SummerOffsets :
           \E m \in 1..12, w \in 1..5, d \in 0..6, x \in Times :
           \E m2 \in 1..12, w2 \in 1..5, d2 \in 0..6, x2 \in Times :
             v = Ten(std, dst, m, w, d, x, m2, w2, d2, x2)
  <2>0. PICK std \in Offsets, dst \in SummerOffsets :
          \E m \in 1..12, w \in 1..5, d \in 0..6, x \in Times :
          \E m2 \in 1..12, w2 \in 1..5, d2 \in 0..6, x2 \in Times :
            v = Ten(std, dst, m, w, d, x, m2, w2, d2, x2)
    BY <1>4, Zenon
  <2>1. PICK m \in 1..12, w \in 1..5, d \in 0..6, x \in Times :
          \E m2 \in 1..12, w2 \in 1..5, d2 \in 0..6, x2 \in Times :
            v = Ten(std, dst, m, w, d, x, m2, w2, d2, x2)
    BY <2>0, Zenon
  <2>2. PICK m2 \in 1..12, w2 \in 1..5, d2 \in 0..6, x2 \in Times :
          v = Ten(std, dst, m, w, d, x, m2, w2, d2, x2)
    BY <2>1, Zenon
  <2>3. v = <<std, dst, m, w, d, x, m2, w2, d2, x2>>
    <3>1. AllInt(std, dst, m, w, d, x, m2, w2, d2, x2)
      BY DEF AllInt, Offsets, SummerOffsets, Times, UpTo
    <3>2. Ten(std, dst, m, w, d, x, m2, w2, d2, x2) = <<std, dst, m, w, d, x, m2, w2, d2, x2>>
      BY <3>1, TenIs, Zenon
    <3>. QED BY <2>2, <3>2
  <2>4. PICK change : change = [dst |-> v[2], start |-> ChangeOf(v, 3), end |-> ChangeOf(v, 7)]
    OBVIOUS
  <2>5. got.std = std /\ got.changes = <<change>>
    BY <1>2, <2>3, <2>4 DEF RuleOf
  <2>6. InRange(ChangeOf(v, 3))
    <3>1. ChangeOf(v, 3) = [month |-> m, week |-> w, weekday |-> d, time |-> x]
      BY <2>3 DEF ChangeOf
    <3>. QED BY <3>1, Nearer DEF InRange
  <2>7. InRange(ChangeOf(v, 7))
    <3>1. ChangeOf(v, 7) = [month |-> m2, week |-> w2, weekday |-> d2, time |-> x2]
      BY <2>3 DEF ChangeOf
    <3>. QED BY <3>1, Nearer DEF InRange
  <2>8. Absolute(change.dst) < 26 * 60 /\ InRange(change.start) /\ InRange(change.end)
    BY <2>3, <2>4, <2>6, <2>7, Nearer
  <2>9. \A i \in DOMAIN got.changes : got.changes[i] = change
    BY <2>5
  <2>10. Absolute(got.std) < 25 * 60
    BY <2>5, Nearer
  <2>. QED BY <1>1, <1>2, <2>8, <2>9, <2>10
<1>5. CASE \E std \in Offsets : v = Append(<<>>, std)
  <2>1. Absolute(got.std) < 25 * 60 /\ got.changes = <<>>
    BY <1>3, <1>5
  <2>. QED BY <1>1, <1>2, <2>1
<1>. QED BY <1>1, <1>4, <1>5, Zenon DEF RuleIn

\* An edit of a meal that was read says what the meal says.
LEMMA Edits ==
  ASSUME NEW slot \in MealsRead, NEW i \in 1..MAX_SLOTS
  PROVE  EditedBack(slot, i)
<1>1. slot.minute \in 0..1439 /\ slot.portions \in 0..255
  BY DEF MealsRead
<1>2. ASSUME NEW path, path = [slash |-> TRUE, leading_zero |-> FALSE, number |-> i, field |-> "portions"]
      PROVE  slot_edit(path, [minute |-> -1, count |-> slot.portions]) = Read(i, [portions |-> slot.portions])
  <2>1. NamesSlot(path) /\ path.field = "portions" /\ path.number = i
    BY <1>2 DEF NamesSlot
  <2>. QED BY <1>1, <2>1 DEF slot_edit
<1>3. ASSUME NEW path, path = [slash |-> TRUE, leading_zero |-> FALSE, number |-> i, field |-> "time"]
      PROVE  slot_edit(path, [minute |-> slot.minute, count |-> -1]) = Read(i, [minute |-> slot.minute])
  <2>1. NamesSlot(path) /\ path.field = "time" /\ path.number = i
    BY <1>3 DEF NamesSlot
  <2>. QED BY <1>1, <2>1, SMTT(40) DEF slot_edit
<1>. QED BY <1>2, <1>3 DEF EditedBack

\* The part of a text before any token of it breaks off.
LEMMA PartBroken ==
  ASSUME NEW s \in Seq(Token), NEW n \in 0..(Len(s) - 1)
  PROVE  Broken(SubSeq(s, 1, n), s)
<1>1. Len(s) \in Nat /\ n \in Int /\ 1 \in Int /\ n < Len(s)
  BY LenProperties
<1>2. \A i \in 1..n : s[i] \in Token
  <2>1. \A i \in 1..n : i \in 1..Len(s)
    BY <1>1
  <2>. QED BY <2>1, ElementOfSeq
<1>3. /\ SubSeq(s, 1, n) \in Seq(Token)
      /\ Len(SubSeq(s, 1, n)) = IF 1 <= n THEN n - 1 + 1 ELSE 0
      /\ \A i \in 1..(n - 1 + 1) : SubSeq(s, 1, n)[i] = s[1 + i - 1]
  BY <1>1, <1>2, SubSeqProperties
<1>4. (IF 1 <= n THEN n - 1 + 1 ELSE 0) = n /\ n - 1 + 1 = n /\ \A i \in 1..n : 1 + i - 1 = i
  BY <1>1
<1>5. Len(SubSeq(s, 1, n)) = n
  BY <1>3, <1>4
<1>6. \A i \in 1..n : SubSeq(s, 1, n)[i] = s[i]
  BY <1>3, <1>4
<1>. QED BY <1>1, <1>3, <1>5, <1>6 DEF Broken

LEMMA BreaksIs ==
  ASSUME NEW s \in Seq(Token), MAX_SLOTS \in Nat, parse_schedule(s).ok
  PROVE  Breaks(s)
<1>. SUFFICES ASSUME NEW n \in 0..(Len(s) - 1), parse_schedule(SubSeq(s, 1, n)).ok
              PROVE  FALSE
  BY Zenon DEF Breaks
<1>1. Broken(SubSeq(s, 1, n), s)
  BY PartBroken
<1>. QED BY <1>1, ScheduleBroken

\* A time is read back as it was written.
LEMMA TimeBack ==
  ASSUME NEW w \in TimesWritten
  PROVE  parse_time(written_time(w)) = Read(0, w)
<1>1. w.second \in SecondsOfDay /\ w.offset \in OffsetsWritten
  BY DEF TimesWritten
<1>2. PICK n \in Nat, h \in Nat, m \in Nat, c \in Nat :
        /\ n = w.second /\ h = n \div 3600 /\ h <= 23 /\ m = (n \div 60) % 60 /\ c = n % 60
  <2>1. PICK n : n = w.second
    OBVIOUS
  <2>2. n \in SecondsOfDay
    BY <1>1, <2>1
  <2>3. n \in Nat /\ n \div 3600 <= 23
    BY <2>2 DEF SecondsOfDay
  <2>4. n \div 3600 \in Nat /\ (n \div 60) % 60 \in Nat /\ n % 60 \in Nat
    BY <2>3
  <2>. QED BY <2>1, <2>3, <2>4
<1>3. h <= 23 /\ m <= 59 /\ c <= 59 /\ h * 3600 + m * 60 + c = n
  <2>1. PICK k \in Nat, q \in Nat : k = n \div 60 /\ q = k \div 60
    <3>1. PICK k \in Nat : k = n \div 60
      BY <1>2
    <3>2. k \div 60 \in Nat
      OBVIOUS
    <3>. QED BY <3>1, <3>2
  <2>2. m = k % 60
    BY <1>2, <2>1
  <2>3. n = 60 * k + c /\ c <= 59
    BY <1>2, <2>1
  <2>4. k = 60 * q + m /\ m <= 59
    BY <2>1, <2>2
  <2>5. n = 3600 * q + 60 * m + c /\ 60 * m + c < 3600
    BY <2>3, <2>4
  <2>6. h = q
    <3>1. PICK r \in Nat : r = 60 * m + c
      OBVIOUS
    <3>2. n = 3600 * q + r /\ r < 3600
      BY <2>5, <3>1
    <3>3. h = n \div 3600
      BY <1>2
    <3>. QED BY <3>2, <3>3
  <2>7. h <= 23
    BY <1>2
  <2>. QED BY <2>3, <2>4, <2>5, <2>6, <2>7
<1>4. parse_offset(written_offset(w.offset)) = w.offset
  <2>1. PICK o : o = w.offset
    OBVIOUS
  <2>2. CASE o = 9999
    <3>1. written_offset(o) = NoSuffix
      BY <2>2 DEF written_offset
    <3>2. parse_offset(NoSuffix) = 9999
      BY DEF parse_offset, NoSuffix
    <3>. QED BY <2>1, <2>2, <3>1, <3>2
  <2>3. CASE o \in -1439..1439
    <3>1. PICK a \in Nat : a = Absolute(o)
      BY <2>3 DEF Absolute
    <3>2. a <= 1439 /\ o = (IF o < 0 THEN -1 ELSE 1) * a
      BY <2>3, <3>1 DEF Absolute
    <3>3. PICK hours \in Nat, minutes \in Nat : hours = a \div 60 /\ minutes = a % 60
      OBVIOUS
    <3>4. hours <= 23 /\ minutes <= 59 /\ hours * 60 + minutes = a
      BY <3>2, <3>3
    <3>5. written_offset(o) = [fraction |-> FALSE, mark |-> IF o < 0 THEN "-" ELSE "+",
                               hours |-> hours, minutes |-> minutes, digits |-> 5]
      BY <2>3, <3>1, <3>3 DEF written_offset
    <3>6. parse_offset(written_offset(o)) = (IF o < 0 THEN -1 ELSE 1) * (hours * 60 + minutes)
      <4>1. CASE o < 0
        BY <3>4, <3>5, <4>1 DEF parse_offset
      <4>2. CASE ~(o < 0)
        BY <3>4, <3>5, <4>2 DEF parse_offset
      <4>. QED BY <4>1, <4>2
    <3>. QED BY <2>1, <3>2, <3>4, <3>6
  <2>4. o = 9999 \/ o \in -1439..1439
    BY <1>1, <2>1 DEF OffsetsWritten
  <2>. QED BY <2>2, <2>3, <2>4
<1>5. PICK p : p = written_time(w)
  OBVIOUS
<1>6. /\ p.separators /\ p.real_date /\ p.hour = h /\ p.minute = m /\ p.second = c
      /\ p.suffix = written_offset(w.offset)
  BY <1>2, <1>5 DEF written_time
<1>7. parse_time(p) = Read(0, [second |-> h * 3600 + m * 60 + c, offset |-> parse_offset(p.suffix)])
  BY <1>3, <1>6 DEF parse_time
<1>8. parse_time(p) = Read(0, [second |-> w.second, offset |-> w.offset])
  BY <1>2, <1>3, <1>4, <1>6, <1>7
<1>9. w = [second |-> w.second, offset |-> w.offset]
  BY DEF TimesWritten
<1>. QED BY <1>5, <1>8, <1>9

\* The text that a unit may meet: what was sent right, whatever has happened to it.
TextsInv == letter \in Letters /\ text \in Seq(Token)

\* A token lost, or put in, leaves tokens.
LEMMA TokensStay ==
  ASSUME NEW s \in Seq(Token)
  PROVE  /\ \A i \in DOMAIN s : RemoveAt(s, i) \in Seq(Token)
         /\ \A i \in 1..(Len(s) + 1), x \in Token : InsertAt(s, i, x) \in Seq(Token)
<1>1. Len(s) \in Nat /\ DOMAIN s = 1..Len(s)
  BY LenProperties
<1>2. ASSUME NEW m \in Int, NEW n \in Int, 1 <= m, n <= Len(s)
      PROVE  SubSeq(s, m, n) \in Seq(Token)
  <2>1. \A i \in m..n : i \in 1..Len(s)
    BY <1>1, <1>2
  <2>2. \A i \in m..n : s[i] \in Token
    BY <2>1, ElementOfSeq
  <2>. QED BY <2>2, SubSeqProperties
<1>3. ASSUME NEW i \in DOMAIN s PROVE RemoveAt(s, i) \in Seq(Token)
  <2>1. i - 1 \in Int /\ i + 1 \in Int /\ 1 <= i + 1 /\ i - 1 <= Len(s) /\ 1 \in Int /\ 1 <= 1
        /\ Len(s) \in Int /\ Len(s) <= Len(s)
    BY <1>1
  <2>2. SubSeq(s, 1, i - 1) \in Seq(Token) /\ SubSeq(s, i + 1, Len(s)) \in Seq(Token)
    BY <1>2, <2>1
  <2>3. SubSeq(s, 1, i - 1) \o SubSeq(s, i + 1, Len(s)) \in Seq(Token)
    BY <2>2, ConcatProperties
  <2>. QED BY <2>3 DEF RemoveAt
<1>4. ASSUME NEW i \in 1..(Len(s) + 1), NEW x \in Token PROVE InsertAt(s, i, x) \in Seq(Token)
  <2>1. i - 1 \in Int /\ i \in Int /\ 1 <= i /\ i - 1 <= Len(s) /\ 1 \in Int /\ 1 <= 1
        /\ Len(s) \in Int /\ Len(s) <= Len(s)
    BY <1>1
  <2>2. SubSeq(s, 1, i - 1) \in Seq(Token) /\ SubSeq(s, i, Len(s)) \in Seq(Token)
    BY <1>2, <2>1
  <2>3. <<x>> \in Seq(Token)
    OBVIOUS
  <2>4. SubSeq(s, 1, i - 1) \o <<x>> \in Seq(Token)
    BY <2>2, <2>3, ConcatProperties
  <2>5. (SubSeq(s, 1, i - 1) \o <<x>>) \o SubSeq(s, i, Len(s)) \in Seq(Token)
    BY <2>2, <2>4, ConcatProperties
  <2>. QED BY <2>5 DEF InsertAt
<1>. QED BY <1>3, <1>4

LEMMA TextsInductive == TextsSpec => []TextsInv
<1>1. TextsInit => TextsInv
  BY TextsAssumption DEF TextsInit, TextsInv
<1>2. TextsInv /\ [TextsNext]_texts_vars => TextsInv'
  <2>. SUFFICES ASSUME TextsInv, [TextsNext]_texts_vars PROVE TextsInv'
    OBVIOUS
  <2>1. letter \in Letters /\ text \in Seq(Token) /\ letter.tokens \in Seq(Token)
    BY TextsAssumption DEF TextsInv
  <2>2. \A i \in DOMAIN text : text[i] \in Token /\ i \in 1..(Len(text) + 1)
    BY <2>1, LenProperties, ElementOfSeq
  <2>3. CASE Damaged
    <3>1. letter' = letter
      BY <2>3 DEF Damaged
    <3>2. CASE Loses
      <4>1. PICK i \in DOMAIN text : text' = RemoveAt(text, i)
        BY <3>2 DEF Loses
      <4>2. text' \in Seq(Token)
        BY <2>1, <4>1, TokensStay
      <4>. QED BY <2>1, <3>1, <4>2 DEF TextsInv
    <3>3. CASE Repeats
      <4>1. PICK i \in DOMAIN text : text' = InsertAt(text, i, text[i])
        BY <3>3 DEF Repeats
      <4>2. text' \in Seq(Token)
        BY <2>1, <2>2, <4>1, TokensStay
      <4>. QED BY <2>1, <3>1, <4>2 DEF TextsInv
    <3>4. CASE Gains
      <4>1. PICK i \in 1..(Len(text) + 1), stray \in Strays : text' = InsertAt(text, i, stray)
        BY <3>4 DEF Gains
      <4>2. stray \in Token
        BY TextsAssumption
      <4>3. text' \in Seq(Token)
        BY <2>1, <4>1, <4>2, TokensStay
      <4>. QED BY <2>1, <3>1, <4>3 DEF TextsInv
    <3>. QED BY <2>3, <3>2, <3>3, <3>4 DEF Damaged
  <2>4. CASE SentAgain
    BY <2>1, <2>4 DEF SentAgain, TextsInv
  <2>5. CASE UNCHANGED texts_vars
    BY <2>1, <2>5 DEF texts_vars, TextsInv
  <2>. QED BY <2>3, <2>4, <2>5 DEF TextsNext
<1>. QED BY <1>1, <1>2, PTL DEF TextsSpec

LEMMA ScheduleRead ==
  ASSUME text \in Seq(Token)
  PROVE  WholeSchedule(parse_schedule(text))
<1>0. MAX_SLOTS \in Nat
  BY TextsAssumption
<1>. SUFFICES ASSUME parse_schedule(text).ok
              PROVE  LET v == parse_schedule(text).v
                     IN  /\ Balanced(text) => AsSaid(text, v)
                         /\ Len(v) <= MAX_SLOTS
                         /\ parse_schedule(to_json(v)).ok /\ parse_schedule(to_json(v)).v = v
                         /\ Breaks(text)
                         /\ \A i \in DOMAIN v : EditedBack(v[i], i)
  BY Zenon DEF WholeSchedule
<1>1. PICK v : v = parse_schedule(text).v
  OBVIOUS
<1>2. v \in Seq(MealsRead) /\ Len(v) <= MAX_SLOTS /\ (Balanced(text) => AsSaid(text, v))
  BY <1>0, <1>1, ScheduleIs, Zenon
<1>3. parse_schedule(to_json(v)).ok /\ parse_schedule(to_json(v)).v = v
  BY <1>0, <1>2, EchoReadBack, Zenon
<1>4. Breaks(text)
  BY <1>0, BreaksIs
<1>5. \A i \in DOMAIN v : EditedBack(v[i], i)
  <2>1. TAKE i \in DOMAIN v
  <2>2. v[i] \in MealsRead /\ i \in 1..MAX_SLOTS
    BY <1>0, <1>2, LenProperties, ElementOfSeq
  <2>. QED BY <2>2, Edits
<1>. QED BY <1>1, <1>2, <1>3, <1>4, <1>5, Zenon

\* What Schedule::parse and Rule::parse take of a text is all that the text says and within
\* range, what breaks off is not read, and the echo, the edit of a meal and the time are read
\* back as they were written: for any texts sent right, any tokens lost, repeated or put in
\* as often as one likes, and schedules of any length.
THEOREM NothingIsHalfRead == TextsSpec => []NothingHalfRead
<1>1. TextsInv => NothingHalfRead
  <2>. SUFFICES ASSUME TextsInv PROVE NothingHalfRead
    OBVIOUS
  <2>1. letter \in Letters /\ text \in Seq(Token)
    BY DEF TextsInv
  <2>2. WholeSchedule(parse_schedule(text))
    BY <2>1, ScheduleRead
  <2>3. WholeRule(parse_rule(text))
    BY RuleRead
  <2>4. letter.kind \notin {"schedule", "rule"}
          => parse_time(written_time(letter.means[1])) = Read(0, letter.means[1])
    <3>1. letter.kind \notin {"schedule", "rule"} => letter.means[1] \in TimesWritten
      BY <2>1, TextsAssumption
    <3>. QED BY <3>1, TimeBack
  <2>5. CASE letter.kind = "schedule"
    BY <2>2, <2>5 DEF NothingHalfRead
  <2>6. CASE letter.kind = "rule"
    BY <2>3, <2>6 DEF NothingHalfRead
  <2>7. CASE letter.kind \notin {"schedule", "rule"}
    BY <2>4, <2>7 DEF NothingHalfRead
  <2>. QED BY <2>5, <2>6, <2>7
<1>. QED BY <1>1, TextsInductive, PTL
==============================================================================
