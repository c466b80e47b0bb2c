-------------------------------- MODULE Calendar --------------------------------
(***************************************************************************)
(* Dates, wall times, the rule of a timezone and the registers of the      *)
(* clock chip: the calendar of src/src/schedule.rs, src/src/tz.rs and      *)
(* src/src/ds3231.rs, run against the calendar on the wall.                *)
(*                                                                         *)
(* To the minute: every date from 1970 to 2099 then fits the integers TLC  *)
(* has, and a second is carried nowhere that a minute is not.              *)
(***************************************************************************)
EXTENDS Integers, FiniteSets

CONSTANTS
  Rules,             \* zones a unit may be given, parsed
  Walks,             \* where a clock starts, its pace, and how often it is looked at
  MAX_ROLLOVER_DAYS

VARIABLES
  rule, walk,        \* the zone, and the walk
  utc,               \* the true instant, in minutes since 1970
  steps,             \* looks since the start
  anchor             \* LocalClock's: when the clock was last set or moved, and to what
calendar_vars == <<rule, walk, utc, steps, anchor>>

NoOffset == 9999     \* outside every offset
DAY == 24 * 60

-----------------------------------------------------------------------------
is_leap(year) == year % 4 = 0 /\ (year % 100 # 0 \/ year % 400 = 0)

days_in_month(year, month) ==
  CASE month \in {1, 3, 5, 7, 8, 10, 12} -> 31
    [] month \in {4, 6, 9, 11} -> 30
    [] month = 2 -> IF is_leap(year) THEN 29 ELSE 28
    [] OTHER -> 0

is_valid(d) == d.month \in 1..12 /\ d.day \in 1..days_in_month(d.year, d.month)

next_day(d) ==
  CASE d.day < days_in_month(d.year, d.month) -> [d EXCEPT !.day = @ + 1]
    [] d.day >= days_in_month(d.year, d.month) /\ d.month < 12 ->
         [d EXCEPT !.month = @ + 1, !.day = 1]
    [] OTHER -> [year |-> d.year + 1, month |-> 1, day |-> 1]

Some(p) == IF p THEN 1 ELSE 0

days_from_civil(d) ==
  LET y == d.year - Some(d.month <= 2)
      era == y \div 400
      yoe == y - era * 400
      doy == (153 * (d.month + (IF d.month > 2 THEN -3 ELSE 9)) + 2) \div 5 + d.day - 1
  IN  era * 146097 + yoe * 365 + yoe \div 4 - yoe \div 100 + doy - 719468

\* Months from March, so that a leap day is a year's last.
DateOf(year, doy, mp) ==
  [year |-> year + Some(mp >= 10), month |-> IF mp < 10 THEN mp + 3 ELSE mp - 9,
   day |-> doy - (153 * mp + 2) \div 5 + 1]

InYear(year, doy) == DateOf(year, doy, (5 * doy + 2) \div 153)
InEra(era, doe, yoe) == InYear(yoe + era * 400, doe - (365 * yoe + yoe \div 4 - yoe \div 100))
EraDay(era, doe) ==
  InEra(era, doe, (doe - doe \div 1460 + doe \div 36524 - doe \div 146096) \div 365)
civil_from_days(days) == EraDay((days + 719468) \div 146097, (days + 719468) % 146097)

\* What Rule::parse lets through: offsets of a day and an hour at most, a time of a change
\* within a week of its day.
Within(n, bound) == n \in Int /\ -bound <= n /\ n <= bound
ParsedChange(c) ==
  c \in [month : 1..12, week : 1..5, weekday : 0..6, time : Int] /\ Within(c.time, 10079)
ParsedRule(r) ==
  /\ r.has_dst \in BOOLEAN /\ Within(r.std, 1499) /\ Within(r.dst, 1559)
  /\ ParsedChange(r.start) /\ ParsedChange(r.end)

\* The code looks for an instant's season in one year, the one it has in standard time: it
\* can follow no rule that changes within days of New Year.
ClearOfNewYear(c) ==
  /\ c.month = 1 => (IF c.week = 5 THEN 21 ELSE 7 * (c.week - 1)) * DAY + c.time >= 3 * DAY
  /\ c.month = 12 => 7 * c.week * DAY + c.time <= 28 * DAY
Seasonal(r) ==
  r.has_dst => /\ ClearOfNewYear(r.start) /\ ClearOfNewYear(r.end)
               /\ r.start.month + 2 <= r.end.month \/ r.end.month + 2 <= r.start.month

NewYear(year) == days_from_civil([year |-> year, month |-> 1, day |-> 1]) * DAY

\* MAX_ROLLOVER_DAYS is beyond two years, the longest a change of the offset may be waited
\* for, and a look; a walk starts in the century the chip counts, on both sides of Greenwich.
ASSUME CalendarAssumption ==
  /\ MAX_ROLLOVER_DAYS \in Nat /\ MAX_ROLLOVER_DAYS >= 733
  /\ \A r \in Rules : ParsedRule(r) /\ Seasonal(r)
  /\ \A w \in Walks : /\ w.from \in Int /\ w.pace \in Nat /\ w.looks \in Nat
                      /\ NewYear(2000) + 2 * DAY <= w.from /\ w.from < NewYear(2100) - 2 * DAY

local_seconds(w) == days_from_civil(w.date) * DAY + w.minute

from_local_seconds(local, offset) ==
  [date |-> civil_from_days(local \div DAY), minute |-> local % DAY, offset |-> offset]

\* The walk over the days is bounded: past it the clock has no time.
Known(w, minutes) == (w.minute + minutes) \div DAY <= MAX_ROLLOVER_DAYS

\* Day by day; seven of them at once, so that the recursion is no deeper than weeks.
Dates == [year : Int, month : 1..12, day : 1..31]
after == [d \in Dates |-> next_day(d)]
week_after == [d \in Dates |-> after[after[after[after[after[after[after[d]]]]]]]]

Rolled(date) ==
  LET rolled[n \in 0..MAX_ROLLOVER_DAYS] ==
        IF n = 0 THEN date ELSE IF n < 7 THEN after[rolled[n - 1]] ELSE week_after[rolled[n - 7]]
  IN  rolled

plus_seconds(w, minutes) ==
  LET total == w.minute + minutes
  IN  [w EXCEPT !.date = Rolled(w.date)[total \div DAY], !.minute = total % DAY]
-----------------------------------------------------------------------------
(***************************************************************************)
(* The rule of a zone.                                                     *)
(***************************************************************************)
\* The week-th such weekday of a month: a fifth may be past its end, by a week.
DayOfChange(change, first_days, last) ==
  LET day == 1 + ((change.weekday - ((first_days + 4) % 7)) % 7) + (change.week - 1) * 7
  IN  IF day > last THEN day - 7 ELSE day

SecondsFrom(change, first_days, last) ==
  (first_days + DayOfChange(change, first_days, last) - 1) * DAY + change.time

local_seconds_in(change, year) ==
  SecondsFrom(change, days_from_civil([year |-> year, month |-> change.month, day |-> 1]),
              days_in_month(year, change.month))

\* South of the equator summer runs across New Year.
Between(t, start, end) ==
  IF start < end THEN start <= t /\ t < end ELSE t < end \/ t >= start

\* Mutant: the end of summer time is written in standard time too.
InSummerEndStandard(r, t, year) ==
  Between(t, local_seconds_in(r.start, year) - r.std, local_seconds_in(r.end, year) - r.std)

\* The start is written in standard time, the end in summer time.
InSummer(r, t, year) ==
  Between(t, local_seconds_in(r.start, year) - r.std, local_seconds_in(r.end, year) - r.dst)

offset_at_utc(r, t) ==
  IF r.has_dst /\ InSummer(r, t, civil_from_days((t + r.std) \div DAY).year) THEN r.dst ELSE r.std

offset_for_local(r, w) == offset_at_utc(r, local_seconds(w) - r.std)

Moved(w, t, expected) ==
  IF expected = w.offset THEN w ELSE from_local_seconds(t + expected, expected)

MovedAt(r, w, t) == Moved(w, t, offset_at_utc(r, t))

\* None, of a clock that is in its offset already, is the reading as it was.
follow(r, w) ==
  IF w.offset = NoOffset THEN [w EXCEPT !.offset = offset_for_local(r, w)]
  ELSE MovedAt(r, w, local_seconds(w) - w.offset)

\* The time is carried on from the anchor, however often it was asked for since.
now(a, t) == plus_seconds(a.wall, t - a.at)
HasTime(a, t) == Known(a.wall, t - a.at)

\* A clock with no time, and one that is in its offset, keep the anchor they had.
follow_zone(r, a, t) ==
  IF ~HasTime(a, t) \/ follow(r, now(a, t)) = now(a, t) THEN a
  ELSE [at |-> t, wall |-> follow(r, now(a, t))]
-----------------------------------------------------------------------------
(***************************************************************************)
(* The registers.                                                          *)
(***************************************************************************)
to_bcd(v) == (v \div 10) * 16 + (v % 10)
bcd_ok(b) == b \div 16 <= 9 /\ b % 16 <= 9
bcd(b) == (b \div 16) * 10 + (b % 16)

decode_hour(raw) ==
  IF (raw \div 64) % 2 = 0 THEN bcd(raw % 64)
  ELSE LET hour12 == bcd(raw % 32)  pm == (raw \div 32) % 2 = 1
       IN  CASE hour12 = 12 -> IF pm THEN 12 ELSE 0
             [] OTHER -> IF pm THEN hour12 + 12 ELSE hour12

weekday(d) ==
  LET T == <<0, 3, 2, 5, 0, 3, 5, 1, 4, 6, 2, 4>>
      y == IF d.month < 3 THEN d.year - 1 ELSE d.year
      dow == (y + y \div 4 - y \div 100 + y \div 400 + T[d.month] + d.day) % 7
  IN  IF dow = 0 THEN 7 ELSE dow

QuarterHours(o) == o # NoOffset /\ o % 15 = 0 /\ o >= -14 * 60 /\ o <= 14 * 60

OFFSET_MARK == 197

encode_offset(o) ==
  IF QuarterHours(o) THEN LET q == (o \div 15) % 256 IN <<q, 255 - q, OFFSET_MARK>> ELSE <<0, 0, 0>>

decode_offset(r) ==
  IF r[3] = OFFSET_MARK /\ r[2] = 255 - r[1]
    THEN (IF r[1] > 127 THEN r[1] - 256 ELSE r[1]) * 15 ELSE NoOffset

\* A year of the chip's century.
encode_time(w) ==
  [minute |-> to_bcd(w.minute % 60), hour |-> to_bcd(w.minute \div 60), weekday |-> weekday(w.date),
   day |-> to_bcd(w.date.day), month |-> to_bcd(w.date.month), year |-> to_bcd(w.date.year - 2000),
   offset |-> encode_offset(w.offset)]

\* Bits the chip uses for something else are masked: the century, the hour's mode.
decode_time(r) ==
  [date |-> [year |-> 2000 + bcd(r.year), month |-> bcd(r.month % 32), day |-> bcd(r.day % 64)],
   minute |-> decode_hour(r.hour) * 60 + bcd(r.minute % 128), offset |-> decode_offset(r.offset)]

Formed(r) ==
  /\ bcd_ok(r.minute % 128) /\ bcd_ok(r.day % 64) /\ bcd_ok(r.month % 32) /\ bcd_ok(r.year)
  /\ bcd_ok(IF (r.hour \div 64) % 2 = 0 THEN r.hour % 64 ELSE r.hour % 32)
  /\ decode_time(r).minute < DAY /\ is_valid(decode_time(r).date)
-----------------------------------------------------------------------------
(***************************************************************************)
(* The calendar on the wall, by counting.                                  *)
(***************************************************************************)
\* The days of a month that fall on a weekday, Sunday 0; 1970 began on a Thursday.
Falling(year, month, wanted) ==
  {n \in 1..days_in_month(year, month) :
     (days_from_civil([year |-> year, month |-> month, day |-> 1]) + n - 1 + 4) % 7 = wanted}

\* The day that is the week-th of them, or the last.
Nth(days, week) ==
  IF Cardinality(days) < week THEN CHOOSE d \in days : \A e \in days : e <= d
  ELSE CHOOSE d \in days : Cardinality({e \in days : e <= d}) = week

Happens(change, year, before) ==
  LET day == Nth(Falling(year, change.month, change.weekday), change.week)
  IN  days_from_civil([year |-> year, month |-> change.month, day |-> day]) * DAY
        + change.time - before

Latest(changes) == CHOOSE c \in changes : \A e \in changes : e.at <= c.at

ChangesAbout(r, year) ==
  {[at |-> Happens(r.start, y, r.std), to |-> r.dst] : y \in (year - 1)..(year + 1)}
    \cup {[at |-> Happens(r.end, y, r.dst), to |-> r.std] : y \in (year - 1)..(year + 1)}

\* The offset of an instant is what the last change before it went to.
InForce(r, t) ==
  IF ~r.has_dst THEN r.std
  ELSE Latest({c \in ChangesAbout(r, civil_from_days(t \div DAY).year) : c.at <= t}).to

\* A reading that two instants have, or none.
Doubtful(r, local) ==
  Cardinality({o \in {r.std, r.dst} : InForce(r, local - o) = o}) # 1
-----------------------------------------------------------------------------
\* The clock starts with the right time, with or without its offset, or as a chip that
\* slept over a change comes up: the same instant in the other offset.
ShownIn(r, t, how, offset) ==
  CASE how = "labelled" -> from_local_seconds(t + offset, offset)
    [] how = "plain"    -> from_local_seconds(t + offset, NoOffset)
    [] how = "slept"    -> from_local_seconds(t + r.std + r.dst - offset, r.std + r.dst - offset)

Shown(r, t, how) == ShownIn(r, t, how, InForce(r, t))

SetTo(w, t) == [at |-> t, wall |-> follow(rule, w)]

CalendarInit ==
  /\ rule \in Rules /\ walk \in Walks /\ utc = walk.from /\ steps = 0
  /\ \E how \in {"labelled", "plain", "slept"} : anchor = SetTo(Shown(rule, utc, how), utc)

\* A look of the schedule task, which nobody has told the time since.
Looked ==
  /\ steps < walk.looks /\ steps' = steps + 1
  /\ utc' = utc + walk.pace /\ anchor' = follow_zone(rule, anchor, utc')
  /\ UNCHANGED <<rule, walk>>

\* The hour as a chip shows it that another program left in 12-hour mode.
Mode12(h) == 64 + (IF h >= 12 THEN 32 ELSE 0) + to_bcd(IF h % 12 = 0 THEN 12 ELSE h % 12)

Readings(w, written) == {written, [written EXCEPT !.hour = Mode12(w.minute \div 60)]}

\* The walk over again, from what a chip set at its start gives back, if it can be read.
Woken ==
  /\ steps = walk.looks /\ steps' = 0 /\ utc' = walk.from
  /\ \E how \in {"labelled", "plain"} : \E w \in {Shown(rule, walk.from, how)} :
       \E r \in Readings(w, encode_time(w)) : Formed(r) /\ anchor' = SetTo(decode_time(r), walk.from)
  /\ UNCHANGED <<rule, walk>>

CalendarNext == Looked \/ Woken
CalendarSpec == CalendarInit /\ [][CalendarNext]_calendar_vars
-----------------------------------------------------------------------------
\* A zone whose clocks are changed.
Changes(r) == r.has_dst /\ r.std # r.dst

\* schedule.rs and tz.rs carry a date four ways: day by day, as days since 1970, back from
\* them, and by the rule.  A clock given the time once, by a person or by a chip that was
\* set, shows the house's time and offset through every change of the season, month and
\* year it then runs over by itself, for as long as it has a time; and it always has one
\* where the clocks are changed and it is looked at daily, each change being a new start
\* for the days plus_seconds counts.  Where they are not, nothing starts them again.  All
\* of it unless the first reading could be of either of two instants.
ClockKeepsTheRule ==
  \/ Doubtful(rule, walk.from + InForce(rule, walk.from))
  \/ /\ HasTime(anchor, utc) =>
          /\ now(anchor, utc).offset = InForce(rule, utc)
          /\ local_seconds(now(anchor, utc)) - now(anchor, utc).offset = utc
     /\ Changes(rule) /\ walk.pace <= DAY => HasTime(anchor, utc)
================================================================================
