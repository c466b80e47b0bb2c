------------------------------ MODULE Scheduler ------------------------------
(***************************************************************************)
(* The clock and the feeding schedule of one unit: src/src/schedule.rs     *)
(* (LocalClock, Scheduler) driven once a second by schedule_task in        *)
(* src/src/bin/main.rs, across restarts.                                   *)
(*                                                                         *)
(* A wall-clock reading is a day, a minute of the day and a second of the  *)
(* minute.  A schedule is the set of the minutes of its enabled slots:     *)
(* portions, and slots switched off, make no difference to when a slot is  *)
(* resolved.  Days go no further than LastDay, restarts than MaxRestarts.  *)
(***************************************************************************)
EXTENDS Integers

CONSTANTS
  LastDay,           \* the last day a run reaches (a bound)
  MinutesPerDay,
  SecondsPerMinute,
  MAX_LATENESS_S,    \* a slot resolved later than this is not fed
  ZoneShift,         \* how far summer time moves the clock, in minutes
  MaxRestarts,       \* a bound
  Sources,           \* where time messages come from, among Source
  SyncWalls,         \* the readings a time message may carry
  Schedules,         \* the schedules a command may leave in force
  FlashFails,        \* whether a write of the schedule may fail
  None               \* no reading, no marker, no message, no schedule

Days    == 0 .. LastDay
Minutes == 0 .. MinutesPerDay - 1
Reading == [day : Days, minute : Minutes, second : 0 .. SecondsPerMinute - 1]
Mark    == [day : Days, minute : Minutes]
Outcome == {"Feed", "Baseline", "TooLate", "Paused"}
Due     == [minute : Minutes, how : Outcome]
Source  == {"Live", "Retained", "Rtc", "Manual"}
Sync    == [source : Source, wall : Reading]

ASSUME SchedulerAssumption ==
  /\ LastDay \in Nat
  /\ MinutesPerDay \in Nat \ {0}
  /\ SecondsPerMinute \in Nat \ {0}
  /\ MAX_LATENESS_S \in Nat
  /\ ZoneShift \in Nat
  /\ MaxRestarts \in Nat
  /\ FlashFails \in BOOLEAN
  /\ Sources \subseteq Source
  /\ SyncWalls \subseteq Reading
  /\ Schedules \subseteq SUBSET Minutes
  /\ None \notin {0, ZoneShift} /\ None \notin Source
  /\ \A x \in Reading : x # None
  /\ \A x \in Mark : x # None
  /\ \A x \in Due : x # None
  /\ \A x \in Sync : x # None
  /\ \A x \in SUBSET Minutes : x # None

VARIABLES
  reading,           \* what LocalClock reads now, or None
  offset,            \* the UTC offset that reading carries: 0, ZoneShift or None
  trusted,           \* LocalClock.trusted
  sync,              \* BUS.time, a Signal: the newest time not yet taken
  season,            \* the offset the stored timezone says is in force
  wanted,            \* what the commands queued on BUS.schedule lead to
  stored,            \* the schedule in flash
  meals,             \* Scheduler.schedule, its enabled minutes
  received,          \* Scheduler.received
  consumed,          \* Scheduler.consumed_through
  baselined,         \* Scheduler.baselined
  paused             \* BUS.paused, kept in flash

clockVars     == <<reading, offset, trusted>>
schedulerVars == <<meals, received, consumed, baselined>>

(***************************************************************************)
(* History, read by the properties only.                                   *)
(***************************************************************************)
VARIABLES
  anchoredBy,        \* the source of the time the clock runs from
  due,               \* what this step's look decided: a Due, or None
  resolved,          \* every <<day, minute, fed>> resolved, across restarts
  again,             \* a slot already resolved on its date was fed
  horizon,           \* [day of the last look, latest minute looked at that day]
  back,              \* the clock was seen to go back: see Looked
  edited,            \* a schedule was put in force after a restart
  restarts

ghostVars == <<anchoredBy, resolved, again, horizon, back, edited, restarts>>
vars == <<clockVars, sync, season, wanted, stored, schedulerVars, paused,
          ghostVars, due>>
-----------------------------------------------------------------------------
(***************************************************************************)
(* LocalClock.                                                             *)
(***************************************************************************)

\* One second later, and midnight rolls the date.
Succ(r) ==
  IF r.second < SecondsPerMinute - 1 THEN [r EXCEPT !.second = @ + 1]
  ELSE IF r.minute < MinutesPerDay - 1
       THEN [r EXCEPT !.second = 0, !.minute = @ + 1]
       ELSE [day |-> r.day + 1, minute |-> 0, second |-> 0]

\* The same instant read k minutes along, k at most a day either way.
Moved(r, k) ==
  LET m == r.minute + k
  IN  IF m < 0 THEN [r EXCEPT !.day = @ - 1, !.minute = m + MinutesPerDay]
      ELSE IF m >= MinutesPerDay
           THEN [r EXCEPT !.day = @ + 1, !.minute = m - MinutesPerDay]
           ELSE [r EXCEPT !.minute = m]

\* A trusted clock ignores a replayed time and a read of the RTC; a replayed
\* time never earns trust.  Each has a variant that does less, for the checks.
IgnoredReplay(s) == trusted /\ s.source = "Retained"
IgnoredStale(s)  == trusted /\ s.source \in {"Retained", "Rtc"}
TrustingAny(s)   == s.source \in Source
Trusting(s)      == s.source \in {"Live", "Rtc", "Manual"}

\* A time set by hand has no offset; the RTC gives back whichever it was last
\* set with, or none.
SyncOffsets(s) ==
  CASE s.source = "Manual" -> {None}
    [] s.source = "Rtc"    -> {None, 0, ZoneShift}
    [] OTHER               -> {season}

\* The clock once the pending time, if any, is taken: [reading, offset,
\* trusted, by].
Held == [reading |-> reading, offset |-> offset, trusted |-> trusted,
         by |-> anchoredBy]
Aligned ==
  IF sync = None \/ IgnoredStale(sync) THEN {Held}
  ELSE {[reading |-> sync.wall, offset |-> o,
         trusted |-> trusted \/ Trusting(sync), by |-> sync.source] :
            o \in SyncOffsets(sync)}

\* follow_zone: a trusted reading in another offset than the timezone's is
\* moved to it, and one without an offset is given it.  Nothing moves within
\* HA_WINS_MS of a live time or with no timezone stored: how long ago the last
\* live time was, and whether a timezone is stored, are left open.
Zoned(c) ==
  IF c.offset \in {None, season} THEN [c EXCEPT !.offset = season]
  ELSE [c EXCEPT !.offset = season, !.reading = Moved(@, season - c.offset)]
LiveNow == sync # None /\ sync.source = "Live"
Followed(c) ==
  {c} \cup {z \in {Zoned(c)} : c.trusted /\ ~LiveNow /\ z.reading \in Reading}
-----------------------------------------------------------------------------
(***************************************************************************)
(* Scheduler::next_due.                                                    *)
(***************************************************************************)

\* The minute nothing at or before which is revisited at w; -1 when a later
\* date has re-armed every slot.
\* The variant revisits the marker's own slot.
AfterInclusive(w) ==
  IF consumed = None THEN -1
  ELSE IF consumed.day < w.day THEN -1 ELSE consumed.minute - 1
After(w) ==
  IF consumed = None THEN -1
  ELSE IF consumed.day < w.day THEN -1 ELSE consumed.minute

\* A marker left in the future by a clock moved back is re-dated.  The variant
\* re-arms the day.
RedatedBefore(w) ==
  IF consumed # None /\ consumed.day > w.day
  THEN [consumed EXCEPT !.day = w.day - 1] ELSE consumed
Redated(w) ==
  IF consumed # None /\ consumed.day > w.day
  THEN [consumed EXCEPT !.day = w.day] ELSE consumed

Outstanding(m, w) == {s \in m : s <= w.minute /\ s > After(w)}
Lateness(s, w)    == (w.minute - s) * SecondsPerMinute + w.second

\* How the slot at minute s is resolved at w.  A meal to feed goes to BUS.feed,
\* or is lost when that is full: either way the slot does not come back.  The
\* variants take no baseline, and count the limit itself as too late.
ResolutionUnbaselined(s, w) ==
  IF Lateness(s, w) > MAX_LATENESS_S THEN "TooLate"
  ELSE IF paused THEN "Paused" ELSE "Feed"
ResolutionAtLimit(s, w) ==
  IF ~baselined THEN "Baseline"
  ELSE IF Lateness(s, w) >= MAX_LATENESS_S THEN "TooLate"
  ELSE IF paused THEN "Paused" ELSE "Feed"
Resolution(s, w) ==
  IF ~baselined THEN "Baseline"
  ELSE IF Lateness(s, w) > MAX_LATENESS_S THEN "TooLate"
  ELSE IF paused THEN "Paused" ELSE "Feed"

\* What the look at w adds to the history variables.
Looked(w) ==
  /\ horizon' = IF horizon = None THEN [day |-> w.day, minute |-> w.minute]
                ELSE IF w.day > horizon.day
                     THEN [day |-> w.day, minute |-> w.minute]
                ELSE IF w.day < horizon.day
                     THEN [day |-> w.day, minute |-> MinutesPerDay - 1]
                ELSE IF w.minute > horizon.minute
                     THEN [day |-> w.day, minute |-> w.minute] ELSE horizon
  /\ back' = \/ back
             \/ /\ horizon # None
                /\ \/ w.day < horizon.day
                   \/ ~baselined /\ w.day = horizon.day /\ w.minute < horizon.minute

AlreadyResolved(d, s) == \E fed \in BOOLEAN : <<d, s, fed>> \in resolved

NextDue(m, w) ==
  /\ Looked(w)
  /\ baselined' = TRUE
  /\ \/ /\ Outstanding(m, w) = {}
        /\ consumed' = Redated(w)
        /\ due' = None
        /\ UNCHANGED <<resolved, again>>
     \/ \E s \in Outstanding(m, w) :
          /\ \A t \in Outstanding(m, w) : t <= s
          /\ consumed' = [day |-> w.day, minute |-> s]
          /\ due' = [minute |-> s, how |-> Resolution(s, w)]
          /\ resolved' = resolved \cup {<<w.day, s, Resolution(s, w) = "Feed">>}
          /\ again' = \/ again
                      \/ Resolution(s, w) = "Feed" /\ AlreadyResolved(w.day, s)
-----------------------------------------------------------------------------
(***************************************************************************)
(* The schedule task and what happens around it.                           *)
(***************************************************************************)
Init ==
  /\ reading = None /\ offset = None /\ trusted = FALSE
  /\ sync = None /\ season = 0 /\ wanted = None
  /\ stored \in {None} \cup Schedules
  /\ meals = (IF stored = None THEN {} ELSE stored)
  /\ received = (stored # None)
  /\ consumed = None /\ baselined = FALSE
  /\ paused \in BOOLEAN
  /\ anchoredBy = None /\ due = None /\ resolved = {} /\ again = FALSE /\ horizon = None
  /\ back = FALSE /\ edited = FALSE /\ restarts = 0

\* apply_commands and accept_schedule: flash first, and in force whether or
\* not flash took it.  A write that fails may leave the old record or none.
ApplyCommands ==
  /\ wanted' = None
  /\ IF wanted = None \/ (received /\ wanted = meals)
     THEN UNCHANGED <<stored, meals, received, edited>>
     ELSE /\ stored' \in {wanted} \cup (IF FlashFails THEN {stored, None} ELSE {})
          /\ meals' = wanted
          /\ received' = TRUE
          /\ edited' = (edited \/ restarts > 0)

\* One pass of schedule_task: take the time, apply the commands, follow the
\* timezone, and resolve at most one slot if the clock is trusted.
Look ==
  \E a \in Aligned :
    \E c \in Followed(a) :
        /\ sync' = None
        /\ reading' = c.reading /\ offset' = c.offset /\ trusted' = c.trusted
        /\ anchoredBy' = c.by
        /\ ApplyCommands
        /\ IF c.trusted /\ received'
           THEN NextDue(meals', c.reading)
           ELSE /\ due' = None
                /\ UNCHANGED <<consumed, baselined, resolved, again, horizon, back>>
        /\ UNCHANGED <<season, paused, restarts>>

\* Time passes: a pending time is pinned to when it was heard, so it moves on
\* with the clock.
Second ==
  /\ reading # None \/ sync # None
  /\ reading # None => Succ(reading) \in Reading
  /\ sync # None => Succ(sync.wall) \in Reading
  /\ reading' = IF reading = None THEN None ELSE Succ(reading)
  /\ sync' = IF sync = None THEN None ELSE [sync EXCEPT !.wall = Succ(@)]
  /\ due' = None
  /\ UNCHANGED <<offset, trusted, season, wanted, stored, schedulerVars,
                 paused, ghostVars>>

\* A time arrives from MQTT, the RTC or the admin page; a Signal keeps only
\* the newest.
Hear(source, wall) ==
  /\ sync' = [source |-> source, wall |-> wall]
  /\ due' = None
  /\ UNCHANGED <<clockVars, season, wanted, stored, schedulerVars, paused,
                 ghostVars>>

\* Summer time begins or ends in the stored timezone.
SeasonChange ==
  /\ ZoneShift > 0
  /\ season' = ZoneShift - season
  /\ due' = None
  /\ UNCHANGED <<clockVars, sync, wanted, stored, schedulerVars, paused,
                 ghostVars>>

\* A schedule command is queued for the next look.
Command(s) ==
  /\ wanted' = s
  /\ due' = None
  /\ UNCHANGED <<clockVars, sync, season, stored, schedulerVars, paused,
                 ghostVars>>

SetPause(p) ==
  /\ paused' = p /\ p # paused
  /\ due' = None
  /\ UNCHANGED <<clockVars, sync, season, wanted, stored, schedulerVars,
                 ghostVars>>

\* A reset or a power cut: everything but flash is lost.
Restart ==
  /\ restarts < MaxRestarts
  /\ restarts' = restarts + 1
  /\ reading' = None /\ offset' = None /\ trusted' = FALSE
  /\ sync' = None /\ wanted' = None
  /\ meals' = (IF stored = None THEN {} ELSE stored)
  /\ received' = (stored # None)
  /\ consumed' = None /\ baselined' = FALSE
  /\ anchoredBy' = None /\ due' = None
  /\ UNCHANGED <<season, stored, paused, resolved, again, horizon, back, edited>>

Next ==
  \/ Look
  \/ Second
  \/ \E s \in Sources, w \in SyncWalls : Hear(s, w)
  \/ SeasonChange
  \/ \E s \in Schedules : Command(s)
  \/ \E p \in BOOLEAN : SetPause(p)
  \/ Restart

Spec == Init /\ [][Next]_vars
-----------------------------------------------------------------------------
\* The type of every variable: what LocalClock, Scheduler and the bus hold.
TypeOK ==
  /\ reading \in {None} \cup Reading
  /\ offset \in {None, 0, ZoneShift} /\ season \in {0, ZoneShift}
  /\ trusted \in BOOLEAN
  /\ sync \in {None} \cup Sync
  /\ wanted \in {None} \cup SUBSET Minutes /\ stored \in {None} \cup SUBSET Minutes
  /\ meals \in SUBSET Minutes
  /\ received \in BOOLEAN /\ baselined \in BOOLEAN /\ paused \in BOOLEAN
  /\ consumed \in {None} \cup Mark /\ horizon \in {None} \cup Mark
  /\ anchoredBy \in {None} \cup Source
  /\ due \in {None} \cup Due
  /\ resolved \in SUBSET (Days \X Minutes \X BOOLEAN)
  /\ again \in BOOLEAN /\ back \in BOOLEAN /\ edited \in BOOLEAN
  /\ restarts \in 0 .. MaxRestarts

\* A slot resolved on a date, whether fed, late, paused, dropped or taken as
\* the baseline, is never fed on that date afterwards, restarts included: as
\* long as the date looked at never goes back, a restart does not find the
\* clock behind where it was, and no schedule is put in force after a restart.
NeverTwice == (~back /\ ~edited) => ~again

\* Nothing resolved lies ahead of the horizon.
ResolvedBehind ==
  \A d \in Days, m \in Minutes : AlreadyResolved(d, m) =>
    horizon # None /\ d <= horizon.day /\ (d = horizon.day => m <= horizon.minute)

\* Once the look since this start has taken its baseline, the marker covers
\* every slot resolved on the day of the last look, or the slot was resolved
\* before a restart and is in no schedule now.
Covered(m) ==
  \/ consumed # None /\ consumed.day = horizon.day /\ m <= consumed.minute
  \/ restarts > 0 /\ m \notin meals

\* Why NeverTwice holds: the one marker in memory, which a restart loses, and
\* the baseline taken after it stand between every slot already resolved and a
\* second feed.
MarkerCovers ==
  (~back /\ ~edited) =>
    /\ ~again /\ ResolvedBehind
    /\ consumed # None => horizon # None /\ consumed.day <= horizon.day
    /\ baselined =>
         /\ horizon # None /\ received
         /\ \A m \in Minutes : AlreadyResolved(horizon.day, m) => Covered(m)
    /\ ~baselined => consumed = None /\ (restarts = 0 => resolved = {})

\* A trusted clock runs from a time that earned trust: a retained time never
\* moves it, in whatever order times arrive and overwrite each other.
TrustIsEarned == trusted => anchoredBy \in {"Live", "Rtc", "Manual"}

\* Within one life a clock set live or by hand never goes back to running from
\* an RTC read or a replayed time.
FresherTimeKept ==
  [][(anchoredBy \in {"Live", "Manual"} /\ restarts' = restarts)
       => anchoredBy' \in {"Live", "Manual"}]_vars

\* The look that first has a schedule to look at feeds nothing, however long
\* the clock has been trusted before it.
FirstScheduleOnlyBaselines ==
  [][(~received /\ received') => due' = None \/ due'.how # "Feed"]_vars

\* The slots of m still ahead of every look since the date last moved forward,
\* and come due by w.
Crossed(m, w) ==
  {s \in m : s <= w.minute /\ (w.day > horizon.day \/ s > horizon.minute)}

\* No meal is silently skipped: the first look past an enabled slot, within
\* the lateness limit, resolves it, and feeds it unless paused.  A clock once dated into the
\* future keeps the promise again from the next midnight on.
PromptMeal ==
  [][ (horizon # None /\ horizon' # horizon /\ horizon'.day >= horizon.day /\ baselined)
      => \A s \in Crossed(meals', reading') :
           ((\A t \in Crossed(meals', reading') : t <= s)
              /\ Lateness(s, reading') <= MAX_LATENESS_S)
           => due' = [minute |-> s, how |-> IF paused THEN "Paused" ELSE "Feed"] ]_vars
-----------------------------------------------------------------------------
(***************************************************************************)
(* What the source says and the code does not do.                          *)
(***************************************************************************)

\* docs/adr/0002: "a clock moved back across midnight keeps the marker, so a
\* date set wrong and then corrected cannot serve a meal twice".  A slot that was
\* fed on the date the clock is back to is not fed there again.
DateCorrectionNeverRepeats ==
  [][(due' # None /\ due' # due /\ horizon # None /\ horizon'.day = horizon.day)
       => ~(due'.how = "Feed" /\ <<horizon.day, due'.minute, TRUE>> \in resolved)]_vars
=============================================================================
