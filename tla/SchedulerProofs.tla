--------------------------- MODULE SchedulerProofs ---------------------------
(***************************************************************************)
(* Scheduler, for every calendar, schedule and number of restarts: its     *)
(* type is correct, a trusted clock runs from a time that earned trust, no *)
(* slot resolved on a date is fed on it again, the first look with a       *)
(* schedule feeds nothing, and no slot a look crosses is skipped.          *)
(***************************************************************************)
EXTENDS Scheduler, TLAPS

\* The clock as Aligned and Followed pass it on.
Clock == [reading : {None} \cup Reading, offset : {None, 0, ZoneShift},
          trusted : BOOLEAN, by : {None} \cup Source]
SoundClock(c) ==
  /\ c \in Clock
  /\ c.trusted => c.reading # None
  /\ c.trusted => c.by \in {"Live", "Rtc", "Manual"}

\* A trusted clock has a reading, and a source that earned the trust.
ClockInv == SoundClock(Held)

LEMMA NoneFacts ==
  /\ None \notin Reading /\ None \notin Mark /\ None \notin Sync
  /\ None \notin Due /\ None \notin SUBSET Minutes /\ None \notin Source
BY SchedulerAssumption

LEMMA AlignedSound ==
  ASSUME TypeOK, ClockInv, NEW a \in Aligned
  PROVE  SoundClock(a)
<1>1. CASE sync = None \/ IgnoredStale(sync)
  BY <1>1 DEF ClockInv, Aligned
<1>2. CASE ~(sync = None \/ IgnoredStale(sync))
  <2>1. sync \in Sync /\ sync.wall \in Reading /\ sync.source \in Source
    BY <1>2 DEF TypeOK, Sync
  <2>2. PICK o \in SyncOffsets(sync) :
          a = [reading |-> sync.wall, offset |-> o,
               trusted |-> trusted \/ Trusting(sync), by |-> sync.source]
    BY <1>2 DEF Aligned
  <2>3. o \in {None, 0, ZoneShift}
    BY <2>2 DEF SyncOffsets, TypeOK
  <2>4. trusted \/ Trusting(sync) => sync.source \in {"Live", "Rtc", "Manual"}
    BY <1>2, <2>1 DEF IgnoredStale, Trusting, Source
  <2>5. (trusted \/ Trusting(sync)) \in BOOLEAN
    BY DEF TypeOK, Trusting
  <2>. QED
    BY <2>1, <2>2, <2>3, <2>4, <2>5, NoneFacts DEF SoundClock, Clock
<1>. QED BY <1>1, <1>2

LEMMA FollowedSound ==
  ASSUME TypeOK, NEW a, SoundClock(a), NEW c \in Followed(a)
  PROVE  SoundClock(c)
<1>1. CASE c = a
  BY <1>1
<1>2. CASE c = Zoned(a) /\ a.trusted /\ c.reading \in Reading
  <2>1. c.by = a.by /\ c.trusted = a.trusted /\ c.offset = season
        /\ c = [reading |-> c.reading, offset |-> season,
                trusted |-> a.trusted, by |-> a.by]
    BY <1>2 DEF Zoned, SoundClock, Clock
  <2>. QED
    BY <1>2, <2>1, NoneFacts DEF SoundClock, Clock, TypeOK
<1>. QED BY <1>1, <1>2 DEF Followed
-----------------------------------------------------------------------------
\* What one look does once its clock is c.
LooksWith(c) ==
  /\ reading' = c.reading /\ offset' = c.offset /\ trusted' = c.trusted
  /\ anchoredBy' = c.by /\ sync' = None
  /\ ApplyCommands
  /\ IF c.trusted /\ received'
     THEN NextDue(meals', c.reading)
     ELSE /\ due' = None
          /\ UNCHANGED <<consumed, baselined, resolved, again, horizon, back>>
  /\ UNCHANGED <<season, paused, restarts>>

LEMMA LookHasClock ==
  ASSUME TypeOK, ClockInv, Look
  PROVE  \E c \in Clock : /\ SoundClock(c) /\ LooksWith(c)
                          /\ c.trusted => c.reading \in Reading
<1>1. PICK a \in Aligned : \E c \in Followed(a) : LooksWith(c)
  BY DEF Look, LooksWith
<1>2. PICK c \in Followed(a) : LooksWith(c)
  BY <1>1
<1>3. SoundClock(c)
  BY AlignedSound, FollowedSound
<1>. QED
  BY <1>2, <1>3 DEF SoundClock, Clock

LEMMA NextDueType ==
  ASSUME TypeOK, NEW m \in SUBSET Minutes, NEW w \in Reading, NextDue(m, w)
  PROVE  /\ consumed' \in {None} \cup Mark /\ horizon' \in {None} \cup Mark
         /\ baselined' \in BOOLEAN /\ back' \in BOOLEAN /\ again' \in BOOLEAN
         /\ due' \in {None} \cup Due
         /\ resolved' \in SUBSET (Days \X Minutes \X BOOLEAN)
<1>. USE SchedulerAssumption, NoneFacts
<1>1. w.day \in Days /\ w.minute \in Minutes /\ MinutesPerDay - 1 \in Minutes
  BY DEF Reading, Minutes
<1>2. horizon' \in {None} \cup Mark /\ back' \in BOOLEAN
  BY <1>1 DEF NextDue, Looked, TypeOK, Mark
<1>3. baselined' \in BOOLEAN
  BY DEF NextDue
<1>4. CASE Outstanding(m, w) = {} /\ consumed' = Redated(w) /\ due' = None
           /\ UNCHANGED <<resolved, again>>
  <2>1. consumed' \in {None} \cup Mark
    BY <1>1, <1>4 DEF Redated, TypeOK, Mark
  <2>. QED BY <1>2, <1>3, <1>4, <2>1 DEF TypeOK
<1>5. ASSUME NEW s \in Outstanding(m, w),
             consumed' = [day |-> w.day, minute |-> s],
             due' = [minute |-> s, how |-> Resolution(s, w)],
             resolved' = resolved \cup {<<w.day, s, Resolution(s, w) = "Feed">>},
             again' = \/ again
                      \/ Resolution(s, w) = "Feed" /\ AlreadyResolved(w.day, s)
      PROVE  /\ consumed' \in Mark /\ again' \in BOOLEAN /\ due' \in Due
             /\ resolved' \in SUBSET (Days \X Minutes \X BOOLEAN)
  <2>1. s \in Minutes
    BY <1>5 DEF Outstanding
  <2>2. Resolution(s, w) \in Outcome
    BY DEF Resolution, Outcome
  <2>3. consumed' \in Mark /\ due' \in Due
    BY <1>1, <1>5, <2>1, <2>2 DEF Mark, Due
  <2>4. resolved' \in SUBSET (Days \X Minutes \X BOOLEAN)
    <3>. DEFINE fed == Resolution(s, w) = "Feed"
    <3>1. fed \in BOOLEAN
      OBVIOUS
    <3>2. resolved' = resolved \cup {<<w.day, s, fed>>}
      BY <1>5
    <3>. HIDE DEF fed
    <3>. QED BY <1>1, <2>1, <3>1, <3>2 DEF TypeOK
  <2>5. again' \in BOOLEAN
    BY <1>5 DEF TypeOK
  <2>. QED BY <2>3, <2>4, <2>5
<1>. QED
  BY <1>2, <1>3, <1>4, <1>5 DEF NextDue

\* What a schedule command leaves in force.
LEMMA ApplyCommandsType ==
  ASSUME TypeOK, ApplyCommands
  PROVE  /\ wanted' \in {None} \cup SUBSET Minutes
         /\ stored' \in {None} \cup SUBSET Minutes
         /\ meals' \in SUBSET Minutes
         /\ received' \in BOOLEAN /\ edited' \in BOOLEAN
<1>1. CASE wanted = None \/ (received /\ wanted = meals)
  BY <1>1 DEF ApplyCommands, TypeOK
<1>2. CASE ~(wanted = None \/ (received /\ wanted = meals))
  <2>1. wanted \in SUBSET Minutes
    BY <1>2 DEF TypeOK
  <2>. QED
    BY <1>2, <2>1 DEF ApplyCommands, TypeOK
<1>. QED BY <1>1, <1>2

LEMMA TypeInit == Init => TypeOK /\ ClockInv
<1>. SUFFICES ASSUME Init PROVE TypeOK /\ ClockInv
  OBVIOUS
<1>1. stored \in {None} \cup SUBSET Minutes /\ meals \in SUBSET Minutes
  BY SchedulerAssumption DEF Init
<1>2. received \in BOOLEAN /\ restarts \in 0 .. MaxRestarts
  BY SchedulerAssumption DEF Init
<1>3. TypeOK
  BY <1>1, <1>2 DEF Init, TypeOK
<1>4. ClockInv
  BY <1>3 DEF Init, ClockInv, SoundClock, Clock, Held, TypeOK
<1>. QED BY <1>3, <1>4

LEMMA TypeNext ==
  ASSUME TypeOK, ClockInv, [Next]_vars
  PROVE  TypeOK' /\ ClockInv'
<1>. USE SchedulerAssumption, NoneFacts
<1>1. CASE Look
  <2>1. PICK c \in Clock : /\ SoundClock(c) /\ LooksWith(c)
                           /\ c.trusted => c.reading \in Reading
    BY <1>1, LookHasClock
  <2>2. /\ consumed' \in {None} \cup Mark /\ horizon' \in {None} \cup Mark
        /\ baselined' \in BOOLEAN /\ back' \in BOOLEAN /\ again' \in BOOLEAN
        /\ due' \in {None} \cup Due
        /\ resolved' \in SUBSET (Days \X Minutes \X BOOLEAN)
    BY <2>1, NextDueType, ApplyCommandsType DEF TypeOK, LooksWith
  <2>3. TypeOK'
    BY <2>1, <2>2, ApplyCommandsType DEF TypeOK, Clock, LooksWith
  <2>4. Held' = c
    BY <2>1 DEF Held, Clock, LooksWith
  <2>. QED BY <2>1, <2>3, <2>4 DEF ClockInv, SoundClock
<1>2. CASE Second
  <2>1. TypeOK'
    BY <1>2 DEF Second, TypeOK, schedulerVars, ghostVars, Sync
  <2>2. trusted => reading' # None
    BY <1>2 DEF Second, ClockInv, SoundClock, Held
  <2>. QED
    BY <1>2, <2>1, <2>2 DEF Second, ClockInv, SoundClock, Held, Clock, TypeOK, ghostVars
<1>3. ASSUME NEW s \in Sources, NEW w \in SyncWalls, Hear(s, w)
      PROVE  TypeOK' /\ ClockInv'
  BY <1>3 DEF Hear, TypeOK, ClockInv, SoundClock, Held, clockVars, schedulerVars,
              ghostVars, Sync
<1>4. CASE SeasonChange
  BY <1>4 DEF SeasonChange, TypeOK, ClockInv, SoundClock, Held, clockVars,
              schedulerVars, ghostVars
<1>5. ASSUME NEW s \in Schedules, Command(s)
      PROVE  TypeOK' /\ ClockInv'
  BY <1>5 DEF Command, TypeOK, ClockInv, SoundClock, Held, clockVars,
              schedulerVars, ghostVars
<1>6. ASSUME NEW p \in BOOLEAN, SetPause(p)
      PROVE  TypeOK' /\ ClockInv'
  BY <1>6 DEF SetPause, TypeOK, ClockInv, SoundClock, Held, clockVars,
              schedulerVars, ghostVars
<1>7. CASE Restart
  <2>1. TypeOK'
    <3>1. meals' \in SUBSET Minutes /\ received' \in BOOLEAN
      BY <1>7 DEF Restart, TypeOK
    <3>2. restarts' \in 0 .. MaxRestarts
      BY <1>7 DEF Restart, TypeOK
    <3>. QED BY <1>7, <3>1, <3>2 DEF Restart, TypeOK
  <2>. QED
    BY <1>7, <2>1 DEF Restart, ClockInv, SoundClock, Held, Clock, TypeOK
<1>8. CASE UNCHANGED vars
  BY <1>8 DEF vars, TypeOK, ClockInv, SoundClock, Held, clockVars, schedulerVars,
              ghostVars
<1>. QED
  BY <1>1, <1>2, <1>3, <1>4, <1>5, <1>6, <1>7, <1>8 DEF Next

\* Every variable of the scheduler keeps its type, for every calendar.
THEOREM TypeCorrect == Spec => []TypeOK
<1>1. Init => TypeOK /\ ClockInv
  BY TypeInit
<1>2. TypeOK /\ ClockInv /\ [Next]_vars => TypeOK' /\ ClockInv'
  BY TypeNext
<1>. QED BY <1>1, <1>2, PTL DEF Spec

\* LocalClock never trusts a time that did not earn it, whatever order times
\* arrive in and however many restarts there are.
THEOREM TrustEarned == Spec => []TrustIsEarned
<1>1. Init => TypeOK /\ ClockInv
  BY TypeInit
<1>2. TypeOK /\ ClockInv /\ [Next]_vars => TypeOK' /\ ClockInv'
  BY TypeNext
<1>3. ClockInv => TrustIsEarned
  BY DEF ClockInv, SoundClock, Held, TrustIsEarned
<1>. QED BY <1>1, <1>2, <1>3, PTL DEF Spec
-----------------------------------------------------------------------------
(***************************************************************************)
(* Never twice.  MarkerCovers is inductive; the only step that is not      *)
(* bookkeeping is the look, and what it resolves is settled here first.    *)
(***************************************************************************)

\* What resolving slot s of day d adds to the slots already resolved.
LEMMA ResolvedGrows ==
  ASSUME NEW d, NEW s, NEW fed \in BOOLEAN,
         resolved' = resolved \cup {<<d, s, fed>>}
  PROVE  \A e, m : AlreadyResolved(e, m)' <=> AlreadyResolved(e, m) \/ (e = d /\ m = s)
<1>1. ASSUME NEW e, NEW m
      PROVE  AlreadyResolved(e, m)' <=> AlreadyResolved(e, m) \/ (e = d /\ m = s)
  BY <1>1 DEF AlreadyResolved
<1>. QED BY <1>1

\* A look that changes the schedule after a restart sets edited.
LEMMA EditedOrSame ==
  ASSUME TypeOK, ApplyCommands, ~edited'
  PROVE  /\ ~edited
         /\ restarts = 0 \/ meals' = meals
         /\ received => received'
<1>1. restarts \in Nat
  BY SchedulerAssumption DEF TypeOK
<1>2. CASE wanted = None \/ (received /\ wanted = meals)
  BY <1>2 DEF ApplyCommands
<1>3. CASE ~(wanted = None \/ (received /\ wanted = meals))
  <2>1. received' /\ ~edited /\ ~(restarts > 0)
    BY <1>3 DEF ApplyCommands
  <2>. QED BY <1>1, <2>1
<1>. QED BY <1>2, <1>3

\* The slots a look finds outstanding and the slots already resolved that day
\* have nothing in common, and every slot it leaves behind is covered.
LEMMA LookKeepsCover ==
  ASSUME TypeOK, NEW m \in SUBSET Minutes, NEW w \in Reading, MarkerCovers,
         NextDue(m, w), ~back', ~edited, restarts' = restarts,
         meals' = m, restarts = 0 \/ m = meals
  PROVE  /\ ~again' /\ ResolvedBehind'
         /\ consumed' # None => horizon' # None /\ consumed'.day <= horizon'.day
         /\ baselined' /\ horizon' # None
         /\ \A s \in Minutes : AlreadyResolved(horizon.day, s)' => Covered(s)'
<1>. USE SchedulerAssumption, NoneFacts
<1>. DEFINE Old(s) == AlreadyResolved(w.day, s)
<1>1. /\ w.day \in Nat /\ w.minute \in Nat /\ Minutes \subseteq Nat /\ Days \subseteq Nat
      /\ w.day \in Days /\ w.minute \in Minutes
  BY DEF Reading, Minutes, Days
<1>2. /\ horizon # None => horizon.day \in Nat /\ horizon.minute \in Nat
      /\ consumed # None => consumed.day \in Nat /\ consumed.minute \in Nat
  BY <1>1 DEF TypeOK, Mark
<1>3. /\ ~back /\ ~again /\ ResolvedBehind
      /\ consumed # None => horizon # None /\ consumed.day <= horizon.day
      /\ baselined => \A s \in Minutes : AlreadyResolved(horizon.day, s) => Covered(s)
      /\ ~baselined => consumed = None /\ (restarts = 0 => resolved = {})
  BY DEF MarkerCovers, NextDue, Looked
<1>4. \/ horizon = None
      \/ w.day > horizon.day
      \/ w.day = horizon.day /\ (baselined \/ w.minute >= horizon.minute)
  BY <1>1, <1>2 DEF NextDue, Looked
<1>5. /\ horizon' # None /\ horizon'.day = w.day
      /\ horizon'.minute \in Nat /\ w.minute <= horizon'.minute
      /\ horizon # None /\ horizon.day = w.day => horizon.minute <= horizon'.minute
      /\ horizon # None => horizon.day <= w.day
  <2>1. horizon' \in {None} \cup Mark
    BY NextDueType
  <2>2. horizon' = [day |-> w.day, minute |-> w.minute]
        \/ (horizon # None /\ horizon' = horizon /\ w.day = horizon.day
              /\ w.minute <= horizon.minute)
    BY <1>1, <1>2, <1>4 DEF NextDue, Looked
  <2>3. [day |-> w.day, minute |-> w.minute] \in Mark
    BY <1>1 DEF Mark
  <2>4. CASE horizon' = [day |-> w.day, minute |-> w.minute]
             /\ ~(horizon # None /\ horizon.day = w.day /\ horizon.minute > w.minute)
    <3>1. horizon' # None /\ horizon'.day = w.day /\ horizon'.minute = w.minute
      BY <2>3, <2>4
    <3>2. horizon # None => horizon.day <= w.day
      BY <1>1, <1>2, <1>4
    <3>. QED BY <1>1, <1>2, <2>4, <3>1, <3>2
  <2>5. CASE horizon # None /\ horizon' = horizon /\ w.day = horizon.day
             /\ w.minute <= horizon.minute
    BY <1>1, <1>2, <2>5
  <2>6. (horizon # None /\ horizon.day = w.day /\ horizon.minute > w.minute)
          => horizon' = horizon
    BY <1>1, <1>2 DEF NextDue, Looked
  <2>. QED BY <1>1, <1>2, <2>2, <2>4, <2>5, <2>6
<1>6. \A s \in Minutes : Old(s) =>
        horizon # None /\ horizon.day = w.day /\ s <= horizon.minute
  BY <1>1, <1>2, <1>3, <1>5 DEF ResolvedBehind
<1>7. \A d \in Days, s \in Minutes :
        AlreadyResolved(d, s) => d <= w.day /\ (d = w.day => s <= horizon'.minute)
  <2>. SUFFICES ASSUME NEW d \in Days, NEW s \in Minutes, AlreadyResolved(d, s)
                PROVE  d <= w.day /\ (d = w.day => s <= horizon'.minute)
    OBVIOUS
  <2>1. horizon # None /\ d <= horizon.day /\ (d = horizon.day => s <= horizon.minute)
    BY <1>3 DEF ResolvedBehind
  <2>. QED BY <1>1, <1>2, <1>5, <2>1
<1>8. \A s \in Minutes : Old(s) /\ s \in Outstanding(m, w) => ~baselined
  <2>. SUFFICES ASSUME NEW s \in Minutes, Old(s), s \in Outstanding(m, w), baselined
                PROVE  FALSE
    OBVIOUS
  <2>1. Covered(s)
    BY <1>3, <1>6
  <2>2. s \in m /\ s > After(w)
    BY DEF Outstanding
  <2>3. CASE consumed # None /\ consumed.day = horizon.day /\ s <= consumed.minute
    BY <1>1, <1>2, <1>6, <2>2, <2>3 DEF After
  <2>4. CASE restarts > 0 /\ s \notin meals
    BY <2>2, <2>4
  <2>. QED BY <2>1, <2>3, <2>4 DEF Covered
<1>9. ASSUME ~baselined, NEW s \in Minutes, Old(s)
      PROVE  restarts > 0 /\ (s \in m => s \in Outstanding(m, w))
  <2>1. restarts # 0
    BY <1>3, <1>9 DEF AlreadyResolved
  <2>2. s <= w.minute
    BY <1>1, <1>2, <1>4, <1>6, <1>9
  <2>3. After(w) = -1
    BY <1>3, <1>9 DEF After
  <2>. QED BY <1>1, <2>1, <2>2, <2>3 DEF Outstanding, TypeOK
<1>10. CASE Outstanding(m, w) = {} /\ consumed' = Redated(w) /\ UNCHANGED <<resolved, again>>
  <2>1. consumed' = consumed /\ (consumed # None => consumed.day <= w.day)
    BY <1>1, <1>2, <1>3, <1>5, <1>10 DEF Redated
  <2>2. ResolvedBehind'
    BY <1>5, <1>7, <1>10 DEF ResolvedBehind, AlreadyResolved
  <2>3. ASSUME NEW s \in Minutes, AlreadyResolved(horizon.day, s)'
        PROVE  Covered(s)'
    <3>1. Old(s)
      BY <1>5, <1>10, <2>3 DEF AlreadyResolved
    <3>2. CASE baselined
      <4>1. Covered(s) /\ horizon.day = w.day
        BY <1>3, <1>6, <3>1, <3>2
      <4>. QED BY <1>5, <2>1, <4>1 DEF Covered
    <3>3. CASE ~baselined
      BY <1>9, <1>10, <3>1, <3>3 DEF Covered
    <3>. QED BY <3>2, <3>3
  <2>. QED BY <1>3, <1>5, <1>10, <2>1, <2>2, <2>3 DEF NextDue
<1>11. ASSUME NEW s \in Outstanding(m, w),
              \A t \in Outstanding(m, w) : t <= s,
              consumed' = [day |-> w.day, minute |-> s],
              resolved' = resolved \cup {<<w.day, s, Resolution(s, w) = "Feed">>},
              again' = \/ again
                       \/ Resolution(s, w) = "Feed" /\ AlreadyResolved(w.day, s)
       PROVE  /\ ~again' /\ ResolvedBehind'
              /\ \A t \in Minutes : AlreadyResolved(horizon.day, t)' => Covered(t)'
  <2>1. s \in Minutes /\ s \in m /\ s <= w.minute /\ s > After(w)
    BY <1>11 DEF Outstanding
  <2>2. \A d, t : AlreadyResolved(d, t)' <=> AlreadyResolved(d, t) \/ (d = w.day /\ t = s)
    <3>. DEFINE fed == Resolution(s, w) = "Feed"
    <3>1. fed \in BOOLEAN /\ resolved' = resolved \cup {<<w.day, s, fed>>}
      BY <1>11
    <3>. HIDE DEF fed
    <3>. QED BY <3>1, ResolvedGrows
  <2>3. ~again'
    BY <1>3, <1>8, <1>11, <2>1 DEF Resolution
  <2>4. ResolvedBehind'
    BY <1>1, <1>5, <1>7, <2>1, <2>2 DEF ResolvedBehind
  <2>5. consumed' \in Mark /\ consumed' # None /\ consumed'.day = w.day /\ consumed'.minute = s
    BY <1>1, <1>11, <2>1 DEF Mark
  <2>6. ASSUME NEW t \in Minutes, AlreadyResolved(horizon.day, t)'
        PROVE  Covered(t)'
    <3>1. CASE t = s
      BY <1>1, <1>5, <2>1, <2>5, <3>1 DEF Covered
    <3>2. CASE t # s
      <4>1. Old(t)
        BY <1>5, <2>2, <2>6, <3>2
      <4>2. CASE baselined
        <5>1. Covered(t) /\ horizon.day = w.day
          BY <1>3, <1>6, <4>1, <4>2
        <5>2. CASE consumed # None /\ consumed.day = horizon.day /\ t <= consumed.minute
          <6>1. t <= s
            BY <1>1, <1>2, <2>1, <5>1, <5>2 DEF After
          <6>. QED BY <1>5, <2>5, <6>1 DEF Covered
        <5>3. CASE restarts > 0 /\ t \notin meals
          BY <5>3 DEF Covered
        <5>. QED BY <5>1, <5>2, <5>3 DEF Covered
      <4>3. CASE ~baselined
        <5>1. restarts > 0 /\ (t \in m => t <= s)
          BY <1>9, <1>11, <4>1, <4>3
        <5>. QED BY <1>5, <2>5, <5>1 DEF Covered
      <4>. QED BY <4>2, <4>3
    <3>. QED BY <3>1, <3>2
  <2>. QED BY <2>3, <2>4, <2>6
<1>12. CASE Outstanding(m, w) # {}
  <2>1. PICK s \in Outstanding(m, w) :
          /\ \A t \in Outstanding(m, w) : t <= s
          /\ consumed' = [day |-> w.day, minute |-> s]
          /\ resolved' = resolved \cup {<<w.day, s, Resolution(s, w) = "Feed">>}
          /\ again' = \/ again
                      \/ Resolution(s, w) = "Feed" /\ AlreadyResolved(w.day, s)
    BY <1>12 DEF NextDue
  <2>. QED BY <1>1, <1>5, <1>11, <2>1 DEF NextDue
<1>. QED BY <1>10, <1>12 DEF NextDue

LEMMA CoversInit == Init => MarkerCovers
BY DEF Init, MarkerCovers, ResolvedBehind, AlreadyResolved

LEMMA CoversLook ==
  ASSUME TypeOK, ClockInv, MarkerCovers, Look, ~back', ~edited'
  PROVE  MarkerCovers'
<1>. USE SchedulerAssumption, NoneFacts
<1>1. PICK c \in Clock : /\ SoundClock(c) /\ LooksWith(c)
                         /\ c.trusted => c.reading \in Reading
  BY LookHasClock
<1>2. /\ ~edited /\ restarts' = restarts /\ meals' \in SUBSET Minutes
      /\ restarts = 0 \/ meals' = meals
      /\ received => received'
  BY <1>1, EditedOrSame, ApplyCommandsType DEF LooksWith
<1>3. CASE c.trusted /\ received'
  <2>1. NextDue(meals', c.reading) /\ c.reading \in Reading
    BY <1>1, <1>3 DEF LooksWith
  <2>2. /\ ~again' /\ ResolvedBehind'
        /\ consumed' # None => horizon' # None /\ consumed'.day <= horizon'.day
        /\ baselined' /\ horizon' # None
        /\ \A s \in Minutes : AlreadyResolved(horizon.day, s)' => Covered(s)'
    BY <1>2, <2>1, LookKeepsCover
  <2>. QED BY <1>3, <2>2 DEF MarkerCovers
<1>4. CASE ~(c.trusted /\ received')
  <2>1. UNCHANGED <<consumed, baselined, resolved, again, horizon, back>>
    BY <1>1, <1>4 DEF LooksWith
  <2>2. ~back /\ ResolvedBehind'
    BY <1>2, <2>1 DEF MarkerCovers, ResolvedBehind, AlreadyResolved
  <2>3. ASSUME baselined, NEW s \in Minutes, AlreadyResolved(horizon.day, s)'
        PROVE  Covered(s)'
    <3>1. Covered(s)
      BY <1>2, <2>1, <2>2, <2>3 DEF MarkerCovers, AlreadyResolved
    <3>. QED BY <1>2, <2>1, <3>1 DEF Covered, TypeOK
  <2>. QED BY <1>2, <2>1, <2>2, <2>3 DEF MarkerCovers
<1>. QED BY <1>3, <1>4

LEMMA CoversNext ==
  ASSUME TypeOK, ClockInv, MarkerCovers, [Next]_vars
  PROVE  MarkerCovers'
<1>. SUFFICES ASSUME ~back', ~edited' PROVE MarkerCovers'
  BY DEF MarkerCovers
<1>1. CASE Look
  BY <1>1, CoversLook
<1>2. ASSUME UNCHANGED <<schedulerVars, resolved, again, horizon, back, edited, restarts>>
      PROVE  MarkerCovers'
  BY <1>2 DEF schedulerVars, MarkerCovers, ResolvedBehind, Covered, AlreadyResolved
<1>3. CASE Second
  BY <1>2, <1>3 DEF Second, ghostVars
<1>4. ASSUME NEW s \in Sources, NEW w \in SyncWalls, Hear(s, w) PROVE MarkerCovers'
  BY <1>2, <1>4 DEF Hear, ghostVars
<1>5. CASE SeasonChange
  BY <1>2, <1>5 DEF SeasonChange, ghostVars
<1>6. ASSUME NEW s \in Schedules, Command(s) PROVE MarkerCovers'
  BY <1>2, <1>6 DEF Command, ghostVars
<1>7. ASSUME NEW p \in BOOLEAN, SetPause(p) PROVE MarkerCovers'
  BY <1>2, <1>7 DEF SetPause, ghostVars
<1>8. CASE Restart
  <2>1. restarts' # 0 /\ ~baselined' /\ consumed' = None /\ again' = again
        /\ ~back /\ ~edited
    BY <1>8, SchedulerAssumption DEF Restart, TypeOK
  <2>2. ResolvedBehind'
    BY <1>8, <2>1 DEF Restart, MarkerCovers, ResolvedBehind, AlreadyResolved
  <2>. QED BY <2>1, <2>2 DEF MarkerCovers
<1>9. CASE UNCHANGED vars
  BY <1>2, <1>9 DEF vars, ghostVars
<1>. QED
  BY <1>1, <1>3, <1>4, <1>5, <1>6, <1>7, <1>8, <1>9 DEF Next

\* A slot resolved on a date is never fed on it again, for every calendar,
\* schedule, lateness and number of restarts, under the two conditions
\* NeverTwice names.
THEOREM NeverFedTwice == Spec => []NeverTwice
<1>1. Init => TypeOK /\ ClockInv /\ MarkerCovers
  BY TypeInit, CoversInit
<1>2. TypeOK /\ ClockInv /\ MarkerCovers /\ [Next]_vars
        => TypeOK' /\ ClockInv' /\ MarkerCovers'
  BY TypeNext, CoversNext
<1>3. MarkerCovers => NeverTwice
  BY DEF MarkerCovers, NeverTwice
<1>. QED BY <1>1, <1>2, <1>3, PTL DEF Spec

\* The marker, and the baseline after a restart, cover every slot already
\* resolved: the invariant NeverFedTwice rests on.
THEOREM MarkerAlwaysCovers == Spec => []MarkerCovers
<1>1. Init => TypeOK /\ ClockInv /\ MarkerCovers
  BY TypeInit, CoversInit
<1>2. TypeOK /\ ClockInv /\ MarkerCovers /\ [Next]_vars
        => TypeOK' /\ ClockInv' /\ MarkerCovers'
  BY TypeNext, CoversNext
<1>. QED BY <1>1, <1>2, PTL DEF Spec

\* Within one life a clock set live or by hand is never moved back to an RTC
\* read or a replayed time: the clock stays trusted, so both are ignored.
THEOREM FresherKept == Spec => FresherTimeKept
<1>. DEFINE Trusts == anchoredBy \in {"Live", "Rtc", "Manual"} => trusted
            Kept == (anchoredBy \in {"Live", "Manual"} /\ restarts' = restarts)
                      => anchoredBy' \in {"Live", "Manual"}
<1>0. ASSUME TypeOK, ClockInv, Trusts, Look
      PROVE  Trusts' /\ Kept
  <2>1. PICK a \in Aligned : \E c \in Followed(a) : LooksWith(c)
    BY <1>0 DEF Look, LooksWith
  <2>2. PICK c \in Followed(a) : LooksWith(c)
    BY <2>1
  <2>3. SoundClock(a) /\ a.by = c.by /\ a.trusted = c.trusted
    BY <1>0, <2>2, AlignedSound DEF Followed, Zoned, SoundClock, Clock
  <2>4. (a.by \in {"Live", "Rtc", "Manual"} => a.trusted)
        /\ (anchoredBy \in {"Live", "Manual"} => a.by \in {"Live", "Manual"})
    <3>1. CASE a = Held
      BY <1>0, <3>1 DEF Held
    <3>2. CASE sync # None /\ ~IgnoredStale(sync)
               /\ \E o \in SyncOffsets(sync) :
                    a = [reading |-> sync.wall, offset |-> o,
                         trusted |-> trusted \/ Trusting(sync), by |-> sync.source]
      <4>1. sync.source \in Source
        BY <1>0, <3>2 DEF TypeOK, Sync
      <4>2. a.by = sync.source /\ (a.trusted <=> trusted \/ Trusting(sync))
        <5>. DEFINE earned == trusted \/ Trusting(sync)
        <5>1. PICK o \in SyncOffsets(sync) :
                a = [reading |-> sync.wall, offset |-> o, trusted |-> earned,
                     by |-> sync.source]
          BY <3>2
        <5>. HIDE DEF earned
        <5>2. a.by = sync.source /\ a.trusted = earned
          BY <5>1
        <5>. QED BY <5>2 DEF earned
      <4>3. anchoredBy \in {"Live", "Manual"} => sync.source \in {"Live", "Manual"}
        BY <1>0, <3>2, <4>1 DEF IgnoredStale, Source
      <4>. QED BY <4>1, <4>2, <4>3 DEF Trusting, Source
    <3>. QED BY <3>1, <3>2 DEF Aligned
  <2>. QED BY <2>2, <2>3, <2>4 DEF LooksWith
<1>1. Init => TypeOK /\ ClockInv /\ Trusts
  BY TypeInit, NoneFacts DEF Init, Source
<1>2. TypeOK /\ ClockInv /\ Trusts /\ [Next]_vars => TypeOK' /\ ClockInv' /\ Trusts'
  <2>. SUFFICES ASSUME TypeOK, ClockInv, Trusts, [Next]_vars PROVE Trusts'
    BY TypeNext
  <2>1. CASE Look
    BY <1>0, <2>1
  <2>2. CASE Restart
    BY <2>2, NoneFacts DEF Restart, Source
  <2>3. CASE ~Look /\ ~Restart
    BY <2>3 DEF Next, Second, Hear, SeasonChange, Command, SetPause, ghostVars,
                clockVars, vars
  <2>. QED BY <2>1, <2>2, <2>3
<1>3. TypeOK /\ ClockInv /\ Trusts /\ [Next]_vars => [Kept]_vars
  <2>. SUFFICES ASSUME TypeOK, ClockInv, Trusts, [Next]_vars PROVE Kept
    OBVIOUS
  <2>1. CASE Look
    BY <1>0, <2>1
  <2>2. CASE Restart
    BY <2>2, SchedulerAssumption DEF Restart, TypeOK
  <2>3. CASE ~Look /\ ~Restart
    BY <2>3 DEF Next, Second, Hear, SeasonChange, Command, SetPause, ghostVars,
                clockVars, vars
  <2>. QED BY <2>1, <2>2, <2>3
<1>. QED BY <1>1, <1>2, <1>3, PTL DEF Spec, FresherTimeKept
-----------------------------------------------------------------------------
(***************************************************************************)
(* The first baseline, and no meal skipped.                                *)
(***************************************************************************)

\* The first look with a schedule takes its slots as the baseline: nothing is
\* fed by it, for however long the clock has been trusted.  A baseline is only
\* ever taken with a schedule, and only a restart loses either.
THEOREM FirstScheduleFeedsNothing == Spec => FirstScheduleOnlyBaselines
<1>. DEFINE Held1 == baselined => received
            Quiet == (~received /\ received') => due' = None \/ due'.how # "Feed"
<1>1. Init => TypeOK /\ ClockInv /\ Held1
  BY TypeInit DEF Init
<1>2. ASSUME TypeOK, ClockInv, Held1, Look
      PROVE  Held1' /\ Quiet
  <2>1. PICK c \in Clock : LooksWith(c)
    BY <1>2, LookHasClock
  <2>2. received => received'
    BY <2>1 DEF LooksWith, ApplyCommands
  <2>3. CASE c.trusted /\ received'
    <3>1. NextDue(meals', c.reading)
      BY <2>1, <2>3 DEF LooksWith
    <3>2. ASSUME ~received PROVE due' = None \/ due'.how # "Feed"
      <4>1. \A s : Resolution(s, c.reading) = "Baseline"
        BY <1>2, <3>2 DEF Resolution
      <4>2. \/ due' = None
            \/ \E s : due' = [minute |-> s, how |-> Resolution(s, c.reading)]
        BY <3>1 DEF NextDue
      <4>3. ASSUME NEW s, due' = [minute |-> s, how |-> Resolution(s, c.reading)]
            PROVE  due'.how # "Feed"
        <5>1. due' = [minute |-> s, how |-> "Baseline"]
          BY <4>1, <4>3
        <5>. QED BY <5>1
      <4>. QED BY <4>2, <4>3
    <3>. QED BY <2>3, <3>2
  <2>4. CASE ~(c.trusted /\ received')
    BY <1>2, <2>1, <2>2, <2>4 DEF LooksWith
  <2>. QED BY <2>3, <2>4
<1>3. ASSUME TypeOK, ClockInv, Held1, [Next]_vars, ~Look
      PROVE  Held1' /\ Quiet
  <2>1. CASE Restart
    BY <2>1 DEF Restart
  <2>2. CASE ~Restart
    <3>1. baselined' = baselined /\ received' = received
      BY <1>3, <2>2 DEF Next, Second, Hear, SeasonChange, Command, SetPause,
                        schedulerVars, vars
    <3>. QED BY <1>3, <3>1
  <2>. QED BY <2>1, <2>2
<1>4. TypeOK /\ ClockInv /\ Held1 /\ [Next]_vars => TypeOK' /\ ClockInv' /\ Held1'
  BY <1>2, <1>3, TypeNext
<1>5. TypeOK /\ ClockInv /\ Held1 /\ [Next]_vars => [Quiet]_vars
  BY <1>2, <1>3
<1>. QED BY <1>1, <1>4, <1>5, PTL DEF Spec, FirstScheduleOnlyBaselines

\* The marker is never ahead of the horizon: what was looked at last.
MarkerBehind ==
  consumed # None =>
    /\ horizon # None /\ consumed.day <= horizon.day
    /\ consumed.day = horizon.day => consumed.minute <= horizon.minute

LEMMA BehindLook ==
  ASSUME TypeOK, MarkerBehind, NEW m \in SUBSET Minutes, NEW w \in Reading,
         NextDue(m, w)
  PROVE  MarkerBehind'
<1>. USE SchedulerAssumption, NoneFacts
<1>1. /\ w.day \in Nat /\ w.minute \in Nat /\ w.minute <= MinutesPerDay - 1
      /\ w.day \in Days /\ w.minute \in Minutes /\ MinutesPerDay - 1 \in Minutes
  BY DEF Reading, Minutes, Days
<1>2. /\ horizon # None => horizon.day \in Nat /\ horizon.minute \in Nat
      /\ consumed # None => /\ consumed.day \in Nat /\ consumed.minute \in Nat
                            /\ consumed.minute <= MinutesPerDay - 1
  BY DEF TypeOK, Mark, Days, Minutes
<1>3. /\ horizon' # None /\ horizon'.day = w.day
      /\ horizon'.minute \in Nat /\ w.minute <= horizon'.minute
  <2>1. \/ horizon' = [day |-> w.day, minute |-> w.minute]
        \/ horizon' = [day |-> w.day, minute |-> MinutesPerDay - 1]
        \/ horizon # None /\ horizon' = horizon /\ w.day = horizon.day
              /\ w.minute <= horizon.minute
    BY <1>1, <1>2 DEF NextDue, Looked
  <2>2. \A n \in Minutes : [day |-> w.day, minute |-> n] \in Mark
    BY <1>1 DEF Mark
  <2>3. CASE horizon' = [day |-> w.day, minute |-> w.minute]
    BY <1>1, <2>2, <2>3
  <2>4. CASE horizon' = [day |-> w.day, minute |-> MinutesPerDay - 1]
    BY <1>1, <2>2, <2>4
  <2>5. CASE horizon # None /\ horizon' = horizon /\ w.day = horizon.day
               /\ w.minute <= horizon.minute
    BY <1>2, <2>5
  <2>. QED BY <2>1, <2>3, <2>4, <2>5
<1>4. CASE consumed' = Redated(w)
  <2>1. CASE consumed = None
    BY <1>4, <2>1 DEF Redated, MarkerBehind
  <2>2. CASE consumed # None /\ consumed.day > w.day
    <3>1. horizon # None /\ w.day < horizon.day
      BY <1>1, <1>2, <2>2 DEF MarkerBehind
    <3>2. horizon'.minute = MinutesPerDay - 1
      BY <1>1, <1>2, <3>1 DEF NextDue, Looked
    <3>3. consumed' = [consumed EXCEPT !.day = w.day] /\ consumed \in Mark
      BY <1>4, <2>2 DEF Redated, TypeOK
    <3>4. consumed'.day = w.day /\ consumed'.minute = consumed.minute
      BY <3>3 DEF Mark
    <3>. QED BY <1>1, <1>2, <1>3, <2>2, <3>2, <3>4 DEF MarkerBehind
  <2>3. CASE consumed # None /\ ~(consumed.day > w.day)
    <3>1. consumed' = consumed /\ horizon # None
      BY <1>4, <2>3 DEF Redated, MarkerBehind
    <3>2. consumed.day = w.day => consumed.minute <= horizon'.minute
      BY <1>1, <1>2, <2>3 DEF NextDue, Looked, MarkerBehind
    <3>. QED BY <1>1, <1>2, <1>3, <2>3, <3>1, <3>2 DEF MarkerBehind
  <2>. QED BY <2>1, <2>2, <2>3
<1>5. ASSUME NEW s \in Outstanding(m, w), consumed' = [day |-> w.day, minute |-> s]
      PROVE  MarkerBehind'
  <2>1. s \in Nat /\ s <= w.minute
    <3>1. s \in m /\ s <= w.minute
      BY Zenon DEF Outstanding
    <3>. QED BY <3>1, SchedulerAssumption DEF Minutes
  <2>2. consumed'.day = w.day /\ consumed'.minute = s
    BY <1>5
  <2>. QED BY <1>1, <1>3, <2>1, <2>2 DEF MarkerBehind
<1>. QED BY <1>4, <1>5 DEF NextDue

\* The slot a look resolves is the last it crossed: the marker, behind the
\* horizon, hides none of the slots ahead of the horizon.
LEMMA CrossedIsResolved ==
  ASSUME TypeOK, MarkerBehind, NEW m \in SUBSET Minutes, NEW w \in Reading,
         NextDue(m, w), horizon # None, horizon' # horizon,
         horizon'.day >= horizon.day,
         NEW s \in Crossed(m, w), \A t \in Crossed(m, w) : t <= s
  PROVE  due' = [minute |-> s, how |-> Resolution(s, w)]
<1>. USE SchedulerAssumption, NoneFacts
<1>1. /\ w.day \in Nat /\ w.minute \in Nat /\ Minutes \subseteq Nat
      /\ horizon.day \in Nat /\ horizon.minute \in Nat
      /\ consumed # None => consumed.day \in Nat /\ consumed.minute \in Nat
  BY DEF TypeOK, Mark, Days, Minutes, Reading
<1>2. \/ w.day > horizon.day
      \/ w.day = horizon.day /\ w.minute > horizon.minute
  BY <1>1 DEF NextDue, Looked
<1>3. s \in m /\ s \in Nat /\ s <= w.minute /\ (w.day > horizon.day \/ s > horizon.minute)
  BY <1>1 DEF Crossed
<1>4. s > After(w)
  BY <1>1, <1>2, <1>3 DEF After, MarkerBehind
<1>5. s \in Outstanding(m, w)
  BY <1>3, <1>4 DEF Outstanding
<1>6. PICK t \in Outstanding(m, w) :
        /\ \A u \in Outstanding(m, w) : u <= t
        /\ due' = [minute |-> t, how |-> Resolution(t, w)]
  BY <1>5 DEF NextDue
<1>7. t \in m /\ t \in Nat /\ t <= w.minute /\ s <= t
  BY <1>1, <1>5, <1>6 DEF Outstanding
<1>8. t \in Crossed(m, w)
  BY <1>1, <1>3, <1>7 DEF Crossed
<1>9. t = s
  BY <1>3, <1>7, <1>8
<1>. QED BY <1>6, <1>9

\* The first look past an enabled slot, within the lateness limit, feeds it
\* unless feeding is paused: no meal is skipped in silence.
THEOREM NoMealSkipped == Spec => PromptMeal
<1>. DEFINE Moved1 == horizon # None /\ horizon' # horizon
                        /\ horizon'.day >= horizon.day /\ baselined
            Prompt ==
              Moved1 => \A s \in Crossed(meals', reading') :
                ((\A t \in Crossed(meals', reading') : t <= s)
                   /\ Lateness(s, reading') <= MAX_LATENESS_S)
                => due' = [minute |-> s, how |-> IF paused THEN "Paused" ELSE "Feed"]
<1>1. Init => TypeOK /\ ClockInv /\ MarkerBehind
  BY TypeInit DEF Init, MarkerBehind
<1>2. ASSUME TypeOK, ClockInv, MarkerBehind, Look
      PROVE  MarkerBehind' /\ Prompt
  <2>1. PICK c \in Clock : /\ SoundClock(c) /\ LooksWith(c)
                           /\ c.trusted => c.reading \in Reading
    BY <1>2, LookHasClock
  <2>2. CASE c.trusted /\ received'
    <3>1. /\ NextDue(meals', c.reading) /\ c.reading \in Reading
          /\ meals' \in SUBSET Minutes /\ reading' = c.reading
      BY <1>2, <2>1, <2>2, ApplyCommandsType DEF LooksWith
    <3>2. MarkerBehind'
      BY <1>2, <3>1, BehindLook
    <3>3. ASSUME Moved1, NEW s \in Crossed(meals', reading'),
                 \A t \in Crossed(meals', reading') : t <= s,
                 Lateness(s, reading') <= MAX_LATENESS_S
          PROVE  due' = [minute |-> s, how |-> IF paused THEN "Paused" ELSE "Feed"]
      <4>1. due' = [minute |-> s, how |-> Resolution(s, reading')]
        BY <1>2, <3>1, <3>3, CrossedIsResolved
      <4>2. Lateness(s, reading') \in Int
        <5>1. s \in Int
          BY <3>1, <3>3 DEF Crossed, Minutes
        <5>. QED
          BY <3>1, <5>1, SchedulerAssumption DEF Lateness, Reading, Minutes
      <4>3. Resolution(s, reading') = IF paused THEN "Paused" ELSE "Feed"
        BY <3>3, <4>2, SchedulerAssumption DEF Resolution
      <4>. QED BY <4>1, <4>3
    <3>. QED BY <3>2, <3>3
  <2>3. CASE ~(c.trusted /\ received')
    BY <1>2, <2>1, <2>3 DEF LooksWith, MarkerBehind
  <2>. QED BY <2>2, <2>3
<1>3. ASSUME TypeOK, ClockInv, MarkerBehind, [Next]_vars, ~Look
      PROVE  MarkerBehind' /\ Prompt
  <2>1. horizon' = horizon
    BY <1>3 DEF Next, Second, Hear, SeasonChange, Command, SetPause, Restart,
                ghostVars, vars
  <2>2. consumed' \in {consumed, None}
    BY <1>3 DEF Next, Second, Hear, SeasonChange, Command, SetPause, Restart,
                schedulerVars, vars
  <2>. QED BY <1>3, <2>1, <2>2 DEF MarkerBehind
<1>4. TypeOK /\ ClockInv /\ MarkerBehind /\ [Next]_vars
        => TypeOK' /\ ClockInv' /\ MarkerBehind'
  BY <1>2, <1>3, TypeNext
<1>5. TypeOK /\ ClockInv /\ MarkerBehind /\ [Next]_vars => [Prompt]_vars
  BY <1>2, <1>3
<1>. QED BY <1>1, <1>4, <1>5, PTL DEF Spec, PromptMeal
=============================================================================
