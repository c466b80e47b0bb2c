------------------------------ MODULE StoreProofs ------------------------------
(***************************************************************************)
(* What Store promises for any networks, calibrations, zones, times,       *)
(* portions, commands and depths of the queue, with flash that may refuse  *)
(* any write and power that may go at any step, and that it implements     *)
(* Settings.                                                               *)
(***************************************************************************)
EXTENDS Store, SequenceTheorems, TLAPS

\* The schedule followed is the one held.
Followed == meals = IF held = None THEN <<>> ELSE held

\* Each command queued asks for what the one before it asked for, edited.
Ordered ==
  /\ Len(wishes) = Len(queue) + 1
  /\ wishes[1] = meals
  /\ \A i \in 1..Len(queue) : wishes[i + 1] = edited(wishes[i], queue[i])

\* The calibration in force is the one of any record there is, and in setup mode of
\* the one setup began with.
Carried ==
  /\ flash.record # None => flash.record.calibration = calibration
  /\ mode = "Setup" => CalibrationOf(previous) = calibration

StoreInv ==
  /\ TypeOK /\ Followed /\ Ordered /\ Carried
  /\ InForceIsStored /\ NothingWrittenBack
-----------------------------------------------------------------------------
\* A schedule is a sequence of at most MaxSlots slots.
LEMMA ScheduleIsSeq ==
  /\ \A s \in Schedules : s \in Seq(Slot) /\ Len(s) \in 0..MaxSlots
  /\ \A n \in 0..MaxSlots : [1..n -> Slot] \subseteq Schedules
  /\ <<>> \in Schedules
<1>1. ASSUME NEW s \in Schedules PROVE s \in Seq(Slot) /\ Len(s) \in 0..MaxSlots
  <2>1. PICK n \in 0..MaxSlots : s \in [1..n -> Slot]
    BY DEF Schedules
  <2> QED BY <2>1, SectorsAssumption
<1>2. \A n \in 0..MaxSlots : [1..n -> Slot] \subseteq Schedules
  BY DEF Schedules
<1>3. <<>> \in Schedules
  <2>1. <<>> \in [1..0 -> Slot]
    OBVIOUS
  <2>2. 0 \in 0..MaxSlots
    BY SectorsAssumption
  <2> QED BY <2>1, <2>2 DEF Schedules
<1> QED BY <1>1, <1>2, <1>3

\* A command makes a schedule of a schedule.
LEMMA EditedIsSchedule ==
  ASSUME NEW s \in Schedules, NEW c \in ScheduleCommand
  PROVE  edited(s, c) \in Schedules
<1>1. s \in [1..Len(s) -> Slot] /\ Len(s) \in 0..MaxSlots
  BY ScheduleIsSeq
<1>2. CASE c.kind = "replace"
  BY <1>2 DEF edited, ScheduleCommand, SlotEdit
<1>3. CASE Refusal(s, c)
  BY <1>3 DEF edited, Refusal
<1>4. CASE c.kind = "portions" /\ ~Refusal(s, c)
  <2>1. c.index \in 1..Len(s) /\ c.portions \in Portions
    BY <1>4, <1>1, SectorsAssumption DEF Refusal, ScheduleCommand, SlotEdit
  <2>2. [s EXCEPT ![c.index].portions = c.portions] \in [1..Len(s) -> Slot]
    BY <1>1, <2>1 DEF Slot
  <2> QED BY <1>1, <1>4, <2>2, ScheduleIsSeq DEF edited
<1>5. CASE c.kind = "time" /\ ~Refusal(s, c)
  <2> DEFINE n == IF c.index > Len(s) THEN c.index ELSE Len(s)
  <2>1. c.index \in 1..MaxSlots /\ c.minute \in Minutes
    BY <1>5, <1>1, SectorsAssumption DEF Refusal, ScheduleCommand, SlotEdit
  <2>2. n \in 0..MaxSlots /\ c.index \in 1..n
    BY <2>1, <1>1, SectorsAssumption
  <2>3. Padded(s, n) \in [1..n -> Slot]
    BY <1>1, SectorsAssumption DEF Padded, OFF, Slot
  <2>4. [Padded(s, n) EXCEPT ![c.index].minute = c.minute] \in [1..n -> Slot]
    <3> HIDE DEF n
    <3> QED BY <2>1, <2>2, <2>3 DEF Slot
  <2> QED BY <1>5, <2>2, <2>4, ScheduleIsSeq DEF edited
<1>6. c.kind \in {"replace", "time", "portions"}
  BY DEF ScheduleCommand, SlotEdit
<1> QED BY <1>2, <1>3, <1>4, <1>5, <1>6

\* What a factory reset has blanked when it stops are sectors.
LEMMA ErasePrefix ==
  \A n \in 0..4 : {EraseOrder[i] : i \in 1..n} \subseteq Sectors
BY DEF EraseOrder, Sectors

\* The invariant, sector by sector.
LEMMA DifferBySector ==
  InForceIsStored <=>
    (~wiped => /\ calibration # CalibrationOf(flash.record) => "record" \in lapsed
               /\ held # flash.schedule => "schedule" \in lapsed
               /\ zone # flash.zone => "zone" \in lapsed
               /\ paused # load_paused(flash) => "pause" \in lapsed)
BY DEF InForceIsStored, Differ

LEMMA DifferBySectorNext ==
  InForceIsStored' <=>
    (~wiped' => /\ calibration' # CalibrationOf(flash'.record) => "record" \in lapsed'
                /\ held' # flash'.schedule => "schedule" \in lapsed'
                /\ zone' # flash'.zone => "zone" \in lapsed'
                /\ paused' # load_paused(flash') => "pause" \in lapsed')
BY DEF InForceIsStored, Differ, CalibrationOf, load_paused

\* A unit as it comes from the bench keeps the invariant.
LEMMA InitStore == Init => StoreInv
<1> SUFFICES ASSUME Init PROVE StoreInv
  OBVIOUS
<1> USE DEF Init
<1>1. TypeOK
  <2>1. flash \in Flash
    BY DEF Flash, Sectors
  <2>2. <<>> \in Schedules /\ <<(<<>>)>> \in Seq(Schedules)
    BY ScheduleIsSeq
  <2>3. queue \in Seq(ScheduleCommand) /\ Len(queue) <= QueueLen /\ gapFeeds \in 0..MaxGapFeeds
    BY StoreAssumption
  <2>4. owed \in BOOLEAN /\ turning \in BOOLEAN /\ wiped \in BOOLEAN /\ flash_busy \in BOOLEAN
    OBVIOUS
  <2> QED BY <2>1, <2>2, <2>3, <2>4, SectorsAssumption DEF TypeOK
<1>2. Followed /\ Ordered /\ Carried /\ NothingWrittenBack
  BY DEF Followed, Ordered, Carried, NothingWrittenBack, Sectors, CalibrationOf
<1>3. InForceIsStored
  BY DifferBySector DEF Sectors, CalibrationOf, load_paused
<1> QED BY <1>1, <1>2, <1>3 DEF StoreInv

\* A boot restores it, whatever flash holds.
LEMMA BootStore ==
  ASSUME StoreInv, Boot
  PROVE  StoreInv'
<1> USE DEF Boot
<1>1. TypeOK'
  <2>1. load_schedule \in Schedules /\ flash.schedule \in Schedules \cup {None}
    BY ScheduleIsSeq DEF StoreInv, TypeOK, Flash, load_schedule
  <2>2. CalibrationOf(flash.record) \in Calibrations /\ flash.record \in Records \cup {None}
    BY SectorsAssumption DEF StoreInv, TypeOK, Flash, Records, CalibrationOf
  <2>3. load_paused(flash) \in BOOLEAN /\ flash.zone \in Zones \cup {None}
    BY DEF StoreInv, TypeOK, Flash, load_paused
  <2>4. <<load_schedule>> \in Seq(Schedules)
    BY <2>1
  <2>5. queue' \in Seq(ScheduleCommand) /\ Len(queue') <= QueueLen /\ gapFeeds' \in 0..MaxGapFeeds
    BY StoreAssumption
  <2> QED BY <2>1, <2>2, <2>3, <2>4, <2>5 DEF StoreInv, TypeOK
<1>2. Followed' /\ Ordered' /\ Carried' /\ NothingWrittenBack'
  BY DEF Followed, Ordered, Carried, NothingWrittenBack, load_schedule, CalibrationOf
<1>3. InForceIsStored'
  BY DifferBySector DEF InForceIsStored, Differ, CalibrationOf, load_paused
<1> QED BY <1>1, <1>2, <1>3 DEF StoreInv

\* A command queued asks for the last thing asked, edited.
LEMMA SendStore ==
  ASSUME StoreInv, NEW c \in Commands, send_schedule(c)
  PROVE  StoreInv'
<1> DEFINE wish == edited(wishes[Len(wishes)], c)
<1> USE DEF send_schedule
<1>1. c \in ScheduleCommand /\ wishes[Len(wishes)] \in Schedules /\ Len(wishes) \in Nat \ {0}
  BY StoreAssumption DEF StoreInv, TypeOK, Ordered
<1>2. wish \in Schedules
  BY <1>1, EditedIsSchedule
<1>3. /\ wishes' \in Seq(Schedules) /\ Len(wishes') = Len(wishes) + 1
      /\ wishes'[Len(wishes) + 1] = wish
      /\ \A i \in 1..Len(wishes) : wishes'[i] = wishes[i]
  BY <1>2, AppendProperties DEF StoreInv, TypeOK
<1>4. /\ queue' \in Seq(ScheduleCommand) /\ Len(queue') = Len(queue) + 1
      /\ queue'[Len(queue) + 1] = c
      /\ \A i \in 1..Len(queue) : queue'[i] = queue[i]
  BY <1>1, AppendProperties DEF StoreInv, TypeOK
<1>5. TypeOK'
  <2>1. Len(queue') <= QueueLen
    BY <1>4, StoreAssumption DEF StoreInv, TypeOK
  <2> QED BY <1>3, <1>4, <2>1 DEF StoreInv, TypeOK, settings, feeder
<1>6. Ordered'
  <2>1. Len(queue) \in Nat /\ Len(wishes) = Len(queue) + 1
    BY DEF StoreInv, TypeOK, Ordered
  <2>2. Len(wishes') = Len(queue') + 1 /\ wishes'[1] = meals'
    BY <1>3, <1>4, <2>1 DEF StoreInv, Ordered, settings
  <2>3. ASSUME NEW i \in 1..Len(queue') PROVE wishes'[i + 1] = edited(wishes'[i], queue'[i])
    <3>1. CASE i \in 1..Len(queue)
      BY <3>1, <2>1, <1>3, <1>4 DEF StoreInv, Ordered
    <3>2. CASE i = Len(queue) + 1
      BY <3>2, <2>1, <1>3, <1>4
    <3> QED BY <3>1, <3>2, <2>1, <1>4
  <2> QED BY <2>2, <2>3 DEF Ordered
<1>7. Followed' /\ Carried' /\ InForceIsStored' /\ NothingWrittenBack'
  BY DEF StoreInv, Followed, Carried, InForceIsStored, Differ, NothingWrittenBack, settings,
     CalibrationOf, load_paused
<1> QED BY <1>5, <1>6, <1>7 DEF StoreInv

\* Taking a command brings what it asked for in force, whether or not it is stored.
LEMMA ApplyStore ==
  ASSUME StoreInv, apply_commands
  PROVE  StoreInv'
<1> USE DEF apply_commands
<1>1. /\ queue \in Seq(ScheduleCommand) /\ queue # <<>> /\ wishes \in Seq(Schedules)
      /\ Len(queue) \in Nat \ {0} /\ Len(wishes) = Len(queue) + 1
  BY DEF StoreInv, TypeOK, Ordered
<1>2. /\ queue' \in Seq(ScheduleCommand) /\ Len(queue') = Len(queue) - 1
      /\ \A i \in 1..Len(queue') : queue'[i] = queue[i + 1]
      /\ Head(queue) = queue[1] /\ queue[1] \in ScheduleCommand
  BY <1>1, HeadTailProperties, ElementOfSeq
<1>3. /\ wishes' \in Seq(Schedules) /\ Len(wishes') = Len(wishes) - 1
      /\ \A i \in 1..Len(wishes') : wishes'[i] = wishes[i + 1]
  BY <1>1, HeadTailProperties
<1>4. edited(meals, Head(queue)) \in Schedules /\ wishes[2] = edited(meals, Head(queue))
  BY <1>1, <1>2, EditedIsSchedule DEF StoreInv, TypeOK, Ordered
<1> DEFINE s == edited(meals, Head(queue))
<1>5. \/ meals' = s /\ UNCHANGED <<flash, held, meals, lapsed>>
      \/ /\ HasLock /\ held' = s /\ meals' = s
         /\ flash' \in {flash, Blanked(flash, {"schedule"}), [flash EXCEPT !["schedule"] = s]}
         /\ lapsed' \in SUBSET Sectors /\ lapsed \ {"schedule"} = lapsed' \ {"schedule"}
         /\ flash'.schedule # s => "schedule" \in lapsed'
  <2>1. CASE Refusal(meals, Head(queue))
    BY <2>1 DEF edited, Refusal
  <2>2. CASE ~Refusal(meals, Head(queue)) /\ Unchanged(s)
    BY <2>2, <1>4, SectorsAssumption DEF accept_schedule, Unchanged, StoreInv, Followed
  <2>3. CASE ~Refusal(meals, Head(queue)) /\ ~Unchanged(s)
    <3>1. HasLock /\ held' = s /\ meals' = s
      BY <2>3 DEF accept_schedule
    <3>2. \/ Written("schedule", s)
          \/ /\ flash' \in {flash, Blanked(flash, {"schedule"})}
             /\ lapsed' = lapsed \cup {"schedule"}
      BY <2>3 DEF accept_schedule
    <3>3. lapsed' \in SUBSET Sectors /\ lapsed \ {"schedule"} = lapsed' \ {"schedule"}
      BY <3>2 DEF Written, StoreInv, TypeOK, Sectors
    <3>4. /\ flash' \in {flash, Blanked(flash, {"schedule"}), [flash EXCEPT !["schedule"] = s]}
          /\ flash'.schedule # s => "schedule" \in lapsed'
      <4> HIDE DEF s
      <4> QED BY <3>2 DEF Written, StoreInv, TypeOK, Flash, Sectors
    <3> QED BY <3>1, <3>3, <3>4
  <2> QED BY <2>1, <2>2, <2>3, Zenon
<1> HIDE DEF s
<1>6. s \in Schedules /\ wishes[2] = s
  BY <1>4 DEF s
<1>7. flash' \in Flash /\ lapsed' \in SUBSET Sectors
  BY <1>5, <1>6 DEF StoreInv, TypeOK, Flash, Blanked, Sectors
<1>8. TypeOK'
  <2>1. Len(queue') <= QueueLen
    BY <1>1, <1>2, StoreAssumption DEF StoreInv, TypeOK
  <2>2. held' \in Schedules \cup {None} /\ meals' \in Schedules
    BY <1>5, <1>6 DEF StoreInv, TypeOK
  <2> QED BY <1>2, <1>3, <1>7, <2>1, <2>2 DEF StoreInv, TypeOK, feeder
<1>9. Ordered'
  <2>1. Len(wishes') = Len(queue') + 1 /\ wishes'[1] = meals'
    BY <1>1, <1>2, <1>3, <1>5, <1>6
  <2>2. ASSUME NEW i \in 1..Len(queue') PROVE wishes'[i + 1] = edited(wishes'[i], queue'[i])
    BY <1>1, <1>2, <1>3 DEF StoreInv, Ordered
  <2> QED BY <2>1, <2>2 DEF Ordered
<1>10. Followed'
  BY <1>5, <1>6, SectorsAssumption DEF StoreInv, Followed
<1>11. \A k \in Sectors \ {"schedule"} : flash'[k] = flash[k]
  BY <1>5 DEF StoreInv, TypeOK, Flash, Blanked, Sectors
<1>12. flash'.record = flash.record /\ flash'.zone = flash.zone /\ flash'.pause = flash.pause
  BY <1>11 DEF Sectors
<1>13. Carried' /\ NothingWrittenBack'
  BY <1>5, <1>12 DEF StoreInv, Carried, NothingWrittenBack, HasLock, CalibrationOf
<1>14. InForceIsStored'
  <2>1. CASE UNCHANGED <<flash, held, meals, lapsed>>
    BY <2>1, DifferBySector, DifferBySectorNext DEF StoreInv
  <2>2. CASE /\ held' = s /\ lapsed \ {"schedule"} = lapsed' \ {"schedule"}
             /\ flash'.schedule # s => "schedule" \in lapsed'
    <3>1. \A k \in {"record", "zone", "pause"} : k \in lapsed => k \in lapsed'
      BY <2>2
    <3>2. /\ CalibrationOf(flash'.record) = CalibrationOf(flash.record)
          /\ load_paused(flash') = load_paused(flash)
      BY <1>12 DEF CalibrationOf, load_paused
    <3> QED BY <2>2, <3>1, <3>2, <1>12, DifferBySector, DifferBySectorNext DEF StoreInv
  <2> QED BY <1>5, <2>1, <2>2
<1> QED BY <1>8, <1>9, <1>10, <1>13, <1>14 DEF StoreInv
-----------------------------------------------------------------------------
\* What a writer of one of the other settings leaves alone.
Rest == <<mode, previous, held, meals, commands, wiped, flash_busy, feeder>>

\* A write that is refused changes no more than the sector, which has lapsed then.
LEMMA RefusedStore ==
  ASSUME StoreInv, ~wiped, NEW k \in Sectors, Refused(k),
         UNCHANGED <<calibration, zone, paused, Rest>>
  PROVE  StoreInv'
<1>1. CASE UNCHANGED <<flash, lapsed>>
  BY <1>1, DifferBySector, DifferBySectorNext
     DEF StoreInv, TypeOK, Rest, commands, feeder, Followed, Ordered, Carried, NothingWrittenBack
<1>2. CASE flash' = Blanked(flash, {k}) /\ lapsed' = lapsed \cup {k}
  <2>1. /\ flash' \in Flash /\ lapsed' \subseteq Sectors
        /\ \A i \in Sectors : flash'[i] = flash[i] \/ (flash'[i] = None /\ i \in lapsed')
        /\ \A i \in Sectors : i \in lapsed => i \in lapsed'
    BY <1>2 DEF StoreInv, TypeOK, Flash, Blanked, Sectors
  <2>2. TypeOK'
    BY <2>1 DEF StoreInv, TypeOK, Rest, commands, feeder
  <2>3. Followed' /\ Ordered' /\ NothingWrittenBack'
    BY DEF StoreInv, Followed, Ordered, NothingWrittenBack, Rest, commands
  <2>4. /\ flash'.record = flash.record \/ (flash'.record = None /\ "record" \in lapsed')
        /\ flash'.schedule = flash.schedule \/ (flash'.schedule = None /\ "schedule" \in lapsed')
        /\ flash'.zone = flash.zone \/ (flash'.zone = None /\ "zone" \in lapsed')
        /\ flash'.pause = flash.pause \/ (flash'.pause = None /\ "pause" \in lapsed')
    BY <2>1 DEF Sectors
  <2>5. Carried'
    BY <2>4 DEF StoreInv, Carried, Rest, CalibrationOf
  <2>6. InForceIsStored'
    BY <2>1, <2>4, DifferBySector, DifferBySectorNext
       DEF StoreInv, Sectors, Rest, CalibrationOf, load_paused
  <2> QED BY <2>2, <2>3, <2>5, <2>6 DEF StoreInv
<1> QED BY <1>1, <1>2 DEF Refused

\* The record is written, with the calibration that is put in force.
LEMMA RecordStore ==
  ASSUME StoreInv, ~wiped, NEW n \in Networks \cup {Blank}, NEW c \in Calibrations,
         Written("record", [network |-> n, calibration |-> c]), calibration' = c,
         mode = "Setup" => c = calibration, UNCHANGED <<zone, paused, Rest>>
  PROVE  StoreInv'
<1> DEFINE record == [network |-> n, calibration |-> c]
<1>1. record \in Records /\ record # None /\ record.calibration = c
  BY SectorsAssumption DEF Records
<1>2. flash' = [flash EXCEPT !["record"] = record] /\ lapsed' = lapsed \ {"record"}
  BY DEF Written
<1> HIDE DEF record
<1>3. /\ flash' \in Flash /\ flash'.record = record /\ flash'.schedule = flash.schedule
      /\ flash'.zone = flash.zone /\ flash'.pause = flash.pause
      /\ lapsed' \subseteq Sectors
  BY <1>1, <1>2 DEF StoreInv, TypeOK, Flash
<1>4. TypeOK'
  BY <1>3 DEF StoreInv, TypeOK, Rest, commands, feeder
<1>5. Followed' /\ Ordered' /\ NothingWrittenBack'
  BY DEF StoreInv, Followed, Ordered, NothingWrittenBack, Rest, commands
<1>6. Carried'
  BY <1>1, <1>3 DEF StoreInv, Carried, Rest, CalibrationOf
<1>7. InForceIsStored'
  BY <1>1, <1>2, <1>3, DifferBySector, DifferBySectorNext
     DEF StoreInv, Rest, CalibrationOf, load_paused
<1> QED BY <1>4, <1>5, <1>6, <1>7 DEF StoreInv

\* The zone is written, and in force.
LEMMA ZoneStore ==
  ASSUME StoreInv, ~wiped, NEW z \in Zones, Written("zone", z), zone' = z,
         UNCHANGED <<calibration, paused, Rest>>
  PROVE  StoreInv'
<1>1. /\ flash' \in Flash /\ flash'.zone = z /\ flash'.schedule = flash.schedule
      /\ flash'.record = flash.record /\ flash'.pause = flash.pause
      /\ lapsed' \subseteq Sectors /\ lapsed' = lapsed \ {"zone"}
  BY DEF StoreInv, TypeOK, Flash, Written
<1>2. TypeOK'
  BY <1>1 DEF StoreInv, TypeOK, Rest, commands, feeder
<1>3. Followed' /\ Ordered' /\ NothingWrittenBack' /\ Carried'
  BY <1>1 DEF StoreInv, Followed, Ordered, NothingWrittenBack, Carried, Rest, commands,
              CalibrationOf
<1>4. InForceIsStored'
  BY <1>1, DifferBySector, DifferBySectorNext DEF StoreInv, Rest, CalibrationOf, load_paused
<1> QED BY <1>2, <1>3, <1>4 DEF StoreInv

\* The pause is written, and in force.
LEMMA PauseStore ==
  ASSUME StoreInv, ~wiped, NEW p \in BOOLEAN, Written("pause", p), paused' = p,
         UNCHANGED <<calibration, zone, Rest>>
  PROVE  StoreInv'
<1>1. /\ flash' \in Flash /\ flash'.pause = p /\ flash'.schedule = flash.schedule
      /\ flash'.record = flash.record /\ flash'.zone = flash.zone
      /\ lapsed' \subseteq Sectors /\ lapsed' = lapsed \ {"pause"}
  BY DEF StoreInv, TypeOK, Flash, Written
<1>2. TypeOK'
  BY <1>1 DEF StoreInv, TypeOK, Rest, commands, feeder
<1>3. Followed' /\ Ordered' /\ NothingWrittenBack' /\ Carried'
  BY <1>1 DEF StoreInv, Followed, Ordered, NothingWrittenBack, Carried, Rest, commands,
              CalibrationOf
<1>4. paused' = load_paused(flash')
  BY <1>1, SectorsAssumption DEF load_paused
<1>5. InForceIsStored'
  BY <1>1, <1>4, DifferBySector, DifferBySectorNext DEF StoreInv, Rest, CalibrationOf
<1> QED BY <1>2, <1>3, <1>5 DEF StoreInv

\* A factory reset blanks everything, or what it blanked has lapsed.
LEMMA EraseStore ==
  ASSUME StoreInv, ~wiped, erase_all,
         UNCHANGED <<mode, previous, settings, commands, flash_busy, feeder>>
  PROVE  StoreInv'
<1>1. /\ flash' \in Flash /\ lapsed' \subseteq Sectors /\ wiped' \in BOOLEAN
      /\ \A i \in Sectors : flash'[i] = flash[i] \/ flash'[i] = None
      /\ wiped' => \A i \in Sectors : flash'[i] = None
      /\ ~wiped' => \A i \in Sectors : /\ flash'[i] = flash[i] \/ i \in lapsed'
                                       /\ i \in lapsed => i \in lapsed'
  <2>1. CASE flash' = Blanked(flash, Sectors) /\ wiped' = TRUE /\ UNCHANGED lapsed
    BY <2>1 DEF StoreInv, TypeOK, Flash, Blanked, Sectors
  <2>2. CASE \E n \in 0..4 : LET S == {EraseOrder[i] : i \in 1..n} IN
               /\ flash' = Blanked(flash, S) /\ lapsed' = lapsed \cup S
               /\ UNCHANGED wiped
    <3>1. PICK S \in SUBSET Sectors : /\ flash' = Blanked(flash, S) /\ lapsed' = lapsed \cup S
                                      /\ UNCHANGED wiped
      BY <2>2, ErasePrefix
    <3>2. flash' \in Flash
      BY <3>1 DEF StoreInv, TypeOK, Flash, Blanked, Sectors
    <3>3. \A i \in Sectors : flash'[i] = IF i \in S THEN None ELSE flash[i]
      BY <3>1 DEF Blanked
    <3> QED BY <3>1, <3>2, <3>3 DEF StoreInv, TypeOK
  <2> QED BY <2>1, <2>2 DEF erase_all
<1>2. TypeOK'
  BY <1>1 DEF StoreInv, TypeOK, settings, commands, feeder
<1>3. Followed' /\ Ordered' /\ NothingWrittenBack'
  BY <1>1 DEF StoreInv, Followed, Ordered, NothingWrittenBack, settings, commands
<1>4. Carried'
  BY <1>1 DEF StoreInv, Carried, settings, CalibrationOf, Sectors
<1>5. InForceIsStored'
  BY <1>1, DifferBySector, DifferBySectorNext
     DEF StoreInv, settings, CalibrationOf, load_paused, Sectors
<1> QED BY <1>2, <1>3, <1>4, <1>5 DEF StoreInv

\* The feeder and the uploads touch no setting.
LEMMA FeederStore ==
  ASSUME StoreInv, UNCHANGED <<flash, mode, previous, settings, commands, wiped, lapsed>>,
         owed' \in BOOLEAN, turning' \in BOOLEAN, flash_busy' \in BOOLEAN,
         gapFeeds' \in 0..MaxGapFeeds
  PROVE  StoreInv'
<1>1. TypeOK'
  BY DEF StoreInv, TypeOK, settings, commands
<1>2. Followed' /\ Ordered' /\ NothingWrittenBack' /\ Carried'
  BY DEF StoreInv, Followed, Ordered, NothingWrittenBack, Carried, settings, commands,
         CalibrationOf
<1>3. InForceIsStored'
  BY DifferBySector, DifferBySectorNext DEF StoreInv, settings, CalibrationOf, load_paused
<1> QED BY <1>1, <1>2, <1>3 DEF StoreInv
-----------------------------------------------------------------------------
\* What the network of a record is changed to, its calibration kept, is a record.
LEMMA RecordKept ==
  ASSUME StoreInv, flash.record # None, NEW n
  PROVE  [flash.record EXCEPT !.network = n] = [network |-> n, calibration |-> calibration]
<1>1. flash.record \in Records /\ flash.record.calibration = calibration
  BY DEF StoreInv, TypeOK, Flash, Carried
<1> QED BY <1>1 DEF Records

\* As is one whose calibration is.
LEMMA RecordUpdated ==
  ASSUME StoreInv, flash.record # None, NEW c
  PROVE  /\ update(c) = [network |-> flash.record.network, calibration |-> c]
         /\ flash.record.network \in Networks \cup {Blank}
<1>1. flash.record \in Records
  BY DEF StoreInv, TypeOK, Flash
<1> QED BY <1>1 DEF Records, update

\* What setup saves carries the calibration in force.
LEMMA FormCarries ==
  ASSUME StoreInv, mode = "Setup", NEW n
  PROVE  record_from_form(n) = [network |-> n, calibration |-> calibration]
BY DEF StoreInv, Carried, record_from_form

\* Every step keeps the invariant.
LEMMA StepStore == StoreInv /\ [Next]_vars => StoreInv'
<1> SUFFICES ASSUME StoreInv, [Next]_vars PROVE StoreInv'
  OBVIOUS
<1>0. calibration \in Calibrations
  BY DEF StoreInv, TypeOK
<1>1. ASSUME NEW c \in Commands, send_schedule(c) PROVE StoreInv'
  BY <1>1, SendStore
<1>2. CASE apply_commands
  BY <1>2, ApplyStore
<1>3. ASSUME NEW p \in BOOLEAN, set_pause(p) PROVE StoreInv'
  <2>1. ~wiped /\ UNCHANGED <<calibration, zone, Rest>>
    BY <1>3 DEF set_pause, HasLock, Others, Rest
  <2>2. CASE Written("pause", p) /\ paused' = p
    BY <2>1, <2>2, PauseStore
  <2>3. CASE Refused("pause") /\ UNCHANGED paused
    <3>1. "pause" \in Sectors
      BY DEF Sectors
    <3> QED BY <2>1, <2>3, <3>1, RefusedStore
  <2> QED BY <1>3, <2>2, <2>3 DEF set_pause
<1>4. ASSUME NEW z \in Zones, set_zone(z) PROVE StoreInv'
  <2>1. ~wiped /\ UNCHANGED <<calibration, paused, Rest>>
    BY <1>4 DEF set_zone, HasLock, Others, Rest
  <2>2. CASE Written("zone", z) /\ zone' = z
    BY <2>1, <2>2, ZoneStore
  <2>3. CASE Refused("zone") /\ UNCHANGED zone
    <3>1. "zone" \in Sectors
      BY DEF Sectors
    <3> QED BY <2>1, <2>3, <3>1, RefusedStore
  <2> QED BY <1>4, <2>2, <2>3 DEF set_zone
<1>5. ASSUME NEW c \in Calibrations, set_calibration(c) PROVE StoreInv'
  <2>1. /\ ~wiped /\ mode = "Configured" /\ flash.record # None
        /\ UNCHANGED <<zone, paused, Rest>>
    BY <1>5 DEF set_calibration, HasLock, Others, Rest
  <2>2. CASE Written("record", update(c)) /\ calibration' = c
    <3>1. Written("record", [network |-> flash.record.network, calibration |-> c])
      BY <2>1, <2>2, RecordUpdated
    <3> QED BY <2>1, <2>2, <3>1, RecordUpdated, RecordStore
  <2>3. CASE Refused("record") /\ UNCHANGED calibration
    <3>1. "record" \in Sectors
      BY DEF Sectors
    <3> QED BY <2>1, <2>3, <3>1, RefusedStore
  <2> QED BY <1>5, <2>2, <2>3 DEF set_calibration
<1>6. ASSUME NEW n \in Networks \cup {Blank}, ~wiped,
             UNCHANGED <<calibration, zone, paused, Rest>>,
             Written("record", [network |-> n, calibration |-> calibration])
      PROVE  StoreInv'
  BY <1>0, <1>6, RecordStore
<1>7. ASSUME NEW n \in Networks, network_step(n) PROVE StoreInv'
  <2>1. ~wiped /\ flash.record # None /\ UNCHANGED <<calibration, zone, paused, Rest>>
    BY <1>7 DEF network_step, HasLock, Rest, settings
  <2>2. CASE Written("record", [flash.record EXCEPT !.network = n])
    BY <1>6, <2>1, <2>2, RecordKept
  <2>3. CASE Refused("record")
    <3>1. "record" \in Sectors
      BY DEF Sectors
    <3> QED BY <2>1, <2>3, <3>1, RefusedStore
  <2> QED BY <1>7, <2>2, <2>3 DEF network_step
<1>8. CASE forget_network
  <2>1. ~wiped /\ UNCHANGED <<calibration, zone, paused, Rest>>
    BY <1>8 DEF forget_network, HasLock, Rest, settings
  <2>2. CASE flash.record # None /\ Written("record", without_network)
    BY <1>6, <2>1, <2>2, RecordKept DEF without_network
  <2>3. CASE (flash.record = None /\ UNCHANGED <<flash, lapsed>>) \/ Refused("record")
    <3>1. "record" \in Sectors
      BY DEF Sectors
    <3>2. Refused("record")
      BY <2>3 DEF Refused
    <3> QED BY <2>1, <3>1, <3>2, RefusedStore
  <2> QED BY <1>8, <2>2, <2>3 DEF forget_network
<1>9. CASE erase
  BY <1>9, EraseStore DEF erase, HasLock
<1>10. CASE SetupErases
  BY <1>10, EraseStore DEF SetupErases, SetupStore
<1>11. CASE EraseRestarts \/ SetupRestarts \/ Restart
  BY <1>11, BootStore DEF EraseRestarts, SetupRestarts, Restart
<1>12. ASSUME NEW n \in Networks, SetupSaves(n) PROVE StoreInv'
  <2>1. ~wiped /\ mode = "Setup" /\ UNCHANGED <<calibration, zone, paused, Rest>>
    BY <1>12 DEF SetupSaves, SetupStore, Rest, settings
  <2>2. CASE Written("record", record_from_form(n))
    BY <1>6, <2>1, <2>2, FormCarries
  <2>3. CASE Refused("record")
    <3>1. "record" \in Sectors
      BY DEF Sectors
    <3> QED BY <2>1, <2>3, <3>1, RefusedStore
  <2> QED BY <1>12, <2>2, <2>3 DEF SetupSaves
<1>13. CASE Feed \/ StartTurn \/ EndTurn
  <2>1. /\ UNCHANGED <<flash, mode, previous, settings, commands, wiped, lapsed>>
        /\ flash_busy' \in BOOLEAN
    BY <1>13 DEF Feed, StartTurn, EndTurn, StoreInv, TypeOK
  <2>2. owed' \in BOOLEAN /\ turning' \in BOOLEAN
    BY <1>13 DEF Feed, StartTurn, EndTurn, StoreInv, TypeOK
  <2>3. gapFeeds' \in 0..MaxGapFeeds
    <3>1. CASE Feed /\ wiped
      BY <3>1, StoreAssumption DEF Feed, StoreInv, TypeOK
    <3>2. CASE ~(Feed /\ wiped)
      BY <1>13, <3>2 DEF Feed, StartTurn, EndTurn, StoreInv, TypeOK
    <3> QED BY <3>1, <3>2
  <2> QED BY <2>1, <2>2, <2>3, FeederStore
<1>14. CASE UploadClaims \/ UploadEnds \/ UNCHANGED vars
  <2>1. /\ UNCHANGED <<flash, mode, previous, settings, commands, wiped, lapsed, feeder>>
        /\ flash_busy' \in BOOLEAN
    BY <1>14 DEF UploadClaims, UploadEnds, vars, StoreInv, TypeOK
  <2>2. owed' \in BOOLEAN /\ turning' \in BOOLEAN /\ gapFeeds' \in 0..MaxGapFeeds
    BY <2>1 DEF feeder, StoreInv, TypeOK
  <2> QED BY <2>1, <2>2, FeederStore
<1> QED BY <1>1, <1>2, <1>3, <1>4, <1>5, <1>7, <1>8, <1>9, <1>10, <1>11, <1>12, <1>13, <1>14
        DEF Next
-----------------------------------------------------------------------------
LEMMA StoreInvariant == Spec => []StoreInv
<1>1. Init => StoreInv
  BY InitStore
<1>2. StoreInv /\ [Next]_vars => StoreInv'
  BY StepStore
<1> QED BY <1>1, <1>2, PTL DEF Spec

\* Each variable keeps its type: the sectors of Store hold only records that were
\* written, and no schedule is longer than MAX_SLOTS.
THEOREM TypeCorrect == Spec => []TypeOK
BY StoreInvariant, PTL DEF StoreInv

\* The settings in force are those flash holds: no order of the tasks' writes, no boot
\* and no power cut leaves them apart, but for a sector a write failed on.
THEOREM InForceStored == Spec => []InForceIsStored
BY StoreInvariant, PTL DEF StoreInv

\* Nothing is written between a factory reset and its restart.
THEOREM WipedStaysBlank == Spec => []NothingWrittenBack
BY StoreInvariant, PTL DEF StoreInv

\* Schedule commands are applied one by one and in order, whatever queues them.
THEOREM CommandsInOrder == Spec => []LastCommandWins
<1>1. StoreInv => LastCommandWins
  BY DEF StoreInv, Ordered, LastCommandWins, TypeOK
<1> QED BY <1>1, StoreInvariant, PTL
-----------------------------------------------------------------------------
\* What a boot makes of flash is what a restart of Settings does.
LEMMA BootRestarts ==
  ASSUME Boot
  PROVE  Promise!Restart
BY DEF Boot, Promise!Restart, InForce, Promise!Loaded, CalibrationOf, Promise!CalibrationOf,
       load_paused, Promise!load_paused

\* A refused write is a lapse of its sector.
LEMMA RefusedLapses ==
  ASSUME ~wiped, NEW k \in Sectors, Refused(k), UNCHANGED <<calibration, zone, paused, Rest>>
  PROVE  [Promise!Next]_(Promise!vars)
<1>1. UNCHANGED <<InForce, wiped>>
  BY DEF InForce, Rest
<1>2. CASE UNCHANGED <<flash, lapsed>>
  BY <1>1, <1>2 DEF Promise!vars
<1>3. CASE flash' = Blanked(flash, {k}) /\ lapsed' = lapsed \cup {k}
  <2>1. Promise!Lapse({k})
    BY <1>1, <1>3 DEF Promise!Lapse, Blanked, Promise!Blanked, Sectors, Promise!Sectors
  <2>2. {k} \in SUBSET Promise!Sectors
    BY DEF Sectors, Promise!Sectors
  <2> QED BY <2>1, <2>2 DEF Promise!Next
<1> QED BY <1>2, <1>3 DEF Refused

\* A record written with the calibration in force gives the unit a network.
LEMMA RecordRejoins ==
  ASSUME ~wiped, NEW n \in Networks \cup {Blank}, UNCHANGED <<calibration, zone, paused, Rest>>,
         Written("record", [network |-> n, calibration |-> calibration])
  PROVE  [Promise!Next]_(Promise!vars)
<1>1. UNCHANGED <<InForce, wiped>>
  BY DEF InForce, Rest
<1>2. Promise!Rejoin(n)
  BY <1>1 DEF Promise!Rejoin, InForce, Written
<1> QED BY <1>2 DEF Promise!Next

\* A factory reset wipes, or lapses in what it blanked.
LEMMA EraseWipes ==
  ASSUME ~wiped, erase_all, UNCHANGED settings
  PROVE  [Promise!Next]_(Promise!vars)
<1>1. UNCHANGED InForce
  BY DEF InForce, settings
<1>2. CASE flash' = Blanked(flash, Sectors) /\ wiped' = TRUE /\ UNCHANGED lapsed
  <2>1. Promise!Wipe
    BY <1>1, <1>2 DEF Promise!Wipe, Blanked, Promise!Blanked, Sectors, Promise!Sectors
  <2> QED BY <2>1 DEF Promise!Next
<1>3. CASE \E n \in 0..4 : LET S == {EraseOrder[i] : i \in 1..n} IN
             /\ flash' = Blanked(flash, S) /\ lapsed' = lapsed \cup S
             /\ UNCHANGED wiped
  <2>1. PICK S \in SUBSET Sectors : /\ flash' = Blanked(flash, S) /\ lapsed' = lapsed \cup S
                                    /\ UNCHANGED wiped
    BY <1>3, ErasePrefix
  <2>2. Promise!Lapse(S)
    BY <1>1, <2>1 DEF Promise!Lapse, Blanked, Promise!Blanked, Sectors, Promise!Sectors
  <2>3. S \in SUBSET Promise!Sectors
    BY DEF Sectors, Promise!Sectors
  <2> QED BY <2>2, <2>3 DEF Promise!Next
<1> QED BY <1>2, <1>3 DEF erase_all

\* A command that is applied changes the schedule, or flash refuses it.
LEMMA ApplyChanges ==
  ASSUME StoreInv, apply_commands
  PROVE  [Promise!Next]_(Promise!vars)
<1> DEFINE s == edited(meals, Head(queue))
<1>1. s \in Schedules
  <2>1. meals \in Schedules /\ Head(queue) \in ScheduleCommand
    BY ElementOfSeq, HeadTailProperties, EmptySeq DEF apply_commands, StoreInv, TypeOK
  <2> QED BY <2>1, EditedIsSchedule
<1> HIDE DEF s
<1>2. CASE UNCHANGED <<flash, held, meals, lapsed>>
  BY <1>2 DEF apply_commands, Promise!vars, InForce
<1>3. CASE HasLock /\ held' = s /\ Written("schedule", s)
  <2>1. Promise!Change("schedule", s)
    BY <1>3 DEF apply_commands, Promise!Change, InForce, Written, HasLock
  <2>2. s \in Promise!Schedules
    BY <1>1 DEF Schedules, Promise!Schedules, Slot, Promise!Slot
  <2> QED BY <2>1, <2>2 DEF Promise!Next
<1>4. CASE /\ HasLock /\ held' = s /\ flash' \in {flash, Blanked(flash, {"schedule"})}
           /\ lapsed' = lapsed \cup {"schedule"}
  <2>1. s \in Promise!Schedules
    BY <1>1 DEF Schedules, Promise!Schedules, Slot, Promise!Slot
  <2>2. InForce' = [InForce EXCEPT !.schedule = s]
    BY <1>4 DEF apply_commands, InForce
  <2>3. flash' \in {flash, Promise!Blanked(flash, {"schedule"})} /\ ~wiped /\ UNCHANGED wiped
    BY <1>4 DEF Blanked, Promise!Blanked, Sectors, Promise!Sectors, HasLock, apply_commands
  <2>4. Promise!Lapse({"schedule"})
    BY <1>4, <2>1, <2>2, <2>3 DEF Promise!Lapse
  <2>5. {"schedule"} \in SUBSET Promise!Sectors
    BY DEF Promise!Sectors
  <2> QED BY <2>4, <2>5 DEF Promise!Next
<1>5. Unchanged(s) \/ Refusal(meals, Head(queue)) => UNCHANGED <<flash, held, meals, lapsed>>
  BY DEF apply_commands, accept_schedule, s
<1>6. ~Unchanged(s) /\ ~Refusal(meals, Head(queue)) =>
        /\ HasLock /\ held' = s
        /\ \/ Written("schedule", s)
           \/ /\ flash' \in {flash, Blanked(flash, {"schedule"})}
              /\ lapsed' = lapsed \cup {"schedule"}
  BY DEF apply_commands, accept_schedule, s
<1> QED BY <1>2, <1>3, <1>4, <1>5, <1>6

\* Every step of the store is a step of Settings, or changes nothing it speaks of.
LEMMA StepPromise == StoreInv /\ [Next]_vars => [Promise!Next]_(Promise!vars)
<1> SUFFICES ASSUME StoreInv, [Next]_vars PROVE [Promise!Next]_(Promise!vars)
  OBVIOUS
<1> DEFINE Keeps == UNCHANGED <<calibration, zone, paused, Rest>>
<1>0. ASSUME NEW k \in {"record", "zone", "pause"}, ~wiped, Keeps, Refused(k)
      PROVE  [Promise!Next]_(Promise!vars)
  <2>1. k \in Sectors
    BY DEF Sectors
  <2> QED BY <1>0, <2>1, RefusedLapses
<1>1. ASSUME NEW c \in Commands, send_schedule(c) PROVE [Promise!Next]_(Promise!vars)
  BY <1>1 DEF send_schedule, Promise!vars, InForce, settings
<1>2. CASE apply_commands
  BY <1>2, ApplyChanges
<1>3. ASSUME NEW p \in BOOLEAN, set_pause(p) PROVE [Promise!Next]_(Promise!vars)
  <2>1. CASE Written("pause", p) /\ paused' = p
    <3>1. Promise!Change("pause", p)
      BY <1>3, <2>1 DEF set_pause, HasLock, Others, Written, Promise!Change, InForce
    <3> QED BY <3>1 DEF Promise!Next
  <2>2. CASE Refused("pause") /\ UNCHANGED paused
    BY <1>0, <1>3, <2>2 DEF set_pause, HasLock, Others, Rest
  <2> QED BY <1>3, <2>1, <2>2 DEF set_pause
<1>4. ASSUME NEW z \in Zones, set_zone(z) PROVE [Promise!Next]_(Promise!vars)
  <2>1. CASE Written("zone", z) /\ zone' = z
    <3>1. Promise!Change("zone", z)
      BY <1>4, <2>1 DEF set_zone, HasLock, Others, Written, Promise!Change, InForce
    <3> QED BY <3>1 DEF Promise!Next
  <2>2. CASE Refused("zone") /\ UNCHANGED zone
    BY <1>0, <1>4, <2>2 DEF set_zone, HasLock, Others, Rest
  <2> QED BY <1>4, <2>1, <2>2 DEF set_zone
<1>5. ASSUME NEW c \in Calibrations, set_calibration(c) PROVE [Promise!Next]_(Promise!vars)
  <2>1. CASE Written("record", update(c)) /\ calibration' = c
    <3>1. flash' = [flash EXCEPT !.record.calibration = c]
      BY <2>1 DEF Written, update, StoreInv, TypeOK, Flash
    <3>2. /\ InForce' = [InForce EXCEPT !.calibration = c]
          /\ ~wiped /\ UNCHANGED wiped /\ flash.record # None
      BY <1>5, <2>1 DEF set_calibration, HasLock, Others, InForce
    <3>3. lapsed' = lapsed \ {"record"}
      BY <2>1 DEF Written
    <3>4. Promise!Calibrate(c)
      BY <3>1, <3>2, <3>3 DEF Promise!Calibrate
    <3> QED BY <3>4 DEF Promise!Next
  <2>2. CASE Refused("record") /\ UNCHANGED calibration
    BY <1>0, <1>5, <2>2 DEF set_calibration, HasLock, Others, Rest
  <2> QED BY <1>5, <2>1, <2>2 DEF set_calibration
<1>6. ASSUME NEW n \in Networks, network_step(n) PROVE [Promise!Next]_(Promise!vars)
  <2>1. ~wiped /\ flash.record # None /\ Keeps
    BY <1>6 DEF network_step, HasLock, Rest, settings
  <2>2. CASE Written("record", [flash.record EXCEPT !.network = n])
    BY <2>1, <2>2, RecordKept, RecordRejoins
  <2>3. CASE Refused("record")
    BY <1>0, <2>1, <2>3
  <2> QED BY <1>6, <2>2, <2>3 DEF network_step
<1>7. CASE forget_network
  <2>1. ~wiped /\ Keeps
    BY <1>7 DEF forget_network, HasLock, Rest, settings
  <2>2. CASE flash.record # None /\ Written("record", without_network)
    BY <2>1, <2>2, RecordKept, RecordRejoins DEF without_network
  <2>3. CASE (flash.record = None /\ UNCHANGED <<flash, lapsed>>) \/ Refused("record")
    <3>1. Refused("record")
      BY <2>3 DEF Refused
    <3> QED BY <1>0, <2>1, <3>1
  <2> QED BY <1>7, <2>2, <2>3 DEF forget_network
<1>8. CASE erase \/ SetupErases
  BY <1>8, EraseWipes DEF erase, HasLock, SetupErases, SetupStore
<1>9. CASE EraseRestarts \/ SetupRestarts \/ Restart
  BY <1>9, BootRestarts DEF EraseRestarts, SetupRestarts, Restart, Promise!Next
<1>10. ASSUME NEW n \in Networks, SetupSaves(n) PROVE [Promise!Next]_(Promise!vars)
  <2>1. ~wiped /\ mode = "Setup" /\ Keeps
    BY <1>10 DEF SetupSaves, SetupStore, Rest, settings
  <2>2. CASE Written("record", record_from_form(n))
    BY <2>1, <2>2, FormCarries, RecordRejoins
  <2>3. CASE Refused("record")
    BY <1>0, <2>1, <2>3
  <2> QED BY <1>10, <2>2, <2>3 DEF SetupSaves
<1>11. CASE Feed \/ StartTurn \/ EndTurn \/ UploadClaims \/ UploadEnds \/ UNCHANGED vars
  <2>1. UNCHANGED <<flash, settings, wiped, lapsed>>
    BY <1>11 DEF Feed, StartTurn, EndTurn, UploadClaims, UploadEnds, vars
  <2> QED BY <2>1 DEF settings, InForce, Promise!vars
<1> QED BY <1>1, <1>2, <1>3, <1>4, <1>5, <1>6, <1>7, <1>8, <1>9, <1>10, <1>11 DEF Next

LEMMA InitPromise == Init => Promise!Init
<1> SUFFICES ASSUME Init PROVE Promise!Init
  OBVIOUS
<1>1. flash \in Promise!Flash
  BY InitStore DEF StoreInv, TypeOK, Flash, Promise!Flash, Records, Promise!Records,
     Schedules, Promise!Schedules, Slot, Promise!Slot
<1>2. InForce = Promise!Loaded(flash)
  BY DEF Init, Sectors, InForce, Promise!Loaded, Promise!CalibrationOf, Promise!load_paused
<1> QED BY <1>1, <1>2 DEF Init, Promise!Init

\* The store, its writers, the boots and the resets implement Settings: a setting in
\* force is one a restart brings back, and after a factory reset it brings back none.
THEOREM StoreKeepsSettings == Spec => SettingsKept
<1>1. StoreInv /\ [Next]_vars => [Promise!Next]_(Promise!vars)
  BY StepPromise
<1> QED BY <1>1, InitPromise, StoreInvariant, PTL DEF Spec, SettingsKept, Promise!Spec
=============================================================================
