--------------------------------- MODULE Store ---------------------------------
(***************************************************************************)
(* The settings in flash and everything that writes them: src/src/store.rs *)
(* behind its lock, Bus::set_pause, set_zone and set_calibration of        *)
(* src/src/wiring.rs, the schedule commands of schedule_task and the BOOT  *)
(* hold in src/src/bin/main.rs, the network form and the factory reset of  *)
(* src/src/web.rs, and setup mode's two ways out (src/src/setup.rs).       *)
(*                                                                         *)
(* Every writer takes the lock, writes and lets go without an await, so    *)
(* each is one step; only a factory reset keeps the lock, from the erase   *)
(* to the restart.  A request that waits for it then dies in that restart, *)
(* and is a step that is not taken.                                        *)
(***************************************************************************)
EXTENDS FlashRecords

CONSTANTS
  Commands,              \* schedule commands that are sent
  QueueLen,              \* the depth of BUS.schedule
  MaxGapFeeds            \* bound: feeds asked for between an erase and its restart

OFF == [minute |-> 0, portions |-> 0]

\* A ScheduleCommand.  Slots are counted from 1 here.
SlotEdit == [kind : {"time"}, index : 1..(MaxSlots + 1), minute : Minutes] \cup
            [kind : {"portions"}, index : 1..(MaxSlots + 1), portions : Portions]
ScheduleCommand == [kind : {"replace"}, meals : Schedules] \cup SlotEdit

ASSUME StoreAssumption ==
  /\ QueueLen \in Nat \ {0} /\ MaxGapFeeds \in Nat
  /\ Commands \subseteq ScheduleCommand

VARIABLES
  flash,                       \* the four sectors
  mode,                        \* which branch of main the boot took
  previous,                    \* setup: the record read when setup mode began
  calibration, zone, paused,   \* BUS.calibration, BUS.zone, BUS.paused
  held,                        \* BUS.held
  meals,                       \* the schedule the Scheduler follows
  queue,                       \* BUS.schedule
  wiped,                       \* a factory reset holds the lock until the restart
  flash_busy,                  \* an upload of firmware is being written
  owed, turning                \* the feeder has a feed to start, or turns

\* History, read by the properties only.
VARIABLES
  wishes,        \* what the schedule is to be, now and after each command queued
  lapsed,        \* the sectors a write failed on since they were last written
  gapFeeds       \* feeds asked for since the erase

settings == <<calibration, zone, paused, held, meals>>
commands == <<queue, wishes>>
feeder   == <<owed, turning, gapFeeds>>
vars == <<flash, mode, previous, settings, commands, wiped, flash_busy,
          feeder, lapsed>>

idle == ~turning /\ ~owed
-----------------------------------------------------------------------------
(***************************************************************************)
(* Flash.  A write that fails leaves the sector as it was or blank, as one *)
(* the power cuts off does.                                                *)
(***************************************************************************)
\* A sector is written, and so agrees with what is in force.
Written(s, value) ==
  /\ flash' = [flash EXCEPT ![s] = value]
  /\ lapsed' = lapsed \ {s}

\* The write is refused, and nothing comes in force that was not.
Refused(s) ==
  \/ UNCHANGED <<flash, lapsed>>
  \/ flash' = Blanked(flash, {s}) /\ lapsed' = lapsed \cup {s}

\* There is a network to join, and so no need of setup mode.
usable == flash.record # None /\ flash.record.network # Blank
load_schedule == IF flash.schedule = None THEN <<>> ELSE flash.schedule

\* Every task starts again from flash.  In setup mode none of the settings is
\* read: they are given the value they would have.
Boot ==
  /\ mode' = IF usable THEN "Configured" ELSE "Setup"
  /\ previous' = flash.record
  /\ calibration' = CalibrationOf(flash.record) /\ zone' = flash.zone
  /\ paused' = load_paused(flash)
  /\ held' = flash.schedule /\ meals' = load_schedule
  /\ queue' = <<>> /\ wishes' = <<load_schedule>>
  /\ wiped' = FALSE /\ flash_busy' = FALSE
  /\ owed' = FALSE /\ turning' = FALSE /\ gapFeeds' = 0
  /\ lapsed' = {} /\ UNCHANGED flash

Init ==
  /\ flash = [s \in Sectors |-> None]
  /\ mode = "Setup" /\ previous = None
  /\ calibration = DefaultCalibration /\ zone = None /\ paused = FALSE
  /\ held = None /\ meals = <<>>
  /\ queue = <<>> /\ wishes = <<(<<>>)>>
  /\ wiped = FALSE /\ flash_busy = FALSE
  /\ owed = FALSE /\ turning = FALSE /\ gapFeeds = 0
  /\ lapsed = {}

\* Mutant: the factory reset lets go of the lock after the erase.
HasLockLetGo == mode = "Configured"

\* A task of a configured unit that gets the lock.
HasLock == mode = "Configured" /\ ~wiped
-----------------------------------------------------------------------------
(***************************************************************************)
(* Schedule commands: queued by the session or the admin page, taken in    *)
(* order by schedule_task.                                                 *)
(***************************************************************************)
\* Past the end, a time adds the slot switched off and portions are refused.
Padded(s, n) == [i \in 1..n |-> IF i \in DOMAIN s THEN s[i] ELSE OFF]
Refusal(s, c) ==
  /\ c.kind # "replace"
  /\ c.index > MaxSlots \/ (c.kind = "portions" /\ c.index > Len(s))
edited(s, c) ==
  IF c.kind = "replace" THEN c.meals
  ELSE IF Refusal(s, c) THEN s
  ELSE IF c.kind = "portions" THEN [s EXCEPT ![c.index].portions = c.portions]
  ELSE LET n == IF c.index > Len(s) THEN c.index ELSE Len(s)
       IN [Padded(s, n) EXCEPT ![c.index].minute = c.minute]

\* Mutant: BUS.schedule is a Signal, which keeps the latest command only.
send_scheduleLatest(c) ==
  /\ mode = "Configured"
  /\ queue' = <<c>>
  /\ wishes' = <<wishes[1], edited(wishes[Len(wishes)], c)>>
  /\ UNCHANGED <<flash, mode, previous, settings, wiped, flash_busy, feeder, lapsed>>

\* A full queue drops the command.
send_schedule(c) ==
  /\ mode = "Configured" /\ Len(queue) < QueueLen
  /\ queue' = Append(queue, c)
  /\ wishes' = Append(wishes, edited(wishes[Len(wishes)], c))
  /\ UNCHANGED <<flash, mode, previous, settings, wiped, flash_busy, feeder, lapsed>>

\* What the unit already holds is not written again.
Unchanged(s) == held = s

\* A schedule is stored, or not if flash refuses, and followed either way.
accept_schedule(s) ==
  IF Unchanged(s) THEN UNCHANGED <<flash, held, meals, lapsed>>
  ELSE /\ HasLock
       /\ held' = s /\ meals' = s
       /\ \/ Written("schedule", s)
          \/ /\ flash' \in {flash, Blanked(flash, {"schedule"})}
             /\ lapsed' = lapsed \cup {"schedule"}

apply_commands ==
  /\ mode = "Configured" /\ queue # <<>>
  /\ IF Refusal(meals, Head(queue)) THEN UNCHANGED <<flash, held, meals, lapsed>>
     ELSE accept_schedule(edited(meals, Head(queue)))
  /\ queue' = Tail(queue) /\ wishes' = Tail(wishes)
  /\ UNCHANGED <<mode, previous, calibration, zone, paused, wiped, flash_busy, feeder>>
-----------------------------------------------------------------------------
(***************************************************************************)
(* The other settings: flash first, then in force.                         *)
(***************************************************************************)
Others == <<mode, previous, held, meals, commands, wiped, flash_busy, feeder>>

\* Mutant: the pause is put in force whether or not it could be stored.
set_pauseAnyway(p) ==
  /\ HasLock /\ p # paused /\ paused' = p
  /\ Written("pause", p) \/ Refused("pause")
  /\ UNCHANGED <<calibration, zone, Others>>

set_pause(p) ==
  /\ HasLock /\ p # paused
  /\ \/ Written("pause", p) /\ paused' = p
     \/ Refused("pause") /\ UNCHANGED paused
  /\ UNCHANGED <<calibration, zone, Others>>

set_zone(z) ==
  /\ HasLock /\ z # zone
  /\ \/ Written("zone", z) /\ zone' = z
     \/ Refused("zone") /\ UNCHANGED zone
  /\ UNCHANGED <<calibration, paused, Others>>

\* Mutant: the record edited is the copy read at the boot.
updateCopy(c) == [previous EXCEPT !.calibration = c]

\* Store::update edits the record that is stored, and there has to be one.
update(c) == [flash.record EXCEPT !.calibration = c]
set_calibration(c) ==
  /\ HasLock /\ c # calibration /\ flash.record # None
  /\ \/ Written("record", update(c)) /\ calibration' = c
     \/ Refused("record") /\ UNCHANGED calibration
  /\ UNCHANGED <<zone, paused, Others>>

\* The network form keeps the calibration it read; the restart it asks for is one of
\* Restart's.
network_step(n) ==
  /\ HasLock /\ flash.record # None /\ n # flash.record.network
  /\ \/ Written("record", [flash.record EXCEPT !.network = n])
     \/ Refused("record")
  /\ UNCHANGED <<mode, previous, settings, commands, wiped, flash_busy, feeder>>

\* The BOOT hold.  A record that does not decode is erased, and is none already.
without_network == [flash.record EXCEPT !.network = Blank]
forget_network ==
  /\ HasLock
  /\ \/ flash.record # None /\ Written("record", without_network)
     \/ flash.record = None /\ UNCHANGED <<flash, lapsed>>
     \/ Refused("record")
  /\ UNCHANGED <<mode, previous, settings, commands, wiped, flash_busy, feeder>>
-----------------------------------------------------------------------------
(***************************************************************************)
(* The factory reset.  Four sectors are written in turn; at the first that *)
(* refuses it stops, and the page says that nothing changed.               *)
(***************************************************************************)
EraseOrder == <<"record", "schedule", "zone", "pause">>
erase_all ==
  \/ flash' = Blanked(flash, Sectors) /\ wiped' = TRUE /\ UNCHANGED lapsed
  \/ \E n \in 0..4 : LET S == {EraseOrder[i] : i \in 1..n} IN
       /\ flash' = Blanked(flash, S) /\ lapsed' = lapsed \cup S
       /\ UNCHANGED wiped

erase ==
  /\ HasLock /\ idle /\ ~flash_busy
  /\ erase_all
  /\ UNCHANGED <<mode, previous, settings, commands, flash_busy, feeder>>

\* The page has been sent, and the restart waits for the feeder.
EraseRestarts == mode = "Configured" /\ wiped /\ idle /\ Boot
-----------------------------------------------------------------------------
(***************************************************************************)
(* What a factory reset waits for: the feeder, and the uploads of firmware *)
(* that hold it.                                                           *)
(***************************************************************************)
Feed ==
  /\ mode = "Configured"
  /\ wiped => gapFeeds < MaxGapFeeds
  /\ gapFeeds' = IF wiped THEN gapFeeds + 1 ELSE gapFeeds
  /\ owed' = TRUE
  /\ UNCHANGED <<flash, mode, previous, settings, commands, wiped, flash_busy,
                 turning, lapsed>>

StartTurn ==
  /\ owed /\ ~turning /\ ~flash_busy
  /\ owed' = FALSE /\ turning' = TRUE
  /\ UNCHANGED <<flash, mode, previous, settings, commands, wiped, flash_busy,
                 gapFeeds, lapsed>>

EndTurn ==
  /\ turning /\ turning' = FALSE
  /\ UNCHANGED <<flash, mode, previous, settings, commands, wiped, flash_busy,
                 owed, gapFeeds, lapsed>>

\* Mutant: the claim comes before the idle slot is asked for, under no lock.
UploadClaimsFirst ==
  /\ mode = "Configured" /\ ~flash_busy /\ ~turning
  /\ flash_busy' = TRUE
  /\ UNCHANGED <<flash, mode, previous, settings, commands, wiped, feeder, lapsed>>

\* The idle slot is asked for first, under the lock, and the claim follows with no
\* await between.
UploadClaims ==
  /\ HasLock /\ ~flash_busy /\ ~turning
  /\ flash_busy' = TRUE
  /\ UNCHANGED <<flash, mode, previous, settings, commands, wiped, feeder, lapsed>>

\* Each sector takes the lock; the claim goes with the upload, however it ends.  The
\* restart of one that was selected is one of Restart's.
UploadEnds ==
  /\ flash_busy /\ HasLock
  /\ flash_busy' = FALSE
  /\ UNCHANGED <<flash, mode, previous, settings, commands, wiped, feeder, lapsed>>
-----------------------------------------------------------------------------
(***************************************************************************)
(* Setup mode's two ways out, with nothing but the network in between: see *)
(* Setup.                                                                  *)
(***************************************************************************)
SetupStore == mode = "Setup" /\ ~wiped

\* What is saved carries the calibration of the record read at the start.
record_from_form(n) ==
  [network |-> n, calibration |-> CalibrationOf(previous)]
SetupSaves(n) ==
  /\ SetupStore
  /\ \/ Written("record", record_from_form(n))
     \/ Refused("record")
  /\ UNCHANGED <<mode, previous, settings, commands, wiped, flash_busy, feeder>>

SetupErases ==
  /\ SetupStore /\ erase_all
  /\ UNCHANGED <<mode, previous, settings, commands, flash_busy, feeder>>
SetupRestarts == mode = "Setup" /\ wiped /\ Boot
-----------------------------------------------------------------------------
\* The power goes, or a restart comes that does not look at the settings: after the
\* network form, the BOOT hold, setup's save, an upload or a failed trial.
Restart == Boot

Next ==
  \/ \E c \in Commands : send_schedule(c)
  \/ apply_commands
  \/ \E p \in BOOLEAN : set_pause(p)
  \/ \E z \in Zones : set_zone(z)
  \/ \E c \in Calibrations : set_calibration(c)
  \/ \E n \in Networks : network_step(n)
  \/ forget_network
  \/ erase \/ EraseRestarts
  \/ Feed \/ StartTurn \/ EndTurn
  \/ UploadClaims \/ UploadEnds
  \/ \E n \in Networks : SetupSaves(n)
  \/ SetupErases \/ SetupRestarts
  \/ Restart

Spec == Init /\ [][Next]_vars

\* The executor polls every task; an upload ends, at the latest by its socket's
\* timeout, and a turn by its last click or the jam timeout.
Fairness ==
  /\ WF_vars(EraseRestarts) /\ WF_vars(SetupRestarts)
  /\ WF_vars(StartTurn) /\ WF_vars(EndTurn)
  /\ WF_vars(UploadEnds)
FairSpec == Spec /\ Fairness
-----------------------------------------------------------------------------
TypeOK ==
  /\ flash \in Flash /\ mode \in {"Configured", "Setup"} /\ previous \in Records \cup {None}
  /\ calibration \in Calibrations /\ zone \in Zones \cup {None} /\ paused \in BOOLEAN
  /\ held \in Schedules \cup {None} /\ meals \in Schedules
  /\ queue \in Seq(ScheduleCommand) /\ Len(queue) <= QueueLen
  /\ wiped \in BOOLEAN /\ flash_busy \in BOOLEAN
  /\ owed \in BOOLEAN /\ turning \in BOOLEAN
  /\ wishes \in Seq(Schedules) /\ lapsed \subseteq Sectors /\ gapFeeds \in 0..MaxGapFeeds

\* The settings in force are those flash holds, whichever tasks wrote them and in
\* whatever order: the unit claims nothing that a restart would lose, nor the other
\* way round.  Only a sector a write failed on may differ.
Differ ==
  {s \in {"record"} : calibration # CalibrationOf(flash.record)} \cup
  {s \in {"schedule"} : held # flash.schedule} \cup
  {s \in {"zone"} : zone # flash.zone} \cup
  {s \in {"pause"} : paused # load_paused(flash)}
InForceIsStored == ~wiped => Differ \subseteq lapsed

\* From the erase to the restart nothing is written back, whoever is waiting to.
NothingWrittenBack == wiped => \A s \in Sectors : flash[s] = None

\* No schedule command that was queued is lost, doubled or applied out of turn: once
\* all are taken, the schedule followed is the one the last of them asked for, each
\* edit made to the result of the one before.
LastCommandWins == queue = <<>> => meals = wishes[Len(wishes)]

\* A factory reset that erased restarts, however the feeder and the uploads stand.
ResetEnds == wiped ~> ~wiped

\* The settings keep what they promise.
InForce == [calibration |-> calibration, schedule |-> held, zone |-> zone, pause |-> paused]
Promise == INSTANCE Settings WITH now <- InForce, stored <- flash
SettingsKept == Promise!Spec
=============================================================================
