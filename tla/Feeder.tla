-------------------------------- MODULE Feeder --------------------------------
(***************************************************************************)
(* The motor and what it turns: feeder_task and calibrate in               *)
(* src/src/bin/main.rs over the state machine of src/src/feeder.rs, the    *)
(* switch, the mechanism itself, and the firmware upload of src/src/web.rs *)
(* that keeps the motor still while it writes.                             *)
(*                                                                         *)
(* Time is counted in ticks.  The rotor takes DetentSteps of them, or any  *)
(* number more, from one detent to the next; the switch is closed on a     *)
(* detent.  The executor is single-threaded and does nothing slow while    *)
(* the motor turns, so time passes only when the feeder has nothing to do. *)
(***************************************************************************)
EXTENDS Portions, Sequences

CONSTANTS
  DetentSteps,       \* ticks of the mechanism from detent to detent, at best
  Chatter,           \* ticks the contact may bounce after a start or an edge
  Calibrations,      \* the figures that may be saved: [detent, scale]
  MIN_SPACING, MIN_JAM,
  MAX_CLICKS, FEED_DEPTH, CLICKS_DEPTH,
  DETENTS, CAL_JAM,  \* a calibration run's clicks, and its limit for one
  Requests,          \* the sizes of a request, in portions
  MaxRequests, MaxRuns, MaxUploads, MaxCuts      \* bounds

Calibration == [detent : Nat \ {0}, scale : Nat]

ASSUME FeederAssumption ==
  /\ DetentSteps \in Nat \ {0} /\ Chatter \in Nat
  /\ Calibrations # {} /\ Calibrations \subseteq Calibration
  /\ MIN_SPACING \in Nat \ {0} /\ MIN_JAM \in Nat \ {0}
  /\ MAX_CLICKS \in U8 \ {0}
  /\ FEED_DEPTH \in Nat \ {0} /\ CLICKS_DEPTH \in Nat \ {0}
  /\ DETENTS \in Nat \ {0} /\ CAL_JAM \in Nat \ {0}
  /\ Requests \subseteq U8
  /\ MaxRequests \in Nat /\ MaxRuns \in Nat /\ MaxUploads \in Nat /\ MaxCuts \in Nat

Bounded == {"requests", "runs", "uploads", "cuts"}

\* What Timings promises itself of the mechanism: a bounce is over before the
\* spacing floor is, and no detent arrives before it.
ASSUME MechanismAssumption ==
  \A c \in Calibrations :
    /\ Chatter <= min_click_spacing(c.detent, MIN_SPACING)
    /\ min_click_spacing(c.detent, MIN_SPACING) <= DetentSteps

VARIABLES
  angle,             \* the rotor, in ticks past a detent
  shaking,           \* ticks left in which the contact may bounce
  motor,             \* running forward, or braked
  clicks,            \* CLICKS: edges not yet taken
  feed,              \* BUS.feed: portions asked for
  calibrate,         \* BUS.calibrate: a run is asked for
  calibration,       \* BUS.calibration: the figures saved
  applied,           \* the figures in force in the feeder
  phase,             \* Feeder.phase, or "Calibrating" inside calibrate()
  pending,           \* Feeder.pending, in clicks
  elapsed,           \* ticks since since_ms, or since a run's last click
  jammed,            \* Feeder.jammed
  run,               \* clicks of the calibration run
  holding,           \* the idle select is still in hold_for_flash
  feeding,           \* BUS.status.feeding
  flash_busy, feed_held,
  upload,            \* how far the upload that has the sectors is
  restarting         \* an upload before it was selected, and its connection restarts

\* Counters that bound a run, and history read by the properties only.
VARIABLES
  spent,             \* how many of each of Bounded there have been
  owed,              \* clicks accepted, less the detents the motor turned
  whole,             \* this turn has been on a detent, so the next is a portion
  stall              \* ticks the motor has run without reaching a detent

mechanism == <<angle, shaking>>
bus       == <<feed, calibrate, calibration>>
machine   == <<pending, jammed, applied, run>>
uploads   == <<upload, restarting>>
ghosts    == <<owed, whole, stall>>
vars == <<mechanism, motor, clicks, bus, machine, phase, elapsed, holding,
          feeding, flash_busy, feed_held, uploads, spent, ghosts>>

Spacing == min_click_spacing(applied.detent, MIN_SPACING)
Jam     == jam_timeout(applied.detent, MIN_JAM)
Turning == phase \in {"Aligning", "Counting"}
OnDetent == angle = 0
-----------------------------------------------------------------------------
Init ==
  /\ angle \in {0, DetentSteps - 1} /\ shaking = 0 /\ motor = FALSE /\ clicks = 0
  /\ feed = <<>> /\ calibrate = FALSE
  /\ calibration \in Calibrations /\ applied = calibration
  /\ phase = "Idle" /\ pending = 0 /\ elapsed = 0 /\ jammed = FALSE /\ run = 0
  /\ holding = FALSE /\ feeding = FALSE
  /\ flash_busy = FALSE /\ feed_held = FALSE
  /\ upload = "None" /\ restarting = FALSE
  /\ spent = [what \in Bounded |-> 0]
  /\ owed = 0 /\ whole = FALSE /\ stall = 0
-----------------------------------------------------------------------------
(***************************************************************************)
(* feeder_task: what each pass of its loop does.                           *)
(***************************************************************************)

\* A variant for the checks: a status that leaves out aligning.
LoopTopCounting ==
  /\ feeding' = (phase' = "Counting")
  /\ motor' = (phase' # "Idle")
  /\ holding' = (phase' = "Idle" /\ flash_busy)

\* The top of the loop: publish, and brake when idle.  The idle select starts
\* by waiting for the flash.
LoopTop ==
  /\ feeding' = (phase' # "Idle")
  /\ motor' = (phase' # "Idle")
  /\ holding' = (phase' = "Idle" /\ flash_busy)

\* The feed branch of the idle select: past the hold, and something to feed.
\* In the variant what was held over waits for another request.
PastHold  == ~(holding /\ flash_busy)
FeedReadyQueued == phase = "Idle" /\ PastHold /\ feed # <<>>
FeedReady == phase = "Idle" /\ PastHold /\ (pending > 0 \/ feed # <<>>)

\* Feeder::request at the figures in force after the step.
RequestClicks(portions) ==
  LET more == PendingAdd(pending, clicks_for(portions, applied'.scale), MAX_CLICKS)
  IN  /\ pending' = more
      /\ owed' = owed + (more - pending)

\* Portions held over come first and are asked for as 0 more; otherwise one
\* request is taken.  New figures are put in force before it is counted.
TakeFeed ==
  /\ FeedReady
  /\ feed' = IF pending > 0 THEN feed ELSE Tail(feed)
  /\ applied' = calibration
  /\ RequestClicks(IF pending > 0 THEN 0 ELSE Head(feed))
  /\ IF pending' > 0 /\ ~flash_busy
     THEN /\ phase' = IF OnDetent THEN "Counting" ELSE "Aligning"
          /\ elapsed' = 0
          /\ shaking' = IF OnDetent THEN Chatter ELSE shaking
          /\ feed_held' = FALSE
          /\ whole' = OnDetent /\ stall' = 0
     ELSE /\ feed_held' = (feed_held \/ pending' > 0)
          /\ UNCHANGED <<phase, elapsed, shaking, whole, stall>>
  /\ LoopTop
  /\ UNCHANGED <<angle, clicks, calibrate, calibration, jammed, run,
                 flash_busy, uploads, spent>>

\* A click while idle: the hub was turned by hand, or bounced.
IdleClick ==
  /\ phase = "Idle" /\ ~FeedReady /\ clicks > 0
  /\ clicks' = clicks - 1
  /\ UNCHANGED phase
  /\ LoopTop
  /\ UNCHANGED <<mechanism, bus, machine, elapsed, flash_busy, feed_held, uploads,
                 spent, ghosts>>

\* A calibration run starts, or is put back because a write began meanwhile.
TakeCalibrate ==
  /\ phase = "Idle" /\ ~FeedReady /\ clicks = 0 /\ PastHold /\ calibrate
  /\ IF flash_busy
     THEN UNCHANGED <<phase, calibrate, shaking, whole, stall>>
     ELSE /\ phase' = "Calibrating" /\ calibrate' = FALSE
          /\ shaking' = IF OnDetent THEN Chatter ELSE shaking
          /\ whole' = OnDetent /\ stall' = 0
  /\ run' = 0
  /\ LoopTop
  /\ UNCHANGED <<angle, clicks, feed, calibration, pending, jammed, applied,
                 elapsed, flash_busy, feed_held, uploads, spent, owed>>

\* hold_for_flash returns and nothing else is ready.
HoldEnds ==
  /\ phase = "Idle" /\ holding /\ ~flash_busy
  /\ ~FeedReady /\ clicks = 0 /\ ~calibrate
  /\ holding' = FALSE
  /\ UNCHANGED <<mechanism, motor, clicks, bus, machine, phase, elapsed, feeding,
                 flash_busy, feed_held, uploads, spent, ghosts>>

\* An edge below the spacing floor is bounce, but only while counting: the
\* first edge of an alignment may come at any time.  It moves no window.  The
\* variants apply the floor to alignment, and let bounce restart the window.
TooSoonAnyPhase == elapsed < Spacing
TooSoon         == phase = "Counting" /\ elapsed < Spacing
RejectRestarts  == elapsed' = 0 /\ UNCHANGED <<phase, pending, jammed>>
Reject          == UNCHANGED <<phase, pending, elapsed, jammed>>

\* Feeder::on_click while turning, edges first in the select.
OnClick ==
  /\ Turning /\ clicks > 0
  /\ clicks' = clicks - 1
  /\ IF TooSoon THEN Reject
     ELSE /\ elapsed' = 0
          /\ jammed' = FALSE
          /\ pending' = IF phase = "Aligning" THEN pending ELSE pending - 1
          /\ phase' = IF pending' = 0 THEN "Idle" ELSE "Counting"
  /\ LoopTop
  /\ UNCHANGED <<mechanism, bus, applied, run, flash_busy, feed_held, uploads,
                 spent, ghosts>>

\* A request mid-turn lengthens the same run.  The variant reads it and leaves
\* it on the queue.
FeedPeeked == feed
FeedLeft   == Tail(feed)
MoreFeed ==
  /\ Turning /\ clicks = 0 /\ feed # <<>>
  /\ feed' = FeedLeft
  /\ UNCHANGED applied
  /\ RequestClicks(Head(feed))
  /\ UNCHANGED <<mechanism, motor, clicks, calibrate, calibration, jammed, run,
                 phase, elapsed, holding, feeding, flash_busy, feed_held, uploads,
                 spent, whole, stall>>

\* Feeder::on_timeout: the jam budget went with no edge and nothing was asked.
Timeout ==
  /\ Turning /\ clicks = 0 /\ feed = <<>> /\ elapsed >= Jam
  /\ phase' = "Idle" /\ pending' = 0 /\ jammed' = TRUE /\ elapsed' = 0
  /\ owed' = 0
  /\ LoopTop
  /\ UNCHANGED <<mechanism, clicks, bus, applied, run, flash_busy, feed_held,
                 uploads, spent, whole, stall>>

\* calibrate(): count edges to DETENTS, or give up on the first that is late.
CalibrationClick ==
  /\ phase = "Calibrating" /\ clicks > 0
  /\ clicks' = clicks - 1
  /\ run' = run + 1
  /\ elapsed' = 0
  /\ phase' = IF run' = DETENTS THEN "Idle" ELSE phase
  /\ LoopTop
  /\ UNCHANGED <<mechanism, bus, pending, jammed, applied, flash_busy, feed_held,
                 uploads, spent, ghosts>>

CalibrationJam ==
  /\ phase = "Calibrating" /\ clicks = 0 /\ elapsed >= CAL_JAM
  /\ phase' = "Idle"
  /\ elapsed' = 0
  /\ LoopTop
  /\ UNCHANGED <<mechanism, clicks, bus, machine, flash_busy, feed_held, uploads,
                 spent, ghosts>>

FeederTask ==
  \/ TakeFeed \/ IdleClick \/ TakeCalibrate \/ HoldEnds
  \/ OnClick \/ MoreFeed \/ Timeout
  \/ CalibrationClick \/ CalibrationJam
-----------------------------------------------------------------------------
(***************************************************************************)
(* The mechanism and time.                                                 *)
(***************************************************************************)

\* The feeder has something to do before time passes.
Ready ==
  \/ FeedReady
  \/ clicks > 0
  \/ phase = "Idle" /\ PastHold /\ calibrate
  \/ holding /\ ~flash_busy
  \/ Turning /\ (feed # <<>> \/ elapsed >= Jam)
  \/ phase = "Calibrating" /\ elapsed >= CAL_JAM

Passes == ~Ready /\ elapsed' = IF motor THEN elapsed + 1 ELSE 0

\* A tick in which the rotor stays where it is: at rest, slow, or stuck.
Stay ==
  /\ Passes
  /\ shaking' = IF shaking > 0 THEN shaking - 1 ELSE 0
  /\ stall' = IF motor THEN stall + 1 ELSE 0
  /\ UNCHANGED <<angle, motor, clicks, bus, machine, phase, holding, feeding,
                 flash_busy, feed_held, uploads, spent, owed, whole>>

\* A tick in which it moves: driven, coasting, or turned by hand.  Reaching a
\* detent closes the switch, and switch_task reports the edge.
Move ==
  /\ Passes
  /\ angle' = (angle + 1) % DetentSteps
  /\ IF angle' = 0
     THEN /\ clicks' = clicks + 1
          /\ shaking' = Chatter
          /\ owed' = IF Turning /\ whole THEN owed - 1 ELSE owed
          /\ whole' = motor
          /\ stall' = 0
     ELSE /\ shaking' = IF shaking > 0 THEN shaking - 1 ELSE 0
          /\ stall' = IF motor THEN stall + 1 ELSE 0
          /\ UNCHANGED <<clicks, owed, whole>>
  /\ UNCHANGED <<motor, bus, machine, phase, holding, feeding, flash_busy,
                 feed_held, uploads, spent>>

\* The contact, closed on a detent, bounces for longer than the debounce.
Bounce ==
  /\ shaking > 0 /\ OnDetent
  /\ shaking' = 0
  /\ clicks' = IF clicks < CLICKS_DEPTH THEN clicks + 1 ELSE clicks
  /\ UNCHANGED <<angle, motor, bus, machine, phase, elapsed, holding, feeding,
                 flash_busy, feed_held, uploads, spent, ghosts>>
-----------------------------------------------------------------------------
(***************************************************************************)
(* What the other tasks ask of the feeder.                                 *)
(***************************************************************************)
Spend(what, most) == spent[what] < most /\ spent' = [spent EXCEPT ![what] = @ + 1]

\* try_send to BUS.feed, from MQTT, the schedule and the admin page: a full
\* queue drops the request.
Request(portions) ==
  /\ Spend("requests", MaxRequests)
  /\ feed' = IF Len(feed) < FEED_DEPTH THEN Append(feed, portions) ELSE feed
  /\ UNCHANGED <<mechanism, motor, clicks, calibrate, calibration, machine, phase,
                 elapsed, holding, feeding, flash_busy, feed_held, uploads, ghosts>>

AskCalibrate ==
  /\ Spend("runs", MaxRuns)
  /\ calibrate' = TRUE
  /\ UNCHANGED <<mechanism, motor, clicks, feed, calibration, machine, phase,
                 elapsed, holding, feeding, flash_busy, feed_held, uploads, ghosts>>

SaveCalibration(c) ==
  /\ c # calibration
  /\ calibration' = c
  /\ UNCHANGED <<mechanism, motor, clicks, feed, calibrate, machine, phase, elapsed,
                 holding, feeding, flash_busy, feed_held, uploads, spent, ghosts>>

\* web::upload checks and claims with no await between; SECTORS admits one, and
\* another once that one's connection goes to restart.
Claim ==
  /\ Spend("uploads", MaxUploads)
  /\ upload = "None" /\ ~feeding
  /\ upload' = "Writing" /\ flash_busy' = TRUE
  /\ UNCHANGED <<mechanism, motor, clicks, bus, machine, phase, elapsed, holding,
                 feeding, feed_held, restarting, ghosts>>

\* The write ends: the new image is selected, or the upload failed.
EndWrite ==
  /\ upload = "Writing"
  /\ upload' \in {"Draining", "None"}
  /\ flash_busy' = FALSE
  /\ UNCHANGED <<mechanism, motor, clicks, bus, machine, phase, elapsed, holding,
                 feeding, feed_held, restarting, spent, ghosts>>

\* web::idle.  The variants overlook what is held, and wait for a jam to clear.
idleUnheld   == ~feeding /\ feed = <<>>
idleUnjammed == ~feeding /\ feed = <<>> /\ ~feed_held /\ ~jammed
idle == ~feeding /\ feed = <<>> /\ ~feed_held

Drained ==
  /\ upload = "Draining" /\ idle
  /\ upload' = "None" /\ restarting' = TRUE
  /\ UNCHANGED <<mechanism, motor, clicks, bus, machine, phase, elapsed, holding,
                 feeding, flash_busy, feed_held, spent, ghosts>>

\* All but flash and the mechanism start over.
Reset ==
  /\ upload' = "None" /\ restarting' = FALSE
  /\ motor' = FALSE /\ clicks' = 0 /\ feed' = <<>> /\ calibrate' = FALSE
  /\ applied' = calibration
  /\ phase' = "Idle" /\ pending' = 0 /\ elapsed' = 0 /\ jammed' = FALSE /\ run' = 0
  /\ holding' = FALSE /\ feeding' = FALSE /\ flash_busy' = FALSE /\ feed_held' = FALSE
  /\ owed' = 0 /\ whole' = FALSE /\ stall' = 0
  /\ UNCHANGED <<mechanism, calibration>>

Restart  == restarting /\ Reset /\ UNCHANGED spent
PowerCut == Spend("cuts", MaxCuts) /\ Reset

Next ==
  \/ FeederTask
  \/ Stay \/ Move \/ Bounce
  \/ \E p \in Requests : Request(p)
  \/ AskCalibrate
  \/ \E c \in Calibrations : SaveCalibration(c)
  \/ Claim \/ EndWrite \/ Drained \/ Restart \/ PowerCut

\* The executor polls whatever is ready, time passes, and every step of an
\* upload ends: its socket has a timeout.
Fairness ==
  /\ WF_vars(FeederTask) /\ WF_vars(Stay \/ Move)
  /\ WF_vars(EndWrite) /\ WF_vars(Drained) /\ WF_vars(Restart)

Spec     == Init /\ [][Next]_vars
FairSpec == Spec /\ Fairness
-----------------------------------------------------------------------------
\* The type of every variable.
TypeOK ==
  /\ angle \in 0 .. DetentSteps - 1 /\ shaking \in 0 .. Chatter
  /\ clicks \in Nat /\ feed \in Seq(Requests)
  /\ calibration \in Calibrations /\ applied \in Calibrations
  /\ calibrate \in BOOLEAN /\ jammed \in BOOLEAN /\ holding \in BOOLEAN
  /\ motor \in BOOLEAN /\ feeding \in BOOLEAN
  /\ flash_busy \in BOOLEAN /\ feed_held \in BOOLEAN
  /\ phase \in {"Idle", "Aligning", "Counting", "Calibrating"}
  /\ pending \in 0 .. MAX_CLICKS
  /\ elapsed \in Nat /\ run \in 0 .. DETENTS
  /\ upload \in {"None", "Writing", "Draining"} /\ restarting \in BOOLEAN
  /\ spent \in [Bounded -> Nat]
  /\ owed \in Int /\ whole \in BOOLEAN /\ stall \in Nat

\* The bowl gets what was asked: once every edge has been taken, the clicks
\* still owed are the clicks accepted less the detents the motor has turned,
\* bounce, alignment, jams, hand turns and requests mid-turn included.
FoodMatchesClicks == clicks = 0 => owed = pending

\* A mechanism that is stuck stops within the jam budget of the last detent it
\* reached, however the contact bounces and however many requests arrive.
JamBounded == Turning => stall <= Jam

\* Nothing turns while an upload writes the flash, whichever asked first.
NoTurnDuringWrite == flash_busy => ~motor

\* web::idle says a restart loses no feed, and at that moment none is owed.
IdleOwesNothing == idle => pending = 0 /\ owed = 0

\* A calibration run and a meal never share the motor.
RunIsNotAMeal == phase = "Calibrating" => pending = 0

\* Portions held over by a write are turned, or are dropped with the power, or by
\* the restart of an upload before it.
HeldIsTurned == feed_held ~> (motor \/ restarting \/ spent["cuts"] > 0)

\* Whatever was asked for ends: the last click or the jam stops the motor.
EveryTurnEnds == motor ~> ~motor

\* A good upload restarts into the new firmware, whatever is asked meanwhile.
UploadRestarts == (upload = "Draining" \/ restarting) ~> (upload = "None" /\ ~restarting)
-----------------------------------------------------------------------------
(***************************************************************************)
(* What the source says and the code does not do.                          *)
(***************************************************************************)

\* web::idle: "Nothing turning, queued or held: a restart now loses no feed."
RestartLosesNoFeed ==
  [][(restarting /\ ~restarting' /\ spent' = spent) => (pending = 0 /\ feed = <<>>)]_vars
=============================================================================
