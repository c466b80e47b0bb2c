----------------------------- MODULE FlashRecords -----------------------------
(***************************************************************************)
(* What flash holds: the four records of src/src/store.rs, each in a       *)
(* sector of its own, and what a boot makes of them.  The contents of a    *)
(* record are the network and the calibration, which share it.             *)
(***************************************************************************)
EXTENDS Naturals, Sequences

CONSTANTS
  Networks, Calibrations, DefaultCalibration, Zones,
  Minutes, Portions,     \* times of day a slot may be at, and portion counts
  MaxSlots,              \* MAX_SLOTS, the most slots of a schedule
  Blank,                 \* the network of a record that was made to forget it
  None                   \* a sector holding nothing that can be read

Slot == [minute : Minutes, portions : Portions]
Schedules == UNION {[1..n -> Slot] : n \in 0..MaxSlots}
Records == [network : Networks \cup {Blank}, calibration : Calibrations]

Sectors == {"record", "schedule", "zone", "pause"}
Flash == [record : Records \cup {None}, schedule : Schedules \cup {None},
          zone : Zones \cup {None}, pause : BOOLEAN \cup {None}]
Blanked(f, S) == [s \in Sectors |-> IF s \in S THEN None ELSE f[s]]

ASSUME SectorsAssumption ==
  /\ DefaultCalibration \in Calibrations
  /\ Blank \notin Networks
  /\ None \notin Records /\ None \notin Schedules
  /\ None \notin Zones /\ None \notin BOOLEAN
  /\ 0 \in Minutes /\ 0 \in Portions /\ MaxSlots \in Nat

\* With no record the calibration is the default; with no pause the schedule runs.
CalibrationOf(record) == IF record = None THEN DefaultCalibration ELSE record.calibration
load_paused(f) == IF f.pause = None THEN FALSE ELSE f.pause
Loaded(f) == [calibration |-> CalibrationOf(f.record), schedule |-> f.schedule,
              zone |-> f.zone, pause |-> load_paused(f)]
=============================================================================
