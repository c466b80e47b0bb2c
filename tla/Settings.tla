------------------------------- MODULE Settings -------------------------------
(***************************************************************************)
(* What the settings of a unit promise, whoever changes them: a setting in *)
(* force is one a restart brings back, and after a factory reset a restart *)
(* brings back nothing.  Store implements this (Store!SettingsKept).       *)
(***************************************************************************)
EXTENDS FlashRecords

VARIABLES
  now,           \* the settings in force
  stored,        \* what flash holds
  lapsed,        \* the sectors a write failed on since they were last written
  wiped          \* a factory reset was done and the restart is to come
vars == <<now, stored, lapsed, wiped>>

Init ==
  /\ stored \in Flash /\ now = Loaded(stored)
  /\ lapsed = {} /\ wiped = FALSE

\* A setting is changed: what is in force and what is stored together.
Change(s, value) ==
  /\ ~wiped
  /\ stored' = [stored EXCEPT ![s] = value]
  /\ now' = [now EXCEPT ![s] = value]
  /\ lapsed' = lapsed \ {s} /\ UNCHANGED wiped

Calibrate(c) ==
  /\ ~wiped /\ stored.record # None
  /\ stored' = [stored EXCEPT !.record.calibration = c]
  /\ now' = [now EXCEPT !.calibration = c]
  /\ lapsed' = lapsed \ {"record"} /\ UNCHANGED wiped

\* The unit is given a network, or made to forget it; its calibration stays.
Rejoin(n) ==
  /\ ~wiped
  /\ stored' = [stored EXCEPT !.record = [network |-> n, calibration |-> now.calibration]]
  /\ lapsed' = lapsed \ {"record"}
  /\ UNCHANGED <<now, wiped>>

\* Flash refuses a write.  A schedule is followed all the same.
Lapse(S) ==
  /\ ~wiped
  /\ stored' \in {stored, Blanked(stored, S)}
  /\ lapsed' = lapsed \cup S
  /\ \/ UNCHANGED now
     \/ "schedule" \in S /\ \E s \in Schedules : now' = [now EXCEPT !.schedule = s]
  /\ UNCHANGED wiped

Wipe ==
  /\ stored' = Blanked(stored, Sectors) /\ wiped' = TRUE
  /\ UNCHANGED <<now, lapsed>>

Restart ==
  /\ now' = Loaded(stored) /\ lapsed' = {} /\ wiped' = FALSE
  /\ UNCHANGED stored

Next ==
  \/ \E s \in Schedules : Change("schedule", s)
  \/ \E z \in Zones : Change("zone", z)
  \/ \E p \in BOOLEAN : Change("pause", p)
  \/ \E c \in Calibrations : Calibrate(c)
  \/ \E n \in Networks \cup {Blank} : Rejoin(n)
  \/ \E S \in SUBSET Sectors : Lapse(S)
  \/ Wipe
  \/ Restart

Spec == Init /\ [][Next]_vars
=============================================================================
