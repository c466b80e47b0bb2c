---------------------------------- MODULE Rtc ----------------------------------
(***************************************************************************)
(* The DS3231 and the task that keeps it set: src/src/ds3231.rs, rtc.rs    *)
(* and rtc_task of src/src/bin/main.rs.                                    *)
(*                                                                         *)
(* A time is its wall reading less the true instant: the right one is the  *)
(* offset the zone is in now.  Any transfer on the bus may fail, and one   *)
(* that fails, or that the power cuts short, may have moved some bytes.    *)
(***************************************************************************)
EXTENDS Integers, FiniteSets

CONSTANTS
  Walls,             \* the times a clock may show
  Zones,             \* the offsets the zone goes through
  None,              \* no offset, no time
  TOLERANCE_S,
  MaxFaults, MaxUpsets   \* bounds: failing transfers; drifts, cuts, seasons and hand-set times

ASSUME RtcAssumption ==
  /\ Walls \subseteq Int /\ Zones \subseteq Walls /\ Zones # {} /\ None \notin Int
  /\ TOLERANCE_S \in Nat /\ MaxFaults \in Nat /\ MaxUpsets \in Nat

VARIABLES
  zone,              \* the offset in force where the unit is
  chip,              \* the registers: what a Reading decodes
  rtc_time,          \* BUS.rtc_time: the newest time somebody vouches for
  doing, target,     \* where rtc_task is, and the time it is setting
  whole,             \* the time in the chip was written to its end and has run since
  torn,              \* a write failed half way over a time whose flag was clear
  faults, upsets

rtc_vars == <<zone, chip, rtc_time, doing, target, whole, torn, faults, upsets>>

Offsets == Zones \cup {None}
Times == [w : Walls, offset : Offsets]
Chips == [w : Walls, date : BOOLEAN, offset : Offsets, stopped : BOOLEAN,
          stops_on_battery : BOOLEAN]

trustworthy(c) == ~c.stopped /\ c.date

Apart(a, b) == IF a > b THEN a - b ELSE b - a

\* Mutant: the same reading in the wrong frame is left alone.
needs_setAnyFrame(c, now) == ~trustworthy(c) \/ Apart(now.w, c.w) > TOLERANCE_S

needs_set(c, now) ==
  \/ ~trustworthy(c)
  \/ Apart(now.w, c.w) > TOLERANCE_S
  \/ now.offset # None /\ now.offset # c.offset

\* A module that comes with anything in it, its cell in or not.
RtcInit ==
  /\ zone \in Zones /\ chip \in {c \in Chips : c.stopped \/ c.w = zone}
  /\ rtc_time = None /\ doing = "boot" /\ target = [w |-> zone, offset |-> None]
  /\ whole = ~chip.stopped /\ torn = FALSE /\ faults = 0 /\ upsets = 0
-----------------------------------------------------------------------------
\* What it finds, if it is to be trusted, is a time of the schedule's clock from here on.
BootRead ==
  /\ doing = "boot" /\ doing' = "wait"
  /\ UNCHANGED <<zone, chip, rtc_time, target, whole, torn, faults, upsets>>

\* Nothing answered: running without one until the next boot.
BootReadFails ==
  /\ doing = "boot" /\ doing' = "gone" /\ faults < MaxFaults /\ faults' = faults + 1
  /\ UNCHANGED <<zone, chip, rtc_time, target, whole, torn, upsets>>

\* The clock is aligned to what was signalled and runs on from there.
Wakes ==
  /\ doing = "wait" /\ rtc_time # None
  /\ target' = rtc_time /\ rtc_time' = None /\ doing' = "read"
  /\ UNCHANGED <<zone, chip, whole, torn, faults, upsets>>

Reads ==
  /\ doing = "read" /\ doing' = IF needs_set(chip, target) THEN "time" ELSE "wait"
  /\ UNCHANGED <<zone, chip, rtc_time, target, whole, torn, faults, upsets>>

SetTime ==
  /\ doing = "time" /\ doing' = "offset"
  /\ chip' = [chip EXCEPT !.w = target.w, !.date = TRUE]
  /\ whole' = TRUE /\ torn' = FALSE
  /\ UNCHANGED <<zone, rtc_time, target, faults, upsets>>

SetOffset ==
  /\ doing = "offset" /\ doing' = "flags"
  /\ chip' = [chip EXCEPT !.offset = target.offset]
  /\ UNCHANGED <<zone, rtc_time, target, whole, torn, faults, upsets>>

SetFlags ==
  /\ doing = "flags" /\ doing' = "wait"
  /\ chip' = [chip EXCEPT !.stopped = FALSE, !.stops_on_battery = FALSE]
  /\ UNCHANGED <<zone, rtc_time, target, whole, torn, faults, upsets>>

\* What a transfer that does not come to its end leaves: registers of two times, an
\* offset whose complement does not match, a control byte without the status byte.
Half(step) ==
  \/ step = "time" /\ \E w \in Walls, d \in BOOLEAN : chip' = [chip EXCEPT !.w = w, !.date = d]
  \/ step = "offset" /\ \E o \in {chip.offset, None, target.offset} :
                          chip' = [chip EXCEPT !.offset = o]
  \/ step = "flags" /\ \/ chip' = chip
                       \/ \E stopped \in {chip.stopped, FALSE} :
                            chip' = [chip EXCEPT !.stops_on_battery = FALSE, !.stopped = stopped]
  \/ step \notin {"time", "offset", "flags"} /\ chip' = chip

CutShort(step) ==
  /\ Half(step)
  /\ IF step = "time" /\ (chip'.w # chip.w \/ chip'.date # chip.date)
       THEN whole' = FALSE /\ torn' = (torn \/ ~chip.stopped)
       ELSE UNCHANGED <<whole, torn>>

\* Mutant: the offset and the flags are written whatever became of the time.
TransferFailsGoesOn ==
  /\ doing \in {"read", "time", "offset", "flags"} /\ faults < MaxFaults /\ faults' = faults + 1
  /\ CutShort(doing) /\ doing' = IF doing = "time" THEN "offset" ELSE "wait"
  /\ UNCHANGED <<zone, rtc_time, target, upsets>>

\* The next time that is signalled tries again, and nothing before it does.
TransferFails ==
  /\ doing \in {"read", "time", "offset", "flags"} /\ faults < MaxFaults /\ faults' = faults + 1
  /\ CutShort(doing) /\ doing' = "wait"
  /\ UNCHANGED <<zone, rtc_time, target, upsets>>
-----------------------------------------------------------------------------
On == doing # "off"

\* on_time, once a minute: the zone's own time and its offset.
HearLive ==
  /\ On /\ rtc_time' = [w |-> zone, offset |-> zone]
  /\ UNCHANGED <<zone, chip, doing, target, whole, torn, faults, upsets>>

Upset == upsets < MaxUpsets /\ upsets' = upsets + 1

\* A time set by hand, and the same one once follow_zone gave it its offset.
SetByHand ==
  /\ Upset /\ On
  /\ \E w \in Walls, offset \in {None, zone} : rtc_time' = [w |-> w, offset |-> offset]
  /\ UNCHANGED <<zone, chip, doing, target, whole, torn, faults>>

SeasonTurns ==
  /\ Upset /\ zone' \in Zones
  /\ UNCHANGED <<chip, rtc_time, doing, target, whole, torn, faults>>

Drifts ==
  /\ Upset /\ \E w \in Walls : Apart(w, chip.w) = 1 /\ chip' = [chip EXCEPT !.w = w]
  /\ UNCHANGED <<zone, rtc_time, doing, target, whole, torn, faults>>

PowerGoes ==
  /\ Upset /\ On /\ doing' = "off" /\ rtc_time' = None
  /\ CutShort(doing)
  /\ UNCHANGED <<zone, target, faults>>

\* On the coin cell: the oscillator that is told to stop there does.
StopsOnBattery ==
  /\ ~On /\ chip.stops_on_battery /\ ~chip.stopped
  /\ chip' = [chip EXCEPT !.stopped = TRUE] /\ whole' = FALSE
  /\ UNCHANGED <<zone, rtc_time, doing, target, torn, faults, upsets>>

\* A flat cell, or none: the registers come up as from the factory.
CellDies ==
  /\ Upset /\ ~On /\ \E w \in Walls :
       chip' = [w |-> w, date |-> TRUE, offset |-> None, stopped |-> TRUE,
                stops_on_battery |-> FALSE]
  /\ whole' = FALSE
  /\ UNCHANGED <<zone, rtc_time, doing, target, torn, faults>>

PowerComes ==
  /\ ~On /\ doing' = "boot"
  /\ UNCHANGED <<zone, chip, rtc_time, target, whole, torn, faults, upsets>>
-----------------------------------------------------------------------------
RtcTask == BootRead \/ Wakes \/ Reads \/ SetTime \/ SetOffset \/ SetFlags

RtcNext ==
  \/ RtcTask \/ BootReadFails \/ TransferFails
  \/ HearLive \/ SetByHand \/ SeasonTurns \/ Drifts
  \/ PowerGoes \/ StopsOnBattery \/ CellDies \/ PowerComes

RtcSpec == RtcInit /\ [][RtcNext]_rtc_vars

\* The executor runs the task, Home Assistant goes on publishing the time, and somebody
\* plugs the unit in again.
RtcFairness == WF_rtc_vars(RtcTask) /\ WF_rtc_vars(HearLive) /\ WF_rtc_vars(PowerComes)
-----------------------------------------------------------------------------
RtcTypeOK ==
  /\ zone \in Zones /\ chip \in Chips /\ rtc_time \in Times \cup {None}
  /\ doing \in {"off", "boot", "gone", "wait", "read", "time", "offset", "flags"}
  /\ target \in Times
  /\ whole \in BOOLEAN /\ torn \in BOOLEAN /\ faults \in Nat /\ upsets \in Nat

\* rtc.rs:43: clearing OSF is the claim that the time is good, so it must not land before
\* the time does.  A chip that reads as set holds a time that was written to its end
\* and ran ever since; but for one that was already trusted when a write failed half way.
LaundersNothing == trustworthy(chip) => whole \/ torn

\* Whatever failed, drifted or was set wrong: once that stops, the chip ends up with the
\* time the house has and its offset, so that the next boot comes back in the right frame.
\* A boot at which the chip did not answer leaves it alone.
SetInTheEnd ==
  <>[](\/ doing = "gone"
       \/ /\ trustworthy(chip) /\ Apart(chip.w, zone) <= TOLERANCE_S
          /\ chip.offset = zone)
=============================================================================
