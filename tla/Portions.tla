------------------------------- MODULE Portions -------------------------------
(***************************************************************************)
(* Portions, clicks and the figures a detent fixes: src/src/portions.rs    *)
(* and Timings in src/src/feeder.rs.                                       *)
(***************************************************************************)
EXTENDS Integers

Least(a, b)    == IF a < b THEN a ELSE b
Greatest(a, b) == IF a > b THEN a ELSE b

U8 == 0 .. 255

\* clicks_for: to the nearest click, never none of a meal, never past a byte.
clicks_for(portions, scale_pct) ==
  IF portions = 0 THEN 0
  ELSE Least(Greatest((portions * scale_pct + 50) \div 100, 1), 255)

\* A variant without the cap, for the checks.
PendingUncapped(count, clicks, cap) == Least(count + clicks, 255)

\* Pending::add: u8 saturating, then capped.
PendingAdd(count, clicks, cap) == Least(Least(count + clicks, 255), cap)

\* Timings::from_detent: two fifths of a detent, two and a half of them, and
\* neither below its floor.
min_click_spacing(detent, floor) == Greatest((detent * 2) \div 5, floor)
jam_timeout(detent, floor)       == Greatest((detent * 5) \div 2, floor)
=============================================================================
