------------------------------- MODULE MCFeeder -------------------------------
(***************************************************************************)
(* Small instances of Feeder for TLC.                                      *)
(***************************************************************************)
EXTENDS Feeder

\* The mechanism measured right: its detent is DetentSteps ticks.
Measured == {[detent |-> DetentSteps, scale |-> 100]}
\* The same mechanism, with half as much again to a portion.
Rescaled == Measured \cup {[detent |-> DetentSteps, scale |-> 150]}
\* The right figure, and one saved for a slower mechanism than this one.
Slower   == Measured \cup {[detent |-> DetentSteps + 1, scale |-> 150]}
=============================================================================
