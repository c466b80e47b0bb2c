----------------------------- MODULE MCScheduler -----------------------------
(***************************************************************************)
(* Small instances of Scheduler for TLC.                                   *)
(***************************************************************************)
EXTENDS Scheduler

At(d, m) == [day |-> d, minute |-> m, second |-> 0]

\* One time only: hearing it again later moves the clock back.
OneTime == {At(0, 1)}
\* A time in the middle of the first day, and one at the start of the last.
TwoTimes == {At(0, 1), At(LastDay, 0)}

FewSchedules == {{2}, {0, 2}}
OneSchedule  == {{0, 2}}
ShortDay     == {{0, 1}}
=============================================================================
