-------------------------------- MODULE MCStore --------------------------------
(***************************************************************************)
(* A small instance of Store for TLC: one meal, times 0 and 8, no portions *)
(* or one, and commands that remove it, add it and fill it; to fill a meal *)
(* that is not there is refused.                                           *)
(***************************************************************************)
EXTENDS Store

MCCommands ==
  { [kind |-> "replace", meals |-> <<>>],
    [kind |-> "time", index |-> 1, minute |-> 8],
    [kind |-> "portions", index |-> 1, portions |-> 1] }
=============================================================================
