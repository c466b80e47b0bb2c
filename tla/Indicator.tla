------------------------------- MODULE Indicator -------------------------------
(***************************************************************************)
(* What the LED says, src/src/indicator.rs and src/src/health.rs: one      *)
(* status out of everything the unit knows about itself.  The rhythm and   *)
(* the colour of each are left out.                                        *)
(***************************************************************************)
EXTENDS Naturals

\* A status, when it is the one, from the first that is shown to the last.
Ladder(h) ==
  << <<"Resetting", h.reset_held>>, <<"Jammed", h.jammed>>, <<"Feeding", h.feeding>>,
     <<"Setup", h.setup>>, <<"NoLink", ~h.link>>, <<"NoBroker", ~h.broker>>,
     <<"NoTime", ~h.armed>>, <<"Paused", h.paused>>, <<"Healthy", TRUE>> >>

StatusOf(h) ==
  LET first == CHOOSE i \in 1..9 : Ladder(h)[i][2] /\ \A j \in 1..(i - 1) : ~Ladder(h)[j][2]
  IN  Ladder(h)[first][1]
=============================================================================
