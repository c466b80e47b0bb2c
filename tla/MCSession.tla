------------------------------- MODULE MCSession -------------------------------
(***************************************************************************)
(* A small instance of Session for TLC: two schedules, a broker that       *)
(* replays a time and a command somebody retained, and live commands.      *)
(***************************************************************************)
EXTENDS Session

CONSTANTS s1, s2

Retained(topic, body) == [topic |-> topic, retained |-> TRUE, body |-> body]
Live(topic, body) == [topic |-> topic, retained |-> FALSE, body |-> body]

OneBoot == {[held |-> s1, paused |-> FALSE]}
Stale == {[schedule |-> s2, paused |-> TRUE]}
TheirReplays == {<<Retained("time", "time"), Retained("schedule", s2)>>}
TheirMessages == {Live("feed", "portions"), Live("paused", "ON"), Live("meal", s2)}
=============================================================================
