-------------------------------- MODULE MCSetup --------------------------------
(***************************************************************************)
(* A small instance of Setup for TLC: two networks and three connections.  *)
(***************************************************************************)
EXTENDS Setup
=============================================================================
