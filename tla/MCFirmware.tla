------------------------------ MODULE MCFirmware ------------------------------
(***************************************************************************)
(* Small instances of Firmware for TLC: every constant has its value in a  *)
(* configuration.                                                          *)
(***************************************************************************)
EXTENDS Firmware
=============================================================================
