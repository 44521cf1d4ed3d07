-------------------------- MODULE MCHighAvailability --------------------------
(***************************************************************************)
(* Instances of HighAvailability for TLC: the constants are in the         *)
(* configurations.                                                         *)
(***************************************************************************)
EXTENDS HighAvailability
=============================================================================
