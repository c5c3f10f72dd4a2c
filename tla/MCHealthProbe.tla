---------------------------- MODULE MCHealthProbe ----------------------------
(* Instances of HealthProbe for TLC. *)
EXTENDS HealthProbe
=============================================================================
