------------------------- MODULE MCHealthScheduler -------------------------
(* Instances of HealthScheduler for TLC. *)
EXTENDS HealthScheduler
=============================================================================
