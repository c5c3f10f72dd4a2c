-------------------------- MODULE MCHostDeployment --------------------------
(* Instances of HostDeployment for TLC. *)
EXTENDS HostDeployment
=============================================================================
