-------------------------- MODULE MCControllerCycle --------------------------
(* Instances of ControllerCycle.                                             *)
EXTENDS ControllerCycle
=============================================================================
