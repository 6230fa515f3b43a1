---------------------------- MODULE MCForeignCycle ----------------------------
(* Small instances of ForeignCycle for TLC; every value is in the .cfg files. *)
EXTENDS ForeignCycle
=============================================================================
