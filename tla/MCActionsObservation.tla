------------------------ MODULE MCActionsObservation ------------------------
(* Instances of ActionsObservation for TLC.                                *)
EXTENDS ActionsObservation
AllModes == RunMode
PrefixMode == {"prefix"}
=============================================================================
