--------------------------- MODULE MCGovernedWrite ---------------------------
(* Small instances of GovernedWrite for TLC: the documents of the runs.       *)
EXTENDS GovernedWrite

CONSTANTS a, b

MCTextOf == <<a, b>>
=============================================================================
