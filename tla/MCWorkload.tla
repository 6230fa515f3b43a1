----------------------------- MODULE MCWorkload -----------------------------
(* Small instances of Workload for TLC: an issue with two criteria and one    *)
(* with a single one; everything else is in the .cfg files.                   *)
EXTENDS Workload

CONSTANTS i1, i2, c1, c2, c3

MCIssues == {i1, i2}
MCCriteria == {c1, c2, c3}
MCCriteriaOf == [i \in MCIssues |-> IF i = i1 THEN <<c1, c2>> ELSE <<c3>>]
=============================================================================
