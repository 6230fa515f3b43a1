---------------------------- MODULE MCWorkMatrix ----------------------------
(* Small instances of WorkMatrix for TLC: the manifests of two commits.       *)
EXTENDS WorkMatrix

CONSTANTS c1, c2, a, b, c, this, other

Good ==
  [identity |-> this, prepare |-> [identity |-> this, stages |-> <<"P0", "P1">>],
   bundle |-> <<<<"app", "opt">>, <<"app", "lib">>>>, parallel |-> 2,
   cases |-> <<a, b, c>>, aggregate |-> TRUE]

\* One case and nothing to aggregate; two cases, one after the other.
Single == [Good EXCEPT !.cases = <<b>>, !.parallel = 8, !.aggregate = FALSE]
Narrow == [Good EXCEPT !.cases = <<a, b>>, !.parallel = 1]

Refused ==
  { [Good EXCEPT !.cases = None],
    [Good EXCEPT !.cases = <<>>],
    [Good EXCEPT !.cases = <<a, a>>],
    [Good EXCEPT !.parallel = 0],
    [Good EXCEPT !.bundle = <<<<"app">>, <<"app", "lib">>>>],
    [Good EXCEPT !.identity = other],
    [Good EXCEPT !.prepare.identity = other],
    [Good EXCEPT !.prepare.stages = <<"P0", "P2">>] }

\* The other commit has the same manifest, another good one, or a refused one.
MCHistories ==
  { (c1 :> m @@ c2 :> n) : m \in {Good, Single, Narrow} \cup Refused, n \in {Good} }
  \cup { (c1 :> Good @@ c2 :> n) : n \in {Single} \cup Refused }

=============================================================================
