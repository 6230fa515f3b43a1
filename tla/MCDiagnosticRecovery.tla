------------------------ MODULE MCDiagnosticRecovery ------------------------
(* Instances of DiagnosticRecovery.  The providers are those of the          *)
(* capability registry: 1 is github-connector, 2 repository-actions and 3    *)
(* repository-native.                                                        *)
EXTENDS DiagnosticRecovery

\* The first plan has a bound capability, the second has none.
BoundAndUnbound == [a \in Actions |-> IF a = 1 THEN {1, 2, 3} ELSE {}]

\* What skills/capability-registry.json lists for GITHUB_WORKFLOW_DISPATCH.
WorkflowDispatch == [a \in Actions |-> {1, 2}]

\* The kernel of "samuel execute", and that with one more provider.
ShippedKernel == {{3}}
ShippedAndLarger == {{3}, {2, 3}}
=============================================================================
