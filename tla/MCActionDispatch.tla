------------------------ MODULE MCActionDispatch ------------------------
(* Instances of ActionDispatch for TLC.                                  *)
EXTENDS ActionDispatch
CONSTANTS a1, a2
AllActions == {a1, a2}
OneAction == {a1}
NoFaults == {}
NoFailures == {}
KernelFailures == {"kernel", "policy"}
AllFailures == FailureKind
LostAnswers == {"lostReceipt", "lostArtifact"}
TransientFaults == {"lostReceipt", "lostArtifact", "sameSecond"}

\* One of the two actions is complete by a run of its own and the other is not
\* planned yet: where a second action starts, with either executor.
AfterCompleted(b) ==
  /\ status = [a \in Actions |-> IF a = b THEN "complete" ELSE "absent"]
  /\ intent = [a \in Actions |->
                 IF a = b THEN [head |-> 1, since |-> 0, aged |-> FALSE]
                 ELSE NoIntent]
  /\ receipt = [a \in Actions |->
                  IF a = b THEN [run |-> 1, recovered |-> FALSE] ELSE NoReceipt]
  /\ completion = [a \in Actions |-> IF a = b THEN 1 ELSE 0]
  /\ failure = [a \in Actions |-> "none"]
  /\ recovery = [a \in Actions |-> "none"]
  /\ retired = [a \in Actions |-> {}]
  /\ runs = [r \in RunId |->
               IF r = 1 THEN [action |-> b, head |-> 1, live |-> FALSE,
                              listed |-> TRUE, tie |-> FALSE, outcome |-> "pass"]
               ELSE NoRun]
  /\ lastRun = 1
  /\ effect = [a \in Actions |-> a = b]
  /\ head = 1 /\ boot = Idle /\ bootHead = 1 /\ crashes = 0 /\ resumes = 0

SecondActionSpec ==
  /\ \E b \in Actions : AfterCompleted(b)
  /\ [][Next]_vars
  /\ Fairness
=========================================================================
