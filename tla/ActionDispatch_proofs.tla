----------------------- MODULE ActionDispatch_proofs -----------------------
(* Theorems about ActionDispatch, for every value of its constants.        *)
EXTENDS ActionDispatch, TLAPS

USE DEF Settled, Final

-----------------------------------------------------------------------------
(* Types.                                                                   *)

\* A step of a bootstrap run that keeps its command leaves a well-formed one.
LEMMA BootStep ==
  ASSUME NEW b \in Boot, NEW n \in 0..MaxRuns,
         NEW p \in {"receipt", "wait", "ingest"}
  PROVE  /\ [b EXCEPT !.pc = p] \in Boot
         /\ [b EXCEPT !.pc = p, !.run = n] \in Boot
         /\ [b EXCEPT !.pc = p, !.run = n, !.recovered = TRUE] \in Boot
  BY DEF Boot

\* A run that ends remains a well-formed run.
LEMMA RunEnds ==
  ASSUME NEW run \in Run, NEW outcome \in Outcome
  PROVE  [run EXCEPT !.live = FALSE, !.outcome = outcome] \in Run
  BY DEF Run

\* A worker ends with a result and an effect, and changes nothing else.
LEMMA WorkerEndForm ==
  ASSUME NEW r \in RunId, WorkerEnd(r)
  PROVE  \E outcome \in Outcome, done \in BOOLEAN :
           /\ runs' = [runs EXCEPT ![r].live = FALSE, ![r].outcome = outcome]
           /\ effect' = [effect EXCEPT ![runs[r].action] = done]
           /\ outcome \in {"pass", "noop"} => done
           /\ effect[runs[r].action] = TRUE => done
           /\ outcome # "none"
  BY DEF WorkerEnd, Outcome, FailureKind, Retryable

\* The comment, GitHub and the bootstrap run only ever hold well-formed
\* values: in particular a receipt, a completion and a retired attempt name
\* runs, and a bootstrap run's command names an action or none.
THEOREM TypeCorrect == Spec => []TypeOK
<1>. USE ConstantsAssumption
<1>1. Init => TypeOK
  BY DEF Init, TypeOK, Status, NoIntent, Intent, NoReceipt, Receipt, NoRun,
         Run, Outcome, Idle, Boot, RunId, Head, FailureKind, Retryable
<1>2. TypeOK /\ [Next]_vars => TypeOK'
  <2>. SUFFICES ASSUME TypeOK, [Next]_vars PROVE TypeOK'
    OBVIOUS
  <2>. USE DEF TypeOK, durable, github
  <2>1. ASSUME NEW a \in Actions, NEW h \in Head, PlanAction(a, h)
        PROVE  TypeOK'
    BY <2>1 DEF PlanAction, Wake, RecordIntent, Command, Status, Intent, Head,
                Boot
  <2>2. ASSUME NEW a \in Actions, NEW h \in Head, SelectPending(a, h)
        PROVE  TypeOK'
    BY <2>2 DEF SelectPending, Wake, RecordIntent, Command, Status, Intent,
                Head, Boot
  <2>3. ASSUME NEW a \in Actions, NEW h \in Head, RejectStaleIntent(a, h)
        PROVE  TypeOK'
    BY <2>3 DEF RejectStaleIntent, Wake, Status, Intent, NoIntent, Receipt,
                NoReceipt
  <2>4. ASSUME NEW a \in Actions, NEW h \in Head, SelectIntent(a, h)
        PROVE  TypeOK'
    BY <2>4 DEF SelectIntent, Wake, Command, Boot
  <2>5. ASSUME NEW a \in Actions, NEW h \in Head, SelectDispatched(a, h)
        PROVE  TypeOK'
    BY <2>5 DEF SelectDispatched, Wake, Command, Boot
  <2>6. ASSUME NEW a \in Actions, PostDispatch(a),
               UNCHANGED <<durable, bootHead, crashes, resumes>>
        PROVE  TypeOK'
    <3>1. lastRun + 1 \in RunId /\ lastRun' \in 0..MaxRuns
      BY <2>6 DEF PostDispatch, RunId
    <3>2. runs' \in [RunId -> Run]
      <4>1. PICK tie \in BOOLEAN :
              runs' = [runs EXCEPT ![lastRun + 1] =
                         [action |-> a, head |-> head, live |-> TRUE,
                          listed |-> FALSE, tie |-> tie, outcome |-> "none"]]
        BY <2>6 DEF PostDispatch
      <4>2. [action |-> a, head |-> head, live |-> TRUE, listed |-> FALSE,
             tie |-> tie, outcome |-> "none"] \in Run
        BY DEF Run, Head, Outcome
      <4>. QED
        BY <3>1, <4>1, <4>2
    <3>3. boot' \in Boot
      <4>1. CASE boot' = Idle
        BY <4>1 DEF Boot, Idle
      <4>2. CASE boot' = [boot EXCEPT !.pc = "receipt", !.run = lastRun + 1]
        <5>1. boot \in Boot /\ lastRun + 1 \in 0..MaxRuns
          BY <3>1 DEF RunId
        <5>. QED
          BY ONLY <4>2, <5>1, BootStep, Zenon
      <4>. QED
        BY <2>6, <4>1, <4>2 DEF PostDispatch
    <3>4. UNCHANGED <<effect, head>>
      BY <2>6 DEF PostDispatch
    <3>. QED
      BY <2>6, <3>1, <3>2, <3>3, <3>4
  <2>7. ASSUME NEW a \in Actions, GatewayRecoverReceipt(a) PROVE TypeOK'
    <3>1. PICK r \in Eligible(a) :
            boot' = [boot EXCEPT !.pc = "receipt", !.run = r,
                                 !.recovered = TRUE]
      BY <2>7 DEF GatewayRecoverReceipt
    <3>2. boot \in Boot /\ r \in 0..MaxRuns
      BY DEF Eligible, Candidates, RunsOf, RunId
    <3>3. boot' \in Boot
      BY ONLY <3>1, <3>2, BootStep, Zenon
    <3>. QED
      BY <2>7, <3>3 DEF GatewayRecoverReceipt
  <2>8. ASSUME NEW a \in Actions, GatewayLeaveIntent(a) PROVE TypeOK'
    BY <2>8 DEF GatewayLeaveIntent, Idle, Boot
  <2>9. ASSUME NEW a \in Actions, GatewayObserveTerminal(a) PROVE TypeOK'
    BY <2>9 DEF GatewayObserveTerminal, Receipt, Boot
  <2>10. ASSUME NEW a \in Actions, GatewayObserveNothing(a) PROVE TypeOK'
    BY <2>10 DEF GatewayObserveNothing, Idle, Boot
  <2>11. ASSUME NEW a \in Actions, PersistReceipt(a) PROVE TypeOK'
    BY <2>11 DEF PersistReceipt, Status, Receipt, Boot
  <2>12. CASE WaitWorker
    BY <2>12 DEF WaitWorker, Command, Boot
  <2>13. CASE WaitTimeout
    BY <2>13 DEF WaitTimeout, Idle, Boot
  <2>14. ASSUME NEW a \in Actions, RetireAttempt(a) PROVE TypeOK'
    BY <2>14 DEF RetireAttempt, Status, Intent, NoIntent, Receipt, NoReceipt,
                 Idle, Boot
  <2>15. ASSUME NEW a \in Actions, CannotRetireAttempt(a) PROVE TypeOK'
    BY <2>15 DEF CannotRetireAttempt, Idle, Boot
  <2>16. ASSUME NEW a \in Actions, SettleFromArtifact(a) PROVE TypeOK'
    BY <2>16 DEF SettleFromArtifact, Status, Idle, Boot
  <2>17. ASSUME NEW a \in Actions, FailFromArtifact(a) PROVE TypeOK'
    <3>. USE DEF Status, Intent, NoIntent, Receipt, NoReceipt
    <3>1. boot' \in Boot
      BY <2>17 DEF FailFromArtifact, Idle, Boot
    <3>2. failure' \in [Actions -> FailureKind \cup {"none"}]
      BY <2>17 DEF FailFromArtifact
    <3>3. CASE /\ status' = [status EXCEPT ![a] = "pending"]
               /\ intent' = [intent EXCEPT ![a] = NoIntent]
               /\ receipt' = [receipt EXCEPT ![a] = NoReceipt]
               /\ UNCHANGED recovery
      BY <2>17, <3>1, <3>2, <3>3 DEF FailFromArtifact
    <3>4. CASE /\ status' = [status EXCEPT ![a] = "suspended"]
               /\ recovery' = [recovery EXCEPT ![a] = "open"]
               /\ UNCHANGED <<intent, receipt>>
      BY <2>17, <3>1, <3>2, <3>4 DEF FailFromArtifact
    <3>5. CASE /\ status' = [status EXCEPT ![a] = "suspended"]
               /\ UNCHANGED <<intent, receipt, recovery>>
      BY <2>17, <3>1, <3>2, <3>5 DEF FailFromArtifact
    <3>. QED
      <4>. HIDE DEF TypeOK, durable, Status, Intent, NoIntent, Receipt,
                    NoReceipt
      <4>. QED
        BY <2>17, <3>3, <3>4, <3>5 DEF FailFromArtifact
  <2>18. ASSUME NEW a \in Actions, CorrectiveResolved(a) PROVE TypeOK'
    BY <2>18 DEF CorrectiveResolved, Status
  <2>19. CASE Crash
    BY <2>19 DEF Crash, Idle, Boot
  <2>20. ASSUME NEW r \in RunId, WorkerEnd(r) PROVE TypeOK'
    <3>1. PICK outcome \in Outcome, done \in BOOLEAN :
            /\ runs' = [runs EXCEPT ![r].live = FALSE, ![r].outcome = outcome]
            /\ effect' = [effect EXCEPT ![runs[r].action] = done]
      BY <2>20, WorkerEndForm
    <3>2. [runs[r] EXCEPT !.live = FALSE, !.outcome = outcome] \in Run
      BY RunEnds
    <3>3. runs' \in [RunId -> Run] /\ effect' \in [Actions -> BOOLEAN]
      BY <3>1, <3>2
    <3>. QED
      BY <2>20, <3>3 DEF WorkerEnd
  <2>21. ASSUME NEW r \in RunId, ListRun(r) PROVE TypeOK'
    BY <2>21 DEF ListRun, Run
  <2>22. ASSUME NEW a \in Actions, GraceExpires(a) PROVE TypeOK'
    BY <2>22 DEF GraceExpires, Intent
  <2>23. CASE HeadMoves
    BY <2>23 DEF HeadMoves, Head
  <2>24. CASE UNCHANGED vars
    BY <2>24 DEF vars
  <2>. QED
    BY <2>1, <2>2, <2>3, <2>4, <2>5, <2>6, <2>7, <2>8, <2>9, <2>10, <2>11,
       <2>12, <2>13, <2>14, <2>15, <2>16, <2>17, <2>18, <2>19, <2>20, <2>21,
       <2>22, <2>23, <2>24
    DEF Next, Cycle, Gateway, Persist, Ingest, Recover, GitHub,
        GatewayDispatch, GatewayRedispatch
<1>. QED
  BY <1>1, <1>2, PTL DEF Spec
-----------------------------------------------------------------------------
(* Ownership of results.                                                    *)

\* What the comment records of one action: nothing is newer than the newest
\* run; what earlier attempts left behind is older than the current intent;
\* the receipt and the completion are of a run made for the current intent.
Owned(a) ==
  /\ intent[a].since <= lastRun
  /\ receipt[a].run <= lastRun
  /\ \A r \in retired[a] : r <= lastRun
  /\ status[a] = "dispatch_intent" => receipt[a].run <= intent[a].since
  /\ status[a] \in {"dispatch_intent", "dispatched", "complete"} =>
       \A r \in retired[a] : r <= intent[a].since
  /\ status[a] = "dispatched" =>
       receipt[a].run \in RunsOf(a) /\ receipt[a].run > intent[a].since
  /\ status[a] = "complete" =>
       LET r == completion[a] IN
       /\ r \in RunsOf(a) /\ r \notin retired[a]
       /\ ~runs[r].live /\ runs[r].outcome \in {"pass", "noop"}
       /\ r > intent[a].since /\ ~Mismatch(a, r)
       /\ effect[a]

\* What a bootstrap run holds and has not recorded yet: a receipt is of a run
\* made for the current intent, a result is of a run that has ended.
BootOwned ==
  /\ boot.pc = "receipt" =>
       /\ boot.action \in Actions
       /\ status[boot.action] = "dispatch_intent"
       /\ boot.run \in RunsOf(boot.action)
       /\ boot.run > intent[boot.action].since
  /\ boot.pc = "ingest" =>
       boot.run \in RunId /\ boot.run <= lastRun /\ ~runs[boot.run].live

\* A run that reported success left the postcondition behind.
SuccessHasEffect ==
  \A r \in RunId :
    /\ r <= lastRun => runs[r].action \in Actions
    /\ r <= lastRun /\ runs[r].outcome \in {"pass", "noop"} =>
         effect[runs[r].action]

Ownership == (\A a \in Actions : Owned(a)) /\ BootOwned /\ SuccessHasEffect

\* The steps that change what GitHub holds: a dispatch, the end or the
\* listing of a run, and a corrective run.
LEMMA GitHubSteps ==
  ASSUME [Next]_vars
  PROVE  \/ UNCHANGED <<runs, lastRun, effect>>
         \/ \E a \in Actions : /\ PostDispatch(a)
                               /\ status[a] = "dispatch_intent"
                               /\ boot.pc = "command"
                               /\ UNCHANGED durable
         \/ \E r \in RunId : WorkerEnd(r) \/ ListRun(r)
         \/ \E a \in Actions : CorrectiveResolved(a)
<1>. DEFINE Goal ==
       \/ UNCHANGED <<runs, lastRun, effect>>
       \/ \E a \in Actions : /\ PostDispatch(a)
                             /\ status[a] = "dispatch_intent"
                             /\ boot.pc = "command"
                             /\ UNCHANGED durable
       \/ \E r \in RunId : WorkerEnd(r) \/ ListRun(r)
       \/ \E a \in Actions : CorrectiveResolved(a)
<1>1. ASSUME NEW a \in Actions, NEW h \in Head,
             \/ PlanAction(a, h) \/ SelectPending(a, h)
             \/ RejectStaleIntent(a, h) \/ SelectIntent(a, h)
             \/ SelectDispatched(a, h)
      PROVE  Goal
  BY <1>1 DEF PlanAction, SelectPending, RejectStaleIntent, SelectIntent,
              SelectDispatched, github
<1>2. ASSUME NEW a \in Actions, GatewayDispatch(a) \/ GatewayRedispatch(a)
      PROVE  Goal
  BY <1>2 DEF GatewayDispatch, GatewayRedispatch, Reconciling, durable
<1>3. ASSUME NEW a \in Actions,
             \/ GatewayRecoverReceipt(a) \/ GatewayLeaveIntent(a)
             \/ GatewayObserveTerminal(a) \/ GatewayObserveNothing(a)
      PROVE  Goal
  BY <1>3 DEF GatewayRecoverReceipt, GatewayLeaveIntent,
              GatewayObserveTerminal, GatewayObserveNothing, github
<1>4. ASSUME NEW a \in Actions,
             \/ PersistReceipt(a) \/ RetireAttempt(a)
             \/ CannotRetireAttempt(a) \/ SettleFromArtifact(a)
             \/ FailFromArtifact(a) \/ GraceExpires(a)
      PROVE  Goal
  BY <1>4 DEF PersistReceipt, RetireAttempt, CannotRetireAttempt,
              SettleFromArtifact, FailFromArtifact, GraceExpires, github
<1>5. ASSUME \/ WaitWorker \/ WaitTimeout \/ Crash \/ HeadMoves
             \/ UNCHANGED vars
      PROVE  Goal
  BY <1>5 DEF WaitWorker, WaitTimeout, Crash, HeadMoves, vars, github
<1>6. ASSUME NEW a \in Actions, CorrectiveResolved(a) PROVE Goal
  BY <1>6
<1>7. ASSUME NEW r \in RunId, WorkerEnd(r) \/ ListRun(r) PROVE Goal
  BY <1>7
<1>. HIDE DEF Goal
<1>8. Goal
  BY <1>1, <1>2, <1>3, <1>4, <1>5, <1>6, <1>7
  DEF Next, Cycle, Gateway, Persist, Ingest, Recover, GitHub
<1>. QED
  BY <1>8 DEF Goal

\* GitHub never forgets: a run keeps its action and commit, a run that ended
\* keeps its result, and no step undoes the effect of a plan.
LEMMA HistoryGrows ==
  ASSUME TypeOK, [Next]_vars
  PROVE  /\ lastRun <= lastRun'
         /\ \A r \in RunId : r <= lastRun =>
              /\ runs'[r].action = runs[r].action
              /\ runs'[r].head = runs[r].head
              /\ ~runs[r].live => runs'[r].live = runs[r].live
              /\ ~runs[r].live => runs'[r].outcome = runs[r].outcome
         /\ \A a \in Actions : effect[a] => effect'[a]
<1>. DEFINE Grows ==
       /\ lastRun <= lastRun'
       /\ \A r \in RunId : r <= lastRun =>
            /\ runs'[r].action = runs[r].action
            /\ runs'[r].head = runs[r].head
            /\ ~runs[r].live => runs'[r].live = runs[r].live
            /\ ~runs[r].live => runs'[r].outcome = runs[r].outcome
       /\ \A a \in Actions : effect[a] => effect'[a]
<1>. USE ConstantsAssumption
<1>0. lastRun \in Int /\ RunId \subseteq Int
  BY DEF TypeOK, RunId
<1>1. ASSUME UNCHANGED <<runs, lastRun, effect>> PROVE Grows
  BY <1>0, <1>1
<1>2. ASSUME NEW a \in Actions, PostDispatch(a) PROVE Grows
  <2>1. PICK new \in Run : runs' = [runs EXCEPT ![lastRun + 1] = new]
    <3>1. PICK tie \in BOOLEAN :
            runs' = [runs EXCEPT ![lastRun + 1] =
                       [action |-> a, head |-> head, live |-> TRUE,
                        listed |-> FALSE, tie |-> tie, outcome |-> "none"]]
      BY <1>2 DEF PostDispatch
    <3>2. [action |-> a, head |-> head, live |-> TRUE, listed |-> FALSE,
           tie |-> tie, outcome |-> "none"] \in Run
      BY DEF Run, Head, Outcome, TypeOK
    <3>. QED
      BY <3>1, <3>2
  <2>2. lastRun' = lastRun + 1 /\ effect' = effect
    BY <1>2 DEF PostDispatch
  <2>. QED
    BY <1>0, <2>1, <2>2 DEF TypeOK
<1>3. ASSUME NEW r \in RunId, WorkerEnd(r) PROVE Grows
  <2>1. PICK outcome \in Outcome, done \in BOOLEAN :
          /\ runs' = [runs EXCEPT ![r].live = FALSE, ![r].outcome = outcome]
          /\ effect' = [effect EXCEPT ![runs[r].action] = done]
          /\ effect[runs[r].action] = TRUE => done
    BY <1>3, WorkerEndForm
  <2>2. runs[r].live /\ UNCHANGED lastRun
    BY <1>3 DEF WorkerEnd
  <2>3. \A s \in RunId : /\ runs'[s].action = runs[s].action
                         /\ runs'[s].head = runs[s].head
                         /\ s # r => runs'[s] = runs[s]
    BY <2>1 DEF TypeOK, Run
  <2>4. \A a \in Actions : effect[a] => effect'[a]
    BY <2>1 DEF TypeOK
  <2>5. \A s \in RunId : ~runs[s].live =>
          runs'[s].live = runs[s].live /\ runs'[s].outcome = runs[s].outcome
    BY <2>2, <2>3, Zenon
  <2>6. lastRun <= lastRun'
    BY <1>0, <2>2
  <2>. QED
    BY <2>3, <2>4, <2>5, <2>6, Zenon
<1>4. ASSUME NEW r \in RunId, ListRun(r) PROVE Grows
  <2>1. \A s \in RunId : /\ runs'[s].action = runs[s].action
                         /\ runs'[s].head = runs[s].head
                         /\ runs'[s].live = runs[s].live
                         /\ runs'[s].outcome = runs[s].outcome
    BY <1>4 DEF ListRun, TypeOK, Run
  <2>. QED
    BY <1>0, <1>4, <2>1 DEF ListRun
<1>5. ASSUME NEW a \in Actions, CorrectiveResolved(a) PROVE Grows
  BY <1>0, <1>5 DEF CorrectiveResolved, TypeOK
<1>. QED
  BY <1>1, <1>2, <1>3, <1>4, <1>5, GitHubSteps

\* The runs of a plan only grow, and keep what Ownership says of them.
LEMMA RunsKept ==
  ASSUME TypeOK, TypeOK', [Next]_vars, NEW a \in Actions
  PROVE  RunsOf(a) \subseteq RunsOf(a)'
<1>1. lastRun \in Int /\ lastRun' \in Int /\ RunId \subseteq Int
  BY ConstantsAssumption DEF TypeOK, RunId
<1>2. ASSUME NEW r \in RunId, r <= lastRun, runs[r].action = a
      PROVE  r <= lastRun' /\ runs'[r].action = a
  BY <1>1, <1>2, HistoryGrows
<1>. QED
  BY <1>2 DEF RunsOf

\* A dispatch adds one run, the newest one, to the plan it is for.
LEMMA DispatchForm ==
  ASSUME TypeOK, NEW a \in Actions, PostDispatch(a)
  PROVE  /\ lastRun' = lastRun + 1 /\ lastRun' \in RunId
         /\ effect' = effect /\ head' = head
         /\ \A r \in RunId \ {lastRun'} : runs'[r] = runs[r]
         /\ runs'[lastRun'].action = a /\ runs'[lastRun'].head = head
         /\ runs'[lastRun'].live = TRUE /\ runs'[lastRun'].listed = FALSE
         /\ runs'[lastRun'].outcome = "none"
         /\ RunsOf(a)' = RunsOf(a) \cup {lastRun'}
         /\ \A b \in Actions \ {a} : RunsOf(b)' = RunsOf(b)
<1>. USE ConstantsAssumption DEF TypeOK
<1>1. lastRun' = lastRun + 1 /\ lastRun' \in RunId
  BY DEF PostDispatch, RunId
<1>2. PICK tie \in BOOLEAN :
        runs' = [runs EXCEPT ![lastRun + 1] =
                   [action |-> a, head |-> head, live |-> TRUE,
                    listed |-> FALSE, tie |-> tie, outcome |-> "none"]]
  BY DEF PostDispatch
<1>3. /\ \A r \in RunId \ {lastRun'} : runs'[r] = runs[r]
      /\ runs'[lastRun'].action = a /\ runs'[lastRun'].head = head
      /\ runs'[lastRun'].live = TRUE /\ runs'[lastRun'].listed = FALSE
      /\ runs'[lastRun'].outcome = "none"
  BY <1>1, <1>2
<1>4. \A r \in RunId : r <= lastRun' <=> r <= lastRun \/ r = lastRun'
  BY <1>1 DEF RunId
<1>5. \A r \in RunId \ {lastRun'} : runs'[r].action = runs[r].action
  BY <1>3
<1>6. ~(lastRun' <= lastRun)
  BY <1>1
<1>7. \A b \in Actions : \A r \in RunId :
        r \in RunsOf(b)' <=> \/ r \in RunsOf(b)
                             \/ r = lastRun' /\ b = a
  BY <1>1, <1>3, <1>4, <1>5, <1>6 DEF RunsOf
<1>8. \A b \in Actions : RunsOf(b) \subseteq RunId /\ RunsOf(b)' \subseteq RunId
  BY DEF RunsOf
<1>9. RunsOf(a)' = RunsOf(a) \cup {lastRun'}
  BY <1>1, <1>7, <1>8
<1>10. ASSUME NEW b \in Actions, b # a PROVE RunsOf(b)' = RunsOf(b)
  <2>1. \A r \in RunId : r \in RunsOf(b)' <=> r \in RunsOf(b)
    BY <1>7, <1>10
  <2>2. RunsOf(b) \subseteq RunId /\ RunsOf(b)' \subseteq RunId
    BY <1>8
  <2>. QED
    BY <2>1, <2>2
<1>11. effect' = effect /\ head' = head
  BY DEF PostDispatch
<1>. QED
  BY <1>1, <1>3, <1>9, <1>10, <1>11

\* Owned says the same of an action whose entry in the comment is unchanged.
LEMMA OwnedKept ==
  ASSUME TypeOK, TypeOK', [Next]_vars, NEW a \in Actions, Owned(a),
         status'[a] = status[a], receipt'[a] = receipt[a],
         completion'[a] = completion[a], retired'[a] = retired[a],
         intent'[a].since = intent[a].since, intent'[a].head = intent[a].head
  PROVE  Owned(a)'
<1>1. RunId \subseteq Int /\ lastRun \in Int /\ lastRun' \in Int
  BY ConstantsAssumption DEF TypeOK, RunId
<1>2. /\ intent[a].since \in Int /\ receipt[a].run \in Int
      /\ retired[a] \subseteq Int
  BY ConstantsAssumption DEF TypeOK, Intent, Receipt
<1>3. lastRun <= lastRun'
  BY HistoryGrows
<1>4. /\ intent'[a].since <= lastRun' /\ receipt'[a].run <= lastRun'
      /\ \A r \in retired'[a] : r <= lastRun'
  BY <1>1, <1>2, <1>3 DEF Owned
<1>5. ASSUME status[a] = "complete"
      PROVE  LET r == completion[a] IN
             /\ r \in RunsOf(a)' /\ r \notin retired[a]
             /\ ~runs'[r].live /\ runs'[r].outcome \in {"pass", "noop"}
             /\ r > intent[a].since /\ ~Mismatch(a, r)'
             /\ effect'[a]
  <2>2. LET r == completion[a] IN
        /\ r \in RunsOf(a) /\ r \notin retired[a]
        /\ ~runs[r].live /\ runs[r].outcome \in {"pass", "noop"}
        /\ r > intent[a].since /\ ~Mismatch(a, r)
        /\ effect[a]
    BY <1>5 DEF Owned
  <2>3. completion[a] \in RunId /\ completion[a] <= lastRun
    BY <2>2 DEF RunsOf
  <2>. QED
    BY <2>2, <2>3, RunsKept, HistoryGrows DEF Mismatch
<1>6. RunsOf(a) \subseteq RunsOf(a)'
  BY RunsKept
<1>. QED
  BY <1>4, <1>5, <1>6 DEF Owned

\* Every step keeps the effect of the runs that reported success.
LEMMA SuccessKept ==
  ASSUME TypeOK, TypeOK', SuccessHasEffect, [Next]_vars
  PROVE  SuccessHasEffect'
<1>1. RunId \subseteq Int /\ lastRun \in Int /\ lastRun' \in Int
  BY ConstantsAssumption DEF TypeOK, RunId
<1>2. CASE UNCHANGED <<runs, lastRun, effect>>
  BY <1>2 DEF SuccessHasEffect
<1>3. ASSUME NEW a \in Actions, PostDispatch(a) PROVE SuccessHasEffect'
  <2>1. SUFFICES ASSUME NEW r \in RunId, r <= lastRun'
                 PROVE  /\ runs'[r].action \in Actions
                        /\ runs'[r].outcome \in {"pass", "noop"} =>
                             effect'[runs'[r].action]
    BY DEF SuccessHasEffect
  <2>2. CASE r = lastRun'
    BY <1>3, <2>2, DispatchForm
  <2>3. CASE r # lastRun'
    <3>1. runs'[r] = runs[r] /\ effect' = effect /\ lastRun' = lastRun + 1
      BY <1>3, <2>3, DispatchForm
    <3>2. r <= lastRun
      BY <1>1, <2>1, <2>3, <3>1
    <3>. QED
      BY <3>1, <3>2 DEF SuccessHasEffect
  <2>. QED
    BY <2>2, <2>3
<1>4. ASSUME NEW r \in RunId, WorkerEnd(r) PROVE SuccessHasEffect'
  <2>1. PICK outcome \in Outcome, done \in BOOLEAN :
          /\ runs' = [runs EXCEPT ![r].live = FALSE, ![r].outcome = outcome]
          /\ effect' = [effect EXCEPT ![runs[r].action] = done]
          /\ outcome \in {"pass", "noop"} => done
          /\ effect[runs[r].action] = TRUE => done
    BY <1>4, WorkerEndForm
  <2>2. UNCHANGED lastRun /\ r <= lastRun
    BY <1>4 DEF WorkerEnd
  <2>3. ASSUME NEW s \in RunId, s <= lastRun, s # r
        PROVE  /\ runs'[s].action \in Actions
               /\ runs'[s].outcome \in {"pass", "noop"} =>
                    effect'[runs'[s].action]
    <3>1. runs'[s] = runs[s]
      BY <2>1, <2>3 DEF TypeOK
    <3>2. /\ runs[s].action \in Actions
          /\ runs[s].outcome \in {"pass", "noop"} => effect[runs[s].action]
      BY <2>3 DEF SuccessHasEffect
    <3>. QED
      BY <3>1, <3>2, HistoryGrows
  <2>4. /\ runs'[r].action \in Actions
        /\ runs'[r].outcome \in {"pass", "noop"} => effect'[runs'[r].action]
    <3>1. runs'[r].action = runs[r].action /\ runs'[r].outcome = outcome
      BY <2>1 DEF TypeOK, Run
    <3>2. runs[r].action \in Actions
      BY <2>2 DEF SuccessHasEffect
    <3>3. effect'[runs[r].action] = done
      BY <2>1, <3>2 DEF TypeOK
    <3>. QED
      BY <2>1, <3>1, <3>2, <3>3
  <2>. QED
    BY <2>2, <2>3, <2>4 DEF SuccessHasEffect
<1>5. ASSUME NEW r \in RunId, ListRun(r) PROVE SuccessHasEffect'
  <2>1. \A s \in RunId : /\ runs'[s].action = runs[s].action
                         /\ runs'[s].outcome = runs[s].outcome
    BY <1>5 DEF ListRun, TypeOK, Run
  <2>2. UNCHANGED <<lastRun, effect>>
    BY <1>5 DEF ListRun
  <2>. QED
    BY <2>1, <2>2 DEF SuccessHasEffect
<1>6. ASSUME NEW a \in Actions, CorrectiveResolved(a) PROVE SuccessHasEffect'
  <2>1. UNCHANGED <<runs, lastRun>>
    BY <1>6 DEF CorrectiveResolved
  <2>. QED
    BY <2>1, HistoryGrows DEF SuccessHasEffect
<1>. QED
  BY <1>2, <1>3, <1>4, <1>5, <1>6, GitHubSteps

\* A step that leaves the comment alone, and the bootstrap run too or without
\* a receipt or a result to record, preserves Ownership.
LEMMA OwnershipQuiet ==
  ASSUME TypeOK, TypeOK', Ownership, [Next]_vars, UNCHANGED durable,
         boot' = boot \/ boot'.pc \notin {"receipt", "ingest"}
  PROVE  Ownership'
<1>1. RunId \subseteq Int /\ lastRun \in Int /\ lastRun' \in Int
  BY ConstantsAssumption DEF TypeOK, RunId
<1>2. \A a \in Actions : Owned(a)'
  BY OwnedKept DEF Ownership, durable
<1>3. BootOwned'
  <2>1. CASE boot' = boot /\ boot.pc = "receipt"
    BY <2>1, RunsKept DEF Ownership, BootOwned, durable
  <2>2. CASE boot' = boot /\ boot.pc = "ingest"
    <3>1. boot.run \in RunId /\ boot.run <= lastRun /\ ~runs[boot.run].live
      BY <2>2 DEF Ownership, BootOwned
    <3>2. runs'[boot.run].live = runs[boot.run].live
      BY <3>1, HistoryGrows
    <3>3. boot.run <= lastRun'
      <4>1. lastRun <= lastRun'
        BY HistoryGrows
      <4>2. boot.run \in Int /\ boot.run <= lastRun
        BY <1>1, <3>1
      <4>. QED
        BY ONLY <1>1, <4>1, <4>2
    <3>4. boot'.run \in RunId /\ boot'.run <= lastRun' /\ ~runs'[boot'.run].live
      BY <2>2, <3>1, <3>2, <3>3, Zenon
    <3>. QED
      BY <2>2, <3>4 DEF BootOwned
  <2>3. CASE boot'.pc \notin {"receipt", "ingest"}
    BY <2>3 DEF BootOwned
  <2>. QED
    BY <2>1, <2>2, <2>3
<1>. QED
  BY <1>2, <1>3, SuccessKept DEF Ownership

\* Ownership is inductive.
LEMMA OwnershipStep ==
  ASSUME TypeOK, TypeOK', Ownership, [Next]_vars
  PROVE  Ownership'
<1>1. RunId \subseteq Int /\ lastRun \in Int /\ lastRun' \in Int
  BY ConstantsAssumption DEF TypeOK, RunId
<1>2. \A a \in Actions :
        /\ intent[a].since \in Int /\ receipt[a].run \in Int
        /\ retired[a] \subseteq Int
        /\ RunsOf(a) \subseteq RunId /\ \A r \in RunsOf(a) : r <= lastRun
        /\ Owned(a)
  BY ConstantsAssumption DEF TypeOK, Intent, Receipt, RunsOf, Ownership
<1>3. BootOwned /\ SuccessHasEffect'
  BY SuccessKept DEF Ownership
<1>4. ASSUME NEW a \in Actions, Owned(a)', boot'.pc \notin {"receipt", "ingest"},
             \A b \in Actions \ {a} :
               /\ status'[b] = status[b] /\ receipt'[b] = receipt[b]
               /\ completion'[b] = completion[b] /\ retired'[b] = retired[b]
               /\ intent'[b] = intent[b]
      PROVE  Ownership'
  <2>1. \A b \in Actions : Owned(b)'
    BY <1>2, <1>4, OwnedKept
  <2>. QED
    BY <1>3, <1>4, <2>1 DEF Ownership, BootOwned
<1>5. ASSUME UNCHANGED durable,
             boot' = boot \/ boot'.pc \notin {"receipt", "ingest"}
      PROVE  Ownership'
  BY <1>5, OwnershipQuiet
<1>6. ASSUME NEW a \in Actions, NEW h \in Head, RecordIntent(a, h),
             UNCHANGED <<receipt, completion, retired, github>>,
             status[a] \in {"absent", "pending"}
      PROVE  Ownership'
  <2>. USE DEF TypeOK, RecordIntent, Command, github
  <2>1. Owned(a)'
    BY <1>1, <1>2, <1>6 DEF Owned
  <2>. QED
    BY <1>4, <1>6, <2>1
<1>7. ASSUME NEW a \in Actions, NEW h \in Head, RejectStaleIntent(a, h)
      PROVE  Ownership'
  <2>. USE DEF TypeOK, RejectStaleIntent, Wake, NoIntent, NoReceipt, github
  <2>1. Owned(a)'
    BY <1>1, <1>2, <1>7, ConstantsAssumption DEF Owned
  <2>. QED
    BY <1>4, <1>7, <2>1
<1>8. ASSUME NEW a \in Actions, PostDispatch(a), status[a] = "dispatch_intent",
             boot.action = a, UNCHANGED durable
      PROVE  Ownership'
  <2>1. CASE boot' = Idle
    BY <1>5, <1>8, <2>1 DEF Idle
  <2>2. CASE boot' = [boot EXCEPT !.pc = "receipt", !.run = lastRun + 1]
    <3>1. boot'.pc = "receipt" /\ boot'.action = a /\ boot'.run = lastRun'
      BY <1>8, <2>2, DispatchForm DEF TypeOK, Boot
    <3>2. lastRun' > intent[a].since /\ lastRun' \in RunsOf(a)'
      <4>1. lastRun' = lastRun + 1 /\ lastRun' \in RunsOf(a)'
        BY <1>8, DispatchForm
      <4>2. intent[a].since \in Int /\ intent[a].since <= lastRun
        BY <1>2 DEF Owned
      <4>. QED
        BY <1>1, <4>1, <4>2
    <3>3. \A b \in Actions : Owned(b)'
      BY <1>2, <1>8, OwnedKept DEF durable
    <3>4. BootOwned'
      BY <1>8, <3>1, <3>2 DEF BootOwned, durable
    <3>. QED
      BY <1>3, <3>3, <3>4 DEF Ownership
  <2>. QED
    BY <1>8, <2>1, <2>2 DEF PostDispatch
<1>9. ASSUME NEW a \in Actions, GatewayRecoverReceipt(a) PROVE Ownership'
  <2>1. PICK r \in Eligible(a) :
          boot' = [boot EXCEPT !.pc = "receipt", !.run = r, !.recovered = TRUE]
    BY <1>9 DEF GatewayRecoverReceipt
  <2>2. r \in RunsOf(a) /\ r > intent[a].since
    BY DEF Eligible, Candidates
  <2>3. /\ boot.action = a /\ status[a] = "dispatch_intent"
        /\ UNCHANGED <<durable, github>>
    BY <1>9 DEF GatewayRecoverReceipt, Reconciling
  <2>4. boot'.pc = "receipt" /\ boot'.action = a /\ boot'.run = r
    BY <2>1, <2>3 DEF TypeOK, Boot
  <2>5. \A b \in Actions : Owned(b)'
    BY <1>2, <2>3, OwnedKept DEF durable
  <2>6. RunsOf(a)' = RunsOf(a)
    BY <2>3 DEF RunsOf, github
  <2>7. BootOwned'
    BY <2>2, <2>3, <2>4, <2>6 DEF BootOwned, durable
  <2>. QED
    BY <1>3, <2>5, <2>7 DEF Ownership
<1>10. ASSUME NEW a \in Actions, GatewayObserveTerminal(a) PROVE Ownership'
  <2>1. /\ boot'.pc = "ingest" /\ boot'.run = receipt[a].run
        /\ ~runs[receipt[a].run].live /\ status[a] = "dispatched"
        /\ UNCHANGED <<durable, github>>
    BY <1>10 DEF GatewayObserveTerminal, ObservedTerminal, Observing, TypeOK,
                 Boot
  <2>2. receipt[a].run \in RunId /\ receipt[a].run <= lastRun
    BY <1>2, <2>1 DEF Owned
  <2>3. \A b \in Actions : Owned(b)'
    BY <1>2, <2>1, OwnedKept DEF durable
  <2>4. BootOwned'
    BY <2>1, <2>2 DEF BootOwned, github
  <2>. QED
    BY <1>3, <2>3, <2>4 DEF Ownership
<1>11. ASSUME NEW a \in Actions, PersistReceipt(a) PROVE Ownership'
  <2>. USE DEF TypeOK, PersistReceipt, github
  <2>1. boot.run \in RunsOf(a) /\ boot.run > intent[a].since
    BY <1>3, <1>11 DEF BootOwned
  <2>2. /\ receipt'[a].run = boot.run /\ status'[a] = "dispatched"
        /\ UNCHANGED <<intent, completion, retired, github>>
    BY <1>11
  <2>3. Owned(a)'
    BY <1>1, <1>2, <1>11, <2>1, <2>2 DEF Owned, RunsOf
  <2>. QED
    BY <1>4, <1>11, <2>3 DEF Boot
<1>12. ASSUME NEW a \in Actions, Ingesting(a), boot' = Idle, UNCHANGED github,
              \/ /\ status' = [status EXCEPT ![a] = "pending"]
                 /\ intent' = [intent EXCEPT ![a] = NoIntent]
                 /\ receipt' = [receipt EXCEPT ![a] = NoReceipt]
              \/ /\ status' = [status EXCEPT ![a] = "suspended"]
                 /\ UNCHANGED <<intent, receipt>>,
              \/ UNCHANGED retired
              \/ retired' = [retired EXCEPT ![a] = @ \cup {boot.run}],
              UNCHANGED completion
       PROVE  Ownership'
  <2>. USE DEF TypeOK, Idle, NoIntent, NoReceipt, github
  <2>1. boot.run \in Int /\ boot.run <= lastRun
    BY <1>1, <1>3, <1>12 DEF Ingesting, BootOwned
  <2>2. \A r \in retired'[a] : r <= lastRun
    BY <1>2, <1>12, <2>1 DEF Owned
  <2>3. /\ intent'[a].since <= lastRun /\ receipt'[a].run <= lastRun
        /\ status'[a] \in {"pending", "suspended"}
    BY <1>1, <1>2, <1>12, ConstantsAssumption DEF Owned
  <2>4. Owned(a)'
    BY <1>12, <2>2, <2>3 DEF Owned
  <2>. QED
    BY <1>4, <1>12, <2>4
<1>13. ASSUME NEW a \in Actions, SettleFromArtifact(a) PROVE Ownership'
  <2>. USE DEF TypeOK, Ingesting, github
  <2>1. /\ status[a] = "dispatched" /\ receipt[a].run = boot.run
        /\ boot.run \in RunsOf(a) /\ boot.run > intent[a].since
        /\ \A r \in retired[a] : r <= intent[a].since
        /\ ~runs[boot.run].live
    BY <1>2, <1>3, <1>13 DEF SettleFromArtifact, Owned, BootOwned
  <2>2. boot.run \notin retired[a]
    BY <1>1, <1>2, <2>1
  <2>3. /\ completion'[a] = boot.run /\ boot' = Idle
        /\ UNCHANGED <<intent, receipt, retired, github>>
        /\ \A b \in Actions \ {a} : /\ status'[b] = status[b]
                                    /\ completion'[b] = completion[b]
    BY <1>13 DEF SettleFromArtifact
  <2>4. RunsOf(a)' = RunsOf(a)
    BY <2>3 DEF RunsOf
  <2>5. CASE /\ Result(a) \in {"pass", "noop"}
             /\ status' = [status EXCEPT ![a] = "complete"]
    <3>1. runs[boot.run].outcome \in {"pass", "noop"} /\ ~Mismatch(a, boot.run)
      BY <1>13, <2>1, <2>5 DEF SettleFromArtifact, Unusable, Result
    <3>2. effect[a]
      BY <1>1, <1>2, <2>1, <3>1 DEF Ownership, SuccessHasEffect, RunsOf
    <3>. HIDE DEF TypeOK, Ingesting
    <3>3. /\ boot.run \in RunsOf(a)' /\ boot.run \notin retired'[a]
          /\ boot.run > intent'[a].since /\ effect'[a]
      BY <2>1, <2>2, <2>3, <2>4, <3>2
    <3>4. /\ ~runs'[boot.run].live /\ runs'[boot.run].head = intent'[a].head
          /\ runs'[boot.run].outcome \in {"pass", "noop"}
      <4>1. runs' = runs /\ intent' = intent
        BY <2>3
      <4>2. ~runs'[boot.run].live
        BY <2>1, <4>1, Zenon
      <4>. QED
        BY <3>1, <4>1, <4>2 DEF Mismatch
    <3>5. /\ status'[a] = "complete" /\ completion'[a] = boot.run
          /\ intent' = intent /\ receipt' = receipt /\ retired' = retired
          /\ lastRun' = lastRun
      BY <2>3, <2>5 DEF TypeOK
    <3>6. Owned(a)
      BY <1>2
    <3>7. Owned(a)'
      <4>1. /\ intent'[a].since <= lastRun' /\ receipt'[a].run <= lastRun'
            /\ \A r \in retired'[a] : r <= lastRun'
            /\ \A r \in retired'[a] : r <= intent'[a].since
        BY ONLY <2>1, <3>5, <3>6 DEF Owned
      <4>2. LET r == completion'[a] IN
            /\ r \in RunsOf(a)' /\ r \notin retired'[a]
            /\ ~runs'[r].live /\ runs'[r].outcome \in {"pass", "noop"}
            /\ r > intent'[a].since /\ runs'[r].head = intent'[a].head
            /\ effect'[a]
        BY ONLY <3>3, <3>4, <3>5, Zenon
      <4>3. status'[a] # "dispatch_intent" /\ status'[a] # "dispatched"
        BY <3>5
      <4>. QED
        BY ONLY <3>5, <4>1, <4>2, <4>3, Zenon DEF Owned, Mismatch
    <3>. QED
      BY <1>4, <2>3, <3>7 DEF Idle
  <2>6. CASE status' = [status EXCEPT ![a] = "rejected"]
    <3>1. Owned(a)'
      BY <1>2, <2>3, <2>6 DEF Owned
    <3>. QED
      BY <1>4, <2>3, <3>1 DEF Idle
  <2>. QED
    BY <1>13, <2>5, <2>6 DEF SettleFromArtifact
<1>14. ASSUME NEW a \in Actions, CorrectiveResolved(a) PROVE Ownership'
  <2>1. /\ UNCHANGED <<intent, receipt, completion, retired, lastRun, boot>>
        /\ status' = [status EXCEPT ![a] = "pending"] /\ boot.pc = "idle"
    BY <1>14 DEF CorrectiveResolved
  <2>2. Owned(a)'
    BY <1>2, <2>1 DEF Owned, TypeOK
  <2>. QED
    BY <1>4, <2>1, <2>2 DEF TypeOK
<1>15. ASSUME NEW a \in Actions, GraceExpires(a) PROVE Ownership'
  <2>1. /\ UNCHANGED <<status, receipt, completion, retired, github, boot>>
        /\ \A b \in Actions : /\ intent'[b].since = intent[b].since
                              /\ intent'[b].head = intent[b].head
    BY <1>15 DEF GraceExpires, TypeOK, Intent
  <2>2. \A b \in Actions : Owned(b)'
    BY <1>2, <2>1, OwnedKept
  <2>3. BootOwned'
    BY <1>3, <2>1 DEF BootOwned, github, RunsOf
  <2>. QED
    BY <1>3, <2>2, <2>3 DEF Ownership
<1>16. ASSUME NEW a \in Actions, NEW h \in Head,
              \/ PlanAction(a, h) \/ SelectPending(a, h)
              \/ RejectStaleIntent(a, h) \/ SelectIntent(a, h)
              \/ SelectDispatched(a, h)
       PROVE  Ownership'
  <2>1. CASE PlanAction(a, h)
    BY <1>6, <2>1 DEF PlanAction
  <2>2. CASE SelectPending(a, h)
    BY <1>6, <2>2 DEF SelectPending
  <2>3. CASE SelectIntent(a, h) \/ SelectDispatched(a, h)
    BY <1>5, <2>3 DEF SelectIntent, SelectDispatched, Command
  <2>. QED
    BY <1>7, <1>16, <2>1, <2>2, <2>3
<1>17. ASSUME NEW a \in Actions,
              \/ GatewayDispatch(a) \/ GatewayRedispatch(a)
              \/ GatewayRecoverReceipt(a) \/ GatewayLeaveIntent(a)
              \/ GatewayObserveTerminal(a) \/ GatewayObserveNothing(a)
       PROVE  Ownership'
  <2>1. CASE GatewayDispatch(a) \/ GatewayRedispatch(a)
    BY <1>8, <2>1 DEF GatewayDispatch, GatewayRedispatch, Reconciling
  <2>2. CASE GatewayLeaveIntent(a) \/ GatewayObserveNothing(a)
    BY <1>5, <2>2 DEF GatewayLeaveIntent, GatewayObserveNothing, Idle
  <2>. QED
    BY <1>9, <1>10, <1>17, <2>1, <2>2
<1>18. ASSUME NEW a \in Actions,
              \/ RetireAttempt(a) \/ CannotRetireAttempt(a)
              \/ SettleFromArtifact(a) \/ FailFromArtifact(a)
       PROVE  Ownership'
  <2>1. CASE RetireAttempt(a)
    BY <1>12, <2>1 DEF RetireAttempt
  <2>2. CASE CannotRetireAttempt(a)
    BY <1>5, <2>2 DEF CannotRetireAttempt, Idle
  <2>3. CASE FailFromArtifact(a)
    BY <1>12, <2>3 DEF FailFromArtifact
  <2>. QED
    BY <1>13, <1>18, <2>1, <2>2, <2>3
<1>19. ASSUME \/ WaitWorker \/ WaitTimeout \/ Crash \/ HeadMoves
              \/ UNCHANGED vars
       PROVE  Ownership'
  BY <1>5, <1>19 DEF WaitWorker, WaitTimeout, Crash, HeadMoves, vars, Command,
                     Idle
<1>20. ASSUME NEW r \in RunId, WorkerEnd(r) \/ ListRun(r) PROVE Ownership'
  <2>1. UNCHANGED <<durable, boot>>
    BY <1>20 DEF WorkerEnd, ListRun
  <2>. QED
    BY <1>5, <2>1
<1>. QED
  BY <1>11, <1>14, <1>15, <1>16, <1>17, <1>18, <1>19, <1>20
  DEF Next, Cycle, Gateway, Persist, Ingest, Recover, GitHub

\* Runs are added to a plan only by a dispatch behind its durable intent.
LEMMA RunsOnlyDispatched ==
  ASSUME TypeOK, TypeOK', [Next]_vars, NEW a \in Actions,
         RunsOf(a)' # RunsOf(a)
  PROVE  status[a] = "dispatch_intent"
<1>1. CASE UNCHANGED <<runs, lastRun, effect>>
  BY <1>1 DEF RunsOf
<1>2. ASSUME NEW b \in Actions, PostDispatch(b), status[b] = "dispatch_intent"
      PROVE  status[a] = "dispatch_intent"
  BY <1>2, DispatchForm
<1>3. ASSUME NEW r \in RunId, WorkerEnd(r) \/ ListRun(r) PROVE FALSE
  <2>1. lastRun' = lastRun /\ \A s \in RunId : runs'[s].action = runs[s].action
    BY <1>3 DEF WorkerEnd, ListRun, TypeOK, Run
  <2>. QED
    BY <2>1 DEF RunsOf
<1>4. ASSUME NEW b \in Actions, CorrectiveResolved(b) PROVE FALSE
  BY <1>4 DEF CorrectiveResolved, RunsOf
<1>. QED
  BY <1>1, <1>2, <1>3, <1>4, GitHubSteps

\* No step changes the status of a complete or rejected action.
LEMMA FinalUntouched ==
  ASSUME TypeOK, [Next]_vars, NEW a \in Actions, status[a] \in Final
  PROVE  status'[a] = status[a]
<1>. DEFINE Same == status'[a] = status[a]
<1>1. ASSUME NEW b \in Actions, NEW h \in Head,
             \/ PlanAction(b, h) \/ SelectPending(b, h)
             \/ RejectStaleIntent(b, h) \/ SelectIntent(b, h)
             \/ SelectDispatched(b, h)
      PROVE  Same
  BY <1>1 DEF PlanAction, SelectPending, RejectStaleIntent, SelectIntent,
              SelectDispatched, RecordIntent, durable, TypeOK
<1>2. ASSUME NEW b \in Actions,
             \/ GatewayDispatch(b) \/ GatewayRedispatch(b)
             \/ GatewayRecoverReceipt(b) \/ GatewayLeaveIntent(b)
             \/ GatewayObserveTerminal(b) \/ GatewayObserveNothing(b)
             \/ CannotRetireAttempt(b) \/ GraceExpires(b)
      PROVE  Same
  BY <1>2 DEF GatewayDispatch, GatewayRedispatch, GatewayRecoverReceipt,
              GatewayLeaveIntent, GatewayObserveTerminal,
              GatewayObserveNothing, CannotRetireAttempt, GraceExpires,
              durable
<1>3. ASSUME NEW b \in Actions,
             \/ PersistReceipt(b) \/ RetireAttempt(b)
             \/ SettleFromArtifact(b) \/ FailFromArtifact(b)
             \/ CorrectiveResolved(b)
      PROVE  Same
  <2>1. b # a
    BY <1>3 DEF PersistReceipt, RetireAttempt, SettleFromArtifact,
                FailFromArtifact, CorrectiveResolved, Ingesting
  <2>2. PICK s \in Status : status' = [status EXCEPT ![b] = s]
    BY <1>3 DEF PersistReceipt, RetireAttempt, SettleFromArtifact,
                FailFromArtifact, CorrectiveResolved, Status
  <2>. QED
    BY <2>1, <2>2 DEF TypeOK
<1>4. ASSUME \/ WaitWorker \/ WaitTimeout \/ Crash \/ HeadMoves
             \/ UNCHANGED vars
      PROVE  Same
  BY <1>4 DEF WaitWorker, WaitTimeout, Crash, HeadMoves, vars, durable
<1>5. ASSUME NEW r \in RunId, WorkerEnd(r) \/ ListRun(r) PROVE Same
  BY <1>5 DEF WorkerEnd, ListRun, durable
<1>. HIDE DEF Same
<1>6. Same
  BY <1>1, <1>2, <1>3, <1>4, <1>5
  DEF Next, Cycle, Gateway, Persist, Ingest, Recover, GitHub
<1>. QED
  BY <1>6 DEF Same

\* An action is complete only because of a run of its own, made for its
\* current intent on its commit, that reported PASS or NOOP, and whose effect
\* is there: whatever crashes, retries, lost receipts and late listings do.
THEOREM CompletionIsOwned == Spec => []CompletionOwned
<1>1. Init => Ownership
  BY ConstantsAssumption
  DEF Init, Ownership, Owned, BootOwned, SuccessHasEffect, NoIntent, NoReceipt,
      Idle, RunId
<1>2. TypeOK /\ TypeOK' /\ Ownership /\ [Next]_vars => Ownership'
  BY OwnershipStep
<1>3. Ownership => CompletionOwned
  BY DEF Ownership, Owned, CompletionOwned
<1>. QED
  BY <1>1, <1>2, <1>3, TypeCorrect, PTL DEF Spec

\* Complete and rejected actions stay so, and no run is ever made for them.
THEOREM FinalIsFinal == Spec => FinalStaysFinal
<1>1. ASSUME TypeOK, TypeOK', [Next]_vars, NEW a \in Actions, status[a] \in Final
      PROVE  status'[a] = status[a] /\ RunsOf(a)' = RunsOf(a)
  <2>1. RunsOf(a)' = RunsOf(a)
    BY <1>1, RunsOnlyDispatched
  <2>. QED
    BY <1>1, <2>1, FinalUntouched
<1>2. TypeOK /\ TypeOK' /\ [Next]_vars =>
        [\A a \in Actions : status[a] \in Final =>
           status'[a] = status[a] /\ RunsOf(a)' = RunsOf(a)]_vars
  BY <1>1
<1>. QED
  BY <1>2, TypeCorrect, PTL DEF Spec, FinalStaysFinal

\* Every dispatch stands behind a durable intent newer than each attempt
\* whose result was used.
THEOREM DispatchStandsBehindIntent == Spec => DispatchBehindIntent
<1>1. ASSUME TypeOK, TypeOK', Ownership, [Next]_vars, NEW a \in Actions,
             RunsOf(a)' # RunsOf(a)
      PROVE  /\ status[a] = "dispatch_intent"
             /\ \A r \in RunsOf(a) : r = receipt[a].run \/ r \in retired[a]
                                       => r <= intent[a].since
  BY <1>1, RunsOnlyDispatched DEF Ownership, Owned
<1>2. TypeOK /\ TypeOK' /\ Ownership /\ [Next]_vars =>
        [\A a \in Actions : RunsOf(a)' # RunsOf(a) =>
           /\ status[a] = "dispatch_intent"
           /\ \A r \in RunsOf(a) : r = receipt[a].run \/ r \in retired[a]
                                     => r <= intent[a].since]_vars
  BY <1>1
<1>3. Init => Ownership
  BY ConstantsAssumption
  DEF Init, Ownership, Owned, BootOwned, SuccessHasEffect, NoIntent, NoReceipt,
      Idle, RunId
<1>4. TypeOK /\ TypeOK' /\ Ownership /\ [Next]_vars => Ownership'
  BY OwnershipStep
<1>. QED
  BY <1>2, <1>3, <1>4, TypeCorrect, PTL DEF Spec, DispatchBehindIntent

-----------------------------------------------------------------------------
(* One worker at a time.                                                    *)

\* The runs of a that were made for its current intent.
Fresh(a) == {r \in RunsOf(a) : r > intent[a].since}

\* An action in flight has one run of its own at most.  A worker that is still
\* executing a plan is known to its entry: it was made for the current intent,
\* or the plan has been rejected.  No run for an intent is on an older commit.
Attempts(a) ==
  /\ status[a] \in {"dispatch_intent", "dispatched"} =>
       \A r, s \in Fresh(a) : r = s
  /\ status[a] = "dispatch_intent" =>
       /\ intent[a].head <= head
       /\ \A r \in Fresh(a) : intent[a].head <= runs[r].head
  /\ \A r \in RunsOf(a) : runs[r].live =>
       /\ status[a] \in {"dispatch_intent", "dispatched", "rejected"}
       /\ status[a] # "rejected" => r \in Fresh(a)
  /\ \A r, s \in RunsOf(a) : runs[r].live /\ runs[s].live => r = s

\* A bootstrap run that is about to dispatch for a new intent is the first to do
\* so, and one that is about to reconcile an intent finds every run made for it:
\* they are on the commit it looks for, and listed if the grace is over.
Informed ==
  boot.pc = "command" =>
    /\ boot.kind = "dispatch" =>
         boot.action \in Actions /\ Fresh(boot.action) = {}
    /\ boot.kind = "reconcile" =>
         \A r \in Fresh(boot.action) :
           /\ runs[r].head = intent[boot.action].head
           /\ intent[boot.action].aged => runs[r].listed

RunsPast ==
  \A r \in RunId : runs[r].head <= head /\ (r > lastRun => ~runs[r].live)

OneWorker == (\A a \in Actions : Attempts(a)) /\ Informed /\ RunsPast

Numbers ==
  /\ RunId \subseteq Int /\ lastRun \in Int /\ lastRun' \in Int
  /\ head \in Int /\ head' \in Int
  /\ \A a \in Actions : intent[a].since \in Int /\ intent[a].head \in Int
  /\ \A r \in RunId : runs[r].head \in Int /\ runs'[r].head \in Int

LEMMA NumbersHold == ASSUME TypeOK, TypeOK' PROVE Numbers
  BY ConstantsAssumption DEF TypeOK, Numbers, RunId, Head, Intent, Run

\* Steps that make no run for an action whose entry they leave alone.
LEMMA AttemptsKept ==
  ASSUME TypeOK, TypeOK', NEW a \in Actions, Attempts(a),
         status'[a] = status[a], intent'[a].since = intent[a].since,
         intent'[a].head = intent[a].head, head <= head',
         RunsOf(a)' = RunsOf(a),
         \A r \in RunsOf(a) : /\ runs'[r].head = runs[r].head
                              /\ runs'[r].live => runs[r].live
  PROVE  Attempts(a)'
<1>1. Numbers
  BY NumbersHold
<1>2. Fresh(a)' = Fresh(a)
  BY DEF Fresh
<1>3. status'[a] = "dispatch_intent" => intent'[a].head <= head'
  BY <1>1 DEF Attempts, Numbers
<1>4. \A r \in Fresh(a) : r \in RunsOf(a)
  BY DEF Fresh
<1>. QED
  BY <1>2, <1>3, <1>4 DEF Attempts

\* Where the runs do not change, only the entry of one action matters.
LEMMA OneEntry ==
  ASSUME TypeOK, TypeOK', OneWorker, UNCHANGED github,
         NEW a \in Actions, Attempts(a)', Informed',
         \A b \in Actions \ {a} : status'[b] = status[b] /\ intent'[b] = intent[b]
  PROVE  OneWorker'
<1>1. Numbers
  BY NumbersHold
<1>2. ASSUME NEW b \in Actions, b # a PROVE Attempts(b)'
  <2>1. RunsOf(b)' = RunsOf(b) /\ head <= head' /\ Attempts(b)
    BY <1>1 DEF RunsOf, github, OneWorker, Numbers
  <2>. QED
    BY <1>2, <2>1, AttemptsKept DEF github
<1>3. RunsPast'
  BY DEF OneWorker, RunsPast, github
<1>. QED
  BY <1>2, <1>3 DEF OneWorker

\* An action of which nothing is executed may be given any status and intent
\* out of flight.
LEMMA NothingAlive ==
  ASSUME NEW a \in Actions, UNCHANGED github,
         \A r \in RunsOf(a) : ~runs[r].live,
         status'[a] \notin {"dispatch_intent", "dispatched"}
  PROVE  Attempts(a)'
<1>1. RunsOf(a)' = RunsOf(a) /\ runs' = runs
  BY DEF RunsOf, github
<1>. QED
  BY <1>1 DEF Attempts

\* The worker whose result is being used was the only one.
LEMMA IngestedAlone ==
  ASSUME TypeOK, Ownership, OneWorker, NEW a \in Actions, Ingesting(a)
  PROVE  \A r \in RunsOf(a) : ~runs[r].live
<1>1. Owned(a) /\ Attempts(a)
  BY DEF Ownership, OneWorker
<1>2. receipt[a].run \in Fresh(a) /\ ~runs[receipt[a].run].live
  BY <1>1 DEF Ingesting, Owned, Ownership, BootOwned, Fresh
<1>. QED
  BY <1>1, <1>2 DEF Ingesting, Attempts

\* A run for an intent that nobody has dispatched for, as far as can be told.
LEMMA DispatchAlone ==
  ASSUME TypeOK, TypeOK', Ownership, OneWorker, NEW a \in Actions,
         PostDispatch(a), status[a] = "dispatch_intent", Fresh(a) = {}, UNCHANGED durable
  PROVE  OneWorker'
<1>. USE DEF durable
<1>1. Numbers
  BY NumbersHold
<1>2. /\ lastRun' = lastRun + 1 /\ lastRun' \in RunId /\ head' = head
      /\ \A r \in RunId \ {lastRun'} : runs'[r] = runs[r]
      /\ runs'[lastRun'].head = head
      /\ RunsOf(a)' = RunsOf(a) \cup {lastRun'}
      /\ \A b \in Actions \ {a} : RunsOf(b)' = RunsOf(b)
  BY DispatchForm
<1>3. \A b \in Actions : RunsOf(b) \subseteq RunId \ {lastRun'}
  BY <1>1, <1>2 DEF RunsOf, Numbers
<1>4. ASSUME NEW b \in Actions, b # a PROVE Attempts(b)'
  <2>1. head <= head' /\ Attempts(b)
    BY <1>1, <1>2 DEF OneWorker, Numbers
  <2>2. \A r \in RunsOf(b) : runs'[r] = runs[r]
    BY <1>2, <1>3
  <2>. QED
    BY <1>2, <1>4, <2>1, <2>2, AttemptsKept
<1>5. Attempts(a) /\ \A r \in RunsOf(a) : ~runs[r].live /\ runs'[r] = runs[r]
  BY <1>2, <1>3 DEF OneWorker, Attempts
<1>6. Fresh(a)' \subseteq {lastRun'}
  BY <1>2 DEF Fresh
<1>7. \A r \in RunsOf(a)' : runs'[r].live => r = lastRun'
  BY <1>2, <1>5
<1>8. lastRun' \in Fresh(a)'
  <2>1. intent[a].since <= lastRun
    BY DEF Ownership, Owned
  <2>. QED
    BY <1>1, <1>2, <2>1 DEF Fresh, Numbers
<1>9. Attempts(a)'
  <2>1. intent'[a].head <= head' /\ intent'[a].head <= runs'[lastRun'].head
    BY <1>2, <1>5 DEF Attempts
  <2>. QED
    BY <1>6, <1>7, <1>8, <2>1 DEF Attempts
<1>10. RunsPast'
  <2>1. ASSUME NEW r \in RunId PROVE runs'[r].head <= head'
    BY <1>1, <1>2 DEF OneWorker, RunsPast, Numbers
  <2>2. ASSUME NEW r \in RunId, r > lastRun' PROVE ~runs'[r].live
    BY <1>1, <1>2, <2>2 DEF OneWorker, RunsPast, Numbers
  <2>. QED
    BY <2>1, <2>2 DEF RunsPast
<1>11. Informed'
  <2>1. CASE boot' = [boot EXCEPT !.pc = "receipt", !.run = lastRun + 1]
    <3>1. boot \in Boot
      BY DEF TypeOK
    <3>2. boot'.pc = "receipt"
      BY ONLY <2>1, <3>1 DEF Boot
    <3>. QED
      BY <3>2 DEF Informed
  <2>2. CASE boot' = Idle
    BY <2>2 DEF Informed, Idle
  <2>. QED
    BY <2>1, <2>2 DEF PostDispatch
<1>. QED
  BY <1>4, <1>9, <1>10, <1>11 DEF OneWorker

\* One worker at a time is kept by every step, if GitHub is prompt.
LEMMA OneWorkerStep ==
  ASSUME TypeOK, TypeOK', Ownership, OneWorker, PromptGitHub, [Next]_vars
  PROVE  OneWorker'
<1>1. Numbers
  BY NumbersHold
<1>2. /\ \A a \in Actions : Attempts(a) /\ Owned(a)
      /\ Informed /\ RunsPast /\ BootOwned
  BY DEF OneWorker, Ownership
<1>3. "slowListing" \notin Faults /\ \A h \in WakeHeads : h = head
  BY DEF PromptGitHub, WakeHeads
<1>4. ASSUME UNCHANGED <<durable, github>>,
             \/ boot' = boot \/ boot'.pc # "command" \/ boot'.kind = "observe"
      PROVE  OneWorker'
  <2>1. Informed'
    BY <1>2, <1>4 DEF Informed, Fresh, RunsOf, durable, github
  <2>2. \A a \in Actions : Attempts(a)'
    BY <1>2, <1>4 DEF Attempts, Fresh, RunsOf, durable, github
  <2>3. RunsPast'
    BY <1>2, <1>4 DEF RunsPast, github
  <2>. QED
    BY <2>1, <2>2, <2>3 DEF OneWorker
<1>5. ASSUME NEW a \in Actions, NEW h \in Head, Wake(h), RecordIntent(a, h),
             status[a] \in {"absent", "pending"}, UNCHANGED github
      PROVE  OneWorker'
  <2>. USE DEF RecordIntent, TypeOK, github
  <2>1. /\ status'[a] = "dispatch_intent" /\ intent'[a].since = lastRun
        /\ intent'[a].head = head
        /\ \A b \in Actions \ {a} : status'[b] = status[b] /\ intent'[b] = intent[b]
    BY <1>3, <1>5 DEF Wake
  <2>2. Fresh(a)' = {}
    <3>1. \A r \in RunsOf(a)' : ~(r > intent'[a].since)
      BY <1>1, <1>5, <2>1 DEF RunsOf, Numbers
    <3>. QED
      BY <3>1 DEF Fresh
  <2>3. \A r \in RunsOf(a)' : ~runs'[r].live
    BY <1>2, <1>5 DEF Attempts, RunsOf
  <2>4. Attempts(a)'
    BY <1>1, <1>5, <2>1, <2>2, <2>3 DEF Attempts, Numbers
  <2>5. Informed'
    BY <1>5, <2>2 DEF Informed, Command
  <2>. QED
    BY <1>5, <2>1, <2>4, <2>5, OneEntry
<1>6. ASSUME NEW a \in Actions, NEW h \in Head, RejectStaleIntent(a, h)
      PROVE  OneWorker'
  <2>. USE DEF RejectStaleIntent, TypeOK
  <2>1. /\ status'[a] = "rejected" /\ UNCHANGED github
        /\ \A b \in Actions \ {a} : status'[b] = status[b] /\ intent'[b] = intent[b]
    BY <1>6
  <2>2. RunsOf(a)' = RunsOf(a) /\ runs' = runs
    BY <2>1 DEF RunsOf, github
  <2>3. \A r, s \in RunsOf(a) : runs[r].live /\ runs[s].live => r = s
    BY <1>2 DEF Attempts
  <2>4. Attempts(a)'
    BY <2>1, <2>2, <2>3 DEF Attempts
  <2>5. Informed'
    BY <1>6 DEF Wake, Informed
  <2>. QED
    BY <2>1, <2>4, <2>5, OneEntry
<1>7. ASSUME NEW a \in Actions, NEW h \in Head, SelectIntent(a, h)
      PROVE  OneWorker'
  <2>1. /\ UNCHANGED <<durable, github>> /\ status[a] = "dispatch_intent"
        /\ intent[a].head = head /\ boot' = Command("reconcile", a)
        /\ intent[a].aged => \A r \in RunsOf(a) : runs[r].listed
    BY <1>3, <1>7 DEF SelectIntent, Wake
  <2>2. ASSUME NEW r \in Fresh(a)
        PROVE  /\ runs[r].head = intent[a].head
               /\ intent[a].aged => runs[r].listed
    <3>1. r \in RunsOf(a) /\ r \in RunId
      BY DEF Fresh, RunsOf
    <3>2. intent[a].head <= runs[r].head /\ runs[r].head <= head
      BY <1>2, <2>1, <3>1 DEF Attempts, RunsPast
    <3>. QED
      BY <1>1, <2>1, <3>1, <3>2 DEF Numbers
  <2>3. Fresh(a)' = Fresh(a) /\ runs' = runs /\ intent' = intent
    BY <2>1 DEF Fresh, RunsOf, durable, github
  <2>4. Informed'
    BY <2>1, <2>2, <2>3 DEF Informed, Command
  <2>5. \A b \in Actions : Attempts(b)'
    BY <1>2, <2>1 DEF Attempts, Fresh, RunsOf, durable, github
  <2>. QED
    BY <1>2, <2>1, <2>4, <2>5 DEF OneWorker, RunsPast, github
<1>8. ASSUME NEW a \in Actions, GatewayDispatch(a) \/ GatewayRedispatch(a)
      PROVE  OneWorker'
  <2>1. /\ PostDispatch(a) /\ status[a] = "dispatch_intent" /\ UNCHANGED durable
        /\ boot.pc = "command" /\ boot.action = a
    BY <1>8 DEF GatewayDispatch, GatewayRedispatch, Reconciling
  <2>2. Fresh(a) = {}
    <3>1. CASE boot.kind = "dispatch"
      BY <1>2, <2>1, <3>1 DEF Informed
    <3>2. CASE GatewayRedispatch(a)
      <4>1. boot.kind = "reconcile" /\ Eligible(a) = {} /\ intent[a].aged
        BY <3>2 DEF GatewayRedispatch, Reconciling, Observation
      <4>2. Fresh(a) \subseteq Eligible(a)
        BY <1>2, <2>1, <4>1 DEF Informed, Eligible, Candidates, Fresh
      <4>. QED
        BY <4>1, <4>2
    <3>. QED
      BY <1>8, <3>1, <3>2 DEF GatewayDispatch
  <2>. QED
    BY <2>1, <2>2, DispatchAlone
<1>9. ASSUME NEW a \in Actions, PersistReceipt(a) PROVE OneWorker'
  <2>. USE DEF PersistReceipt, TypeOK
  <2>1. /\ status[a] = "dispatch_intent" /\ status'[a] = "dispatched"
        /\ UNCHANGED <<intent, github>> /\ boot'.pc # "command"
        /\ \A b \in Actions \ {a} : status'[b] = status[b]
    BY <1>9 DEF Boot
  <2>2. Fresh(a)' = Fresh(a) /\ RunsOf(a)' = RunsOf(a) /\ runs' = runs
    BY <2>1 DEF Fresh, RunsOf, github
  <2>3. Attempts(a)'
    BY <1>2, <2>1, <2>2 DEF Attempts
  <2>4. Informed'
    BY <2>1 DEF Informed
  <2>. QED
    BY <2>1, <2>3, <2>4, OneEntry
<1>10. ASSUME NEW a \in Actions, Ingesting(a), boot' = Idle, UNCHANGED github,
              status'[a] \notin {"dispatch_intent", "dispatched"},
              \A b \in Actions \ {a} : status'[b] = status[b] /\ intent'[b] = intent[b]
       PROVE  OneWorker'
  <2>1. Attempts(a)'
    BY <1>10, IngestedAlone, NothingAlive
  <2>2. Informed'
    BY <1>10 DEF Informed, Idle
  <2>. QED
    BY <1>10, <2>1, <2>2, OneEntry
<1>11. ASSUME NEW a \in Actions,
              RetireAttempt(a) \/ SettleFromArtifact(a) \/ FailFromArtifact(a)
       PROVE  OneWorker'
  <2>1. CASE RetireAttempt(a)
    BY <1>10, <2>1 DEF RetireAttempt, TypeOK
  <2>2. CASE SettleFromArtifact(a)
    BY <1>10, <2>2 DEF SettleFromArtifact, TypeOK
  <2>3. CASE FailFromArtifact(a)
    BY <1>10, <2>3 DEF FailFromArtifact, TypeOK
  <2>. QED
    BY <1>11, <2>1, <2>2, <2>3
<1>12. ASSUME NEW a \in Actions, CorrectiveResolved(a) PROVE OneWorker'
  <2>. USE DEF CorrectiveResolved, TypeOK
  <2>1. /\ status[a] = "suspended" /\ status'[a] = "pending"
        /\ UNCHANGED <<intent, runs, lastRun, head, boot>>
        /\ \A b \in Actions \ {a} : status'[b] = status[b]
    BY <1>12
  <2>2. \A r \in RunsOf(a) : ~runs[r].live
    BY <1>2, <2>1 DEF Attempts
  <2>3. \A b \in Actions : RunsOf(b)' = RunsOf(b)
    BY <2>1 DEF RunsOf
  <2>4. Attempts(a)'
    BY <2>1, <2>2, <2>3 DEF Attempts
  <2>5. ASSUME NEW b \in Actions, b # a PROVE Attempts(b)'
    BY <1>1, <1>2, <2>1, <2>3, <2>5, AttemptsKept DEF Numbers
  <2>6. Informed'
    BY <1>12, <2>1 DEF Informed
  <2>. QED
    BY <1>2, <2>1, <2>4, <2>5, <2>6 DEF OneWorker, RunsPast
<1>13. ASSUME NEW r \in RunId, WorkerEnd(r) \/ ListRun(r) PROVE OneWorker'
  <2>1. /\ UNCHANGED <<durable, lastRun, head, boot>>
        /\ \A s \in RunId : /\ runs'[s].action = runs[s].action
                            /\ runs'[s].head = runs[s].head
                            /\ runs'[s].live => runs[s].live
                            /\ runs[s].listed => runs'[s].listed
    <3>1. CASE WorkerEnd(r)
      <4>1. PICK outcome \in Outcome :
              runs' = [runs EXCEPT ![r].live = FALSE, ![r].outcome = outcome]
        BY <3>1, WorkerEndForm
      <4>. QED
        BY <3>1, <4>1 DEF WorkerEnd, TypeOK, Run
    <3>2. CASE ListRun(r)
      BY <3>2 DEF ListRun, TypeOK, Run
    <3>. QED
      BY <1>13, <3>1, <3>2
  <2>2. \A b \in Actions : RunsOf(b)' = RunsOf(b) /\ RunsOf(b) \subseteq RunId
    BY <2>1 DEF RunsOf
  <2>3. ASSUME NEW b \in Actions PROVE Attempts(b)'
    <3>1. Attempts(b) /\ head <= head'
      BY <1>1, <1>2, <2>1 DEF Numbers
    <3>2. status'[b] = status[b] /\ intent'[b] = intent[b]
      BY <2>1 DEF durable
    <3>. QED
      BY <2>1, <2>2, <3>1, <3>2, AttemptsKept
  <2>4. RunsPast'
    BY <1>2, <2>1 DEF RunsPast
  <2>5. Informed'
    <3>1. Fresh(boot.action)' = Fresh(boot.action) /\ Fresh(boot.action) \subseteq RunId
      BY <2>1 DEF Fresh, RunsOf, durable
    <3>. QED
      BY <1>2, <2>1, <3>1 DEF Informed, durable
  <2>. QED
    BY <2>3, <2>4, <2>5 DEF OneWorker
<1>14. ASSUME NEW a \in Actions, GraceExpires(a) PROVE OneWorker'
  <2>1. /\ UNCHANGED <<status, github, boot>> /\ \A r \in RunsOf(a) : runs[r].listed
        /\ \A b \in Actions : /\ intent'[b].since = intent[b].since
                              /\ intent'[b].head = intent[b].head
                              /\ b # a => intent'[b] = intent[b]
    BY <1>14 DEF GraceExpires, TypeOK, Intent
  <2>2. Attempts(a)'
    BY <1>2, <2>1 DEF Attempts, Fresh, RunsOf, github
  <2>3. Informed'
    <3>1. ASSUME boot.pc = "command", boot.kind = "dispatch"
          PROVE  boot.action \in Actions /\ Fresh(boot.action)' = {}
      BY <1>2, <2>1, <3>1 DEF Informed, Fresh, RunsOf, github
    <3>2. ASSUME boot.pc = "command", boot.kind = "reconcile",
                 NEW r \in Fresh(boot.action)'
          PROVE  /\ runs'[r].head = intent'[boot.action].head
                 /\ intent'[boot.action].aged => runs'[r].listed
      <4>1. CASE boot.action \in Actions
        BY <1>2, <2>1, <3>2, <4>1 DEF Informed, Fresh, RunsOf, github
      <4>2. CASE boot.action \notin Actions
        BY <1>14, <1>2, <2>1, <3>2, <4>2 DEF Informed, Fresh, RunsOf, github, GraceExpires, TypeOK
      <4>. QED
        BY <4>1, <4>2
    <3>. QED
      BY <2>1, <3>1, <3>2 DEF Informed
  <2>. QED
    BY <2>1, <2>2, <2>3, OneEntry
<1>15. CASE HeadMoves
  <2>1. /\ UNCHANGED <<durable, runs, lastRun, boot>> /\ head <= head'
    BY <1>1, <1>15 DEF HeadMoves, Numbers
  <2>2. \A b \in Actions : Attempts(b)'
    BY <1>2, <2>1, AttemptsKept DEF RunsOf, durable
  <2>3. ASSUME NEW r \in RunId PROVE runs[r].head <= head' /\ (r > lastRun => ~runs[r].live)
    BY <1>1, <1>2, <2>1 DEF RunsPast, Numbers
  <2>4. Informed'
    BY <1>2, <2>1 DEF Informed, Fresh, RunsOf, durable
  <2>. QED
    BY <2>1, <2>2, <2>3, <2>4 DEF OneWorker, RunsPast
<1>16. ASSUME NEW a \in Actions, NEW h \in Head,
              PlanAction(a, h) \/ SelectPending(a, h) \/ SelectDispatched(a, h)
       PROVE  OneWorker'
  <2>1. CASE PlanAction(a, h) \/ SelectPending(a, h)
    BY <1>5, <2>1 DEF PlanAction, SelectPending
  <2>2. CASE SelectDispatched(a, h)
    BY <1>4, <2>2 DEF SelectDispatched, Command
  <2>. QED
    BY <1>16, <2>1, <2>2
<1>17. ASSUME NEW a \in Actions,
              \/ GatewayRecoverReceipt(a) \/ GatewayLeaveIntent(a)
              \/ GatewayObserveTerminal(a) \/ GatewayObserveNothing(a)
              \/ CannotRetireAttempt(a)
       PROVE  OneWorker'
  <2>1. CASE GatewayRecoverReceipt(a)
    <3>1. boot'.pc = "receipt" /\ UNCHANGED <<durable, github>>
      BY <2>1 DEF GatewayRecoverReceipt, TypeOK, Boot
    <3>. QED
      BY <1>4, <3>1
  <2>2. CASE GatewayObserveTerminal(a)
    <3>1. boot'.pc = "ingest" /\ UNCHANGED <<durable, github>>
      BY <2>2 DEF GatewayObserveTerminal, TypeOK, Boot
    <3>. QED
      BY <1>4, <3>1
  <2>3. CASE GatewayLeaveIntent(a) \/ GatewayObserveNothing(a) \/ CannotRetireAttempt(a)
    BY <1>4, <2>3 DEF GatewayLeaveIntent, GatewayObserveNothing, CannotRetireAttempt, Idle
  <2>. QED
    BY <1>17, <2>1, <2>2, <2>3
<1>18. CASE WaitWorker \/ WaitTimeout \/ Crash \/ UNCHANGED vars
  BY <1>4, <1>18 DEF WaitWorker, WaitTimeout, Crash, vars, Command, Idle
<1>. QED
  BY <1>6, <1>7, <1>8, <1>9, <1>11, <1>12, <1>13, <1>14, <1>15, <1>16, <1>17, <1>18
  DEF Next, Cycle, Gateway, Persist, Ingest, Recover, GitHub

LEMMA OneWorkerInit == Init => OneWorker
  BY ConstantsAssumption
  DEF Init, OneWorker, Attempts, Fresh, Informed, RunsPast, RunsOf, NoRun, NoIntent,
      Idle, Head, RunId

LEMMA AlwaysOneWorker == Spec => [](TypeOK /\ Ownership /\ (PromptGitHub => OneWorker))
<1>1. Init => Ownership
  BY ConstantsAssumption
  DEF Init, Ownership, Owned, BootOwned, SuccessHasEffect, NoIntent, NoReceipt,
      Idle, RunId
<1>2. TypeOK /\ TypeOK' /\ Ownership /\ [Next]_vars => Ownership'
  BY OwnershipStep
<1>3. TypeOK /\ TypeOK' /\ Ownership /\ (PromptGitHub => OneWorker) /\ [Next]_vars =>
        (PromptGitHub => OneWorker)'
  BY OneWorkerStep DEF PromptGitHub
<1>. QED
  BY <1>1, <1>2, <1>3, OneWorkerInit, TypeCorrect, PTL DEF Spec

\* An intent has one run at most, so that its reconciliation is never ambiguous:
\* nothing is dispatched for it a second time, also not by the successors of a
\* bootstrap run that died before it recorded the receipt.
THEOREM IntentHasOneRun == Spec => []OneRunPerIntent
<1>1. (PromptGitHub => OneWorker) => OneRunPerIntent
  BY DEF OneRunPerIntent, OneWorker, Attempts, Fresh
<1>. QED
  BY <1>1, AlwaysOneWorker, PTL

\* No plan is executed by two workers at the same time.
THEOREM OneWorkerAtATime == Spec => []NoConcurrentRuns
<1>1. TypeOK /\ Ownership /\ (PromptGitHub => OneWorker) => NoConcurrentRuns
  <2>. SUFFICES ASSUME TypeOK, Ownership, PromptGitHub, OneWorker,
                       NEW r \in RunId, NEW s \in RunId, runs[r].live, runs[s].live,
                       runs[r].action = runs[s].action
                PROVE  r = s
    BY DEF NoConcurrentRuns
  <2>1. r <= lastRun /\ s <= lastRun
    BY ConstantsAssumption DEF OneWorker, RunsPast, TypeOK, RunId
  <2>2. runs[r].action \in Actions
    BY <2>1 DEF Ownership, SuccessHasEffect
  <2>. QED
    BY <2>1, <2>2 DEF OneWorker, Attempts, RunsOf
<1>. QED
  BY <1>1, AlwaysOneWorker, PTL
=============================================================================
