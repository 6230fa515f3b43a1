------------------------- MODULE GitHubActions_proofs -------------------------
(***************************************************************************)
(* Proofs about what runs in GitHub Actions, and about who looks for it:   *)
(* WorkMatrix and, from `Finding a run' on, ActionsObservation.            *)
(*                                                                         *)
(* WorkMatrix, for any commits, cases, manifests and moves of the branch:  *)
(* types, that commands run at the requested commit and behind the whole   *)
(* of prepare, and that a call without a failed job has all its evidence.  *)
(* The invariant says where a job that runs has been checked out and which *)
(* jobs ended before it (Located, InOrder), what a successful plan and     *)
(* prepare leave behind (Planned, Prepared), what a command and a          *)
(* successful case or aggregate rest on (RanBehind, Recorded), and that    *)
(* a job is skipped only if it may not run (RightlySkipped).               *)
(*                                                                         *)
(* The two share no name, so one module extends both.                      *)
(***************************************************************************)
EXTENDS WorkMatrix, ActionsObservation, TLAPS, FiniteSetTheorems, WellFoundedInduction

Alive(j) == job[j].state \in {"running", "success"}

\* A runner checks out a commit, and the requested one if the request is a commit.
Located ==
  \A j \in Jobs : Alive(j) =>
    /\ job[j].at \in Commits
    /\ request.base # Branch => AtBase(j)

InOrder ==
  /\ \A j \in Jobs : job[j].state # "waiting" => \A k \in Needs(j) : Ended(k)
  /\ \A j \in {"route", "plan"} : job[j].state = "running" => job[j].step = "work"

\* The outputs are those of the plan.
Planned ==
  Succeeded("plan") =>
    Validates(ManifestIn("plan")) /\ outputs = Outputs(request.caller, ManifestIn("plan"))

\* Past its stages, prepare has passed them all, at the requested commit.
Prepared ==
  /\ \/ Running("prepare", "pack")
     \/ Running("prepare", "upload") /\ job["prepare"].ok
     \/ Succeeded("prepare")
     => /\ evidence["prepare"] = "PASS" /\ outputs.prepare
        /\ AtBase("prepare") /\ Complete(ManifestIn("prepare"))
  /\ Succeeded("prepare") => uploaded["prepare"] = "PASS"

RanBehind ==
  /\ \A j \in Cases \cup {"aggregate"} : Alive(j) => Succeeded("prepare")
  /\ \A r \in ran : r.at = request.base /\ (r.job # "prepare" => Succeeded("prepare"))

\* What a case, or an aggregate that is declared, needs for its success.
Recorded ==
  \A j \in Cases \cup {"aggregate"} :
    LET idle == j = "aggregate" /\ ~ManifestIn(j).aggregate IN
    /\ Running(j, "upload") /\ job[j].ok => evidence[j] = "PASS" \/ idle
    /\ Succeeded(j) => uploaded[j] = "PASS" \/ idle

RightlySkipped ==
  \A j \in Jobs \ {"route"} : job[j].state = "skipped" => ~Runs(j)

Invariant ==
  /\ TypeOK /\ Located /\ InOrder /\ Planned /\ Prepared
  /\ RanBehind /\ Recorded /\ RightlySkipped

-----------------------------------------------------------------------------
(* Manifests and jobs.                                                      *)

LEMMA JobNames ==
  /\ {"route", "plan", "prepare", "aggregate"} \subseteq Jobs /\ Cases \subseteq Jobs
  /\ \A c \in Cases : c \notin {"route", "plan", "prepare", "aggregate"}
BY ConstantsAssumption DEF Jobs

LEMMA ManifestType ==
  ASSUME TypeOK, NEW j \in Jobs, job[j].at \in Commits
  PROVE  ManifestIn(j) \in Manifests
BY HistoriesAssumption DEF TypeOK, ManifestIn

\* A manifest that validates has cases.
LEMMA ValidCases ==
  ASSUME NEW m \in Manifests, Validates(m)
  PROVE  m.cases \in Seq(Cases)
<1>1. m.cases # None
  BY DEF Validates, Loads, Mode
<1> QED BY <1>1 DEF Manifests

\* A step changes one job at most, and none that has ended.
LEMMA EndedStays ==
  ASSUME TypeOK, [Next]_vars, NEW k \in Jobs, Ended(k)
  PROVE  job'[k] = job[k]
<1> USE DEF TypeOK, Ended, EndStates
<1>1. ASSUME NEW j \in Jobs, Start(j) \/ Skip(j) \/ Cut(j) \/ RunnerLost(j)
      PROVE  job'[k] = job[k]
  BY <1>1 DEF Start, Skip, Cut, RunnerLost, Fails, End
<1>2. ASSUME NEW j \in Jobs, Step(j)
      PROVE  job'[k] = job[k]
  BY <1>2, JobNames
     DEF Step, Route, Plan, Prepare, PrepareRefused, RunStage, Conclude, Pack, Restore, RunCase,
         RunAggregate, ExecuteSpec, SpecRefused, Upload, Running, Fails, To, End
<1>3. CASE BundleExpires \/ BranchMoves \/ UNCHANGED vars
  BY <1>3 DEF BundleExpires, BranchMoves, vars
<1> QED BY <1>1, <1>2, <1>3 DEF Next

-----------------------------------------------------------------------------
(* Types.                                                                   *)

LEMMA TypeInit == Init => TypeOK
<1> SUFFICES ASSUME Init PROVE TypeOK
  OBVIOUS
<1>1. Waiting \in Job
  BY DEF Waiting, Job
<1> QED BY <1>1, ConstantsAssumption DEF Init, TypeOK

\* What a change of a job's fields does to the type.
LEMMA JobType ==
  ASSUME TypeOK, NEW j \in Jobs,
         NEW state \in {"running"} \cup EndStates,
         NEW step \in {None, "work", "pack", "restore", "upload"},
         NEW at \in Commits \cup {None}, NEW ok \in BOOLEAN,
         job' = [job EXCEPT ![j] = [state |-> state, step |-> step, at |-> at, ok |-> ok]]
  PROVE  job' \in [Jobs -> Job]
BY DEF TypeOK, Job

LEMMA FieldsType ==
  ASSUME TypeOK, NEW j \in Jobs,
         NEW state \in {"running"} \cup EndStates,
         NEW step \in {None, "work", "pack", "restore", "upload"}, NEW ok \in BOOLEAN
  PROVE  /\ [job EXCEPT ![j].step = step] \in [Jobs -> Job]
         /\ [job EXCEPT ![j].state = state] \in [Jobs -> Job]
         /\ [job EXCEPT ![j].state = state, ![j].step = step] \in [Jobs -> Job]
         /\ [job EXCEPT ![j].step = step, ![j].ok = ok] \in [Jobs -> Job]
<1>1. job \in [Jobs -> Job] /\ job[j] \in Job
  BY DEF TypeOK
<1>2. \A x \in Job : /\ [x EXCEPT !.step = step] \in Job
                     /\ [x EXCEPT !.state = state] \in Job
                     /\ [x EXCEPT !.ok = ok] \in Job
  BY DEF Job
<1>3. \A f \in [Jobs -> Job] : \A x \in Job : [f EXCEPT ![j] = x] \in [Jobs -> Job]
  OBVIOUS
<1>4. [job EXCEPT ![j].step = step] \in [Jobs -> Job]
  BY <1>1, <1>2, <1>3
<1>5. [job EXCEPT ![j].state = state] \in [Jobs -> Job]
  BY <1>1, <1>2, <1>3
<1>6. [job EXCEPT ![j].state = state, ![j].step = step] \in [Jobs -> Job]
  BY <1>1, <1>2, <1>3, <1>5
<1>7. [job EXCEPT ![j].step = step, ![j].ok = ok] \in [Jobs -> Job]
  BY <1>1, <1>2, <1>3, <1>4
<1> QED BY <1>4, <1>5, <1>6, <1>7

\* The three ways a step leaves its job.
LEMMA MovesType ==
  ASSUME TypeOK, NEW j \in Jobs,
         \/ Fails(j)
         \/ \E step \in {"work", "pack", "upload"} : To(j, step)
         \/ \E state \in EndStates : End(j, state)
  PROVE  job' \in [Jobs -> Job]
<1>1. CASE Fails(j)
  BY <1>1, FieldsType, "running" \in {"running"} \cup EndStates DEF Fails
<1>2. ASSUME NEW step \in {"work", "pack", "upload"}, To(j, step)
      PROVE  job' \in [Jobs -> Job]
  BY <1>2, FieldsType, "running" \in {"running"} \cup EndStates DEF To
<1>3. ASSUME NEW state \in EndStates, End(j, state)
      PROVE  job' \in [Jobs -> Job]
  BY <1>3, FieldsType DEF End
<1> QED BY <1>1, <1>2, <1>3

LEMMA OutputsType ==
  ASSUME NEW m \in Manifests, Validates(m), NEW caller
  PROVE  Outputs(caller, m) \in
           [cases : SUBSET Cases, parallel : Int, prepare : BOOLEAN, aggregate : BOOLEAN]
<1>1. ToSet(m.cases) \subseteq Cases
  BY ValidCases DEF ToSet
<1> QED BY <1>1 DEF Outputs, Manifests

LEMMA TypeStep == TypeOK /\ Located /\ [Next]_vars => TypeOK'
<1> SUFFICES ASSUME TypeOK, Located, [Next]_vars
             PROVE  TypeOK'
  OBVIOUS
<1>1. ASSUME NEW j \in Jobs, Start(j) PROVE TypeOK'
  <2>1. IF request.base = Branch THEN main \in Commits ELSE request.base \in Commits
    BY DEF TypeOK
  <2>2. job' \in [Jobs -> Job]
    BY <1>1, <2>1, JobType DEF Start, FirstStep
  <2> QED BY <1>1, <2>2 DEF Start, TypeOK, artifacts
<1>2. ASSUME NEW j \in Jobs, Skip(j) PROVE TypeOK'
  <2>1. job' \in [Jobs -> Job]
    BY <1>2, FieldsType DEF Skip, EndStates
  <2> QED BY <1>2, <2>1 DEF Skip, TypeOK, artifacts
<1>3. ASSUME NEW j \in Jobs, Cut(j) \/ RunnerLost(j) PROVE TypeOK'
  <2>1. job' \in [Jobs -> Job]
    BY <1>3, MovesType DEF Cut, RunnerLost, EndStates
  <2> QED BY <1>3, <2>1 DEF Cut, RunnerLost, TypeOK, artifacts
<1>4. CASE Route
  <2>1. job' \in [Jobs -> Job]
    BY <1>4, MovesType, JobNames DEF Route, EndStates
  <2> QED BY <1>4, <2>1 DEF Route, TypeOK, artifacts
<1>5. CASE Plan
  <2>1. job' \in [Jobs -> Job]
    BY <1>5, MovesType, JobNames DEF Plan, EndStates
  <2>2. job["plan"].at \in Commits
    BY <1>5, JobNames DEF Plan, Located, Alive, Running
  <2>3. outputs' \in [cases : SUBSET Cases, parallel : Int, prepare : BOOLEAN, aggregate : BOOLEAN]
    BY <1>5, <2>2, ManifestType, OutputsType, JobNames DEF Plan, TypeOK
  <2> QED BY <1>5, <2>1, <2>3 DEF Plan, TypeOK, artifacts
<1>6. CASE Prepare
  <2>1. CASE PrepareRefused
    BY <2>1, MovesType, JobNames DEF PrepareRefused, TypeOK, artifacts
  <2>2. CASE RunStage
    <3>1. stages' \in Seq({"PASS", "FAIL"})
      BY <2>2 DEF RunStage, TypeOK
    <3>2. job["prepare"].at \in Commits
      BY <2>2, JobNames DEF RunStage, Located, Alive, Running
    <3>3. ran' \subseteq [job : Jobs, at : Commits]
      BY <2>2, <3>2, JobNames DEF RunStage, TypeOK
    <3> QED BY <2>2, <3>1, <3>3 DEF RunStage, TypeOK, artifacts
  <2>3. CASE Conclude
    <3>1. job' \in [Jobs -> Job] /\ evidence' \in [Jobs -> {None, "PASS", "FAIL"}]
      BY <2>3, MovesType, JobNames DEF Conclude, TypeOK
    <3> QED BY <2>3, <3>1 DEF Conclude, TypeOK, artifacts
  <2>4. CASE Pack
    <3>1. job' \in [Jobs -> Job] /\ bundle' \in {bundle, "kept"}
      BY <2>4, MovesType, JobNames DEF Pack
    <3> QED BY <2>4, <3>1 DEF Pack, TypeOK
  <2> QED BY <1>6, <2>1, <2>2, <2>3, <2>4 DEF Prepare
<1>7. ASSUME NEW c \in Cases, Restore(c) PROVE TypeOK'
  <2>1. job' \in [Jobs -> Job]
    BY <1>7, MovesType, JobNames DEF Restore
  <2> QED BY <1>7, <2>1 DEF Restore, TypeOK, artifacts
<1>8. ASSUME NEW j \in Jobs, Running(j, "work"), ExecuteSpec(j)
      PROVE  /\ job' \in [Jobs -> Job] /\ evidence' \in [Jobs -> {None, "PASS", "FAIL"}]
             /\ ran' \subseteq [job : Jobs, at : Commits]
  <2>1. PICK verdict \in {"PASS", "FAIL"} :
          /\ evidence' = [evidence EXCEPT ![j] = verdict]
          /\ job' = [job EXCEPT ![j].step = "upload", ![j].ok = Passes(verdict)]
    BY <1>8 DEF ExecuteSpec
  <2>2. Passes(verdict) \in BOOLEAN
    BY DEF Passes
  <2>3. job' \in [Jobs -> Job]
    BY <2>1, <2>2, FieldsType DEF EndStates
  <2>4. job[j].at \in Commits
    BY <1>8 DEF Located, Alive, Running
  <2> QED BY <1>8, <2>1, <2>3, <2>4 DEF ExecuteSpec, TypeOK
<1>9. ASSUME NEW c \in Cases, RunCase(c) PROVE TypeOK'
  <2>1. c \in Jobs /\ Running(c, "work") /\ ExecuteSpec(c)
    BY <1>9, JobNames DEF RunCase
  <2> QED BY <1>8, <1>9, <2>1 DEF RunCase, TypeOK, artifacts
<1>10. CASE RunAggregate
  <2>1. "aggregate" \in Jobs /\ Running("aggregate", "work")
    BY <1>10, JobNames DEF RunAggregate
  <2>2. CASE ExecuteSpec("aggregate")
    BY <1>8, <1>10, <2>1, <2>2 DEF RunAggregate, TypeOK, artifacts
  <2>3. CASE To("aggregate", "upload") /\ UNCHANGED <<evidence, ran>>
    BY <1>10, <2>1, <2>3, MovesType DEF RunAggregate, TypeOK, artifacts
  <2> QED BY <1>10, <2>2, <2>3 DEF RunAggregate
<1>11. ASSUME NEW j \in Jobs, SpecRefused(j) PROVE TypeOK'
  BY <1>11, MovesType DEF SpecRefused, TypeOK, artifacts
<1>12. ASSUME NEW j \in Jobs, Upload(j) PROVE TypeOK'
  <2>1. job' \in [Jobs -> Job]
    BY <1>12, MovesType DEF Upload, EndStates
  <2> QED BY <1>12, <2>1 DEF Upload, TypeOK
<1>13. CASE BundleExpires \/ BranchMoves
  BY <1>13 DEF BundleExpires, BranchMoves, TypeOK, artifacts
<1>14. CASE UNCHANGED vars
  BY <1>14 DEF vars, TypeOK, artifacts
<1> QED
  BY <1>1, <1>2, <1>3, <1>4, <1>5, <1>6, <1>7, <1>9, <1>10, <1>11, <1>12,
     <1>13, <1>14
     DEF Next, Step

-----------------------------------------------------------------------------
(* What a step changes.                                                     *)

LEMMA RequestStays == [Next]_vars => request' = request
BY DEF Next, vars, Start, Skip, Cut, RunnerLost, BundleExpires, BranchMoves,
   Step, Route, Plan,
       Prepare, PrepareRefused, RunStage, Conclude, Pack, Restore, RunCase, RunAggregate,
       SpecRefused, Upload

\* Only the plan writes the outputs, only prepare the stages, and a job alone its
\* evidence and what it uploads.
LEMMA WritersOf ==
  ASSUME TypeOK, [Next]_vars
  PROVE  /\ outputs' = outputs \/ Plan
         /\ stages' = stages \/ RunStage
         /\ \A k \in Jobs : /\ \/ evidence'[k] = evidence[k]
                               \/ Running(k, "work")
                            /\ uploaded'[k] = uploaded[k] \/ Running(k, "upload")
<1>1. ASSUME NEW j \in Jobs, Start(j) \/ Skip(j) \/ Cut(j) \/ RunnerLost(j)
      PROVE  UNCHANGED <<outputs, stages, evidence, uploaded>>
  BY <1>1 DEF Start, Skip, Cut, RunnerLost, artifacts
<1>2. CASE BundleExpires \/ BranchMoves \/ UNCHANGED vars
  BY <1>2 DEF BundleExpires, BranchMoves, vars, artifacts
<1>3. ASSUME NEW j \in Jobs, Step(j)
      PROVE  /\ outputs' = outputs \/ Plan
             /\ stages' = stages \/ RunStage
             /\ \A k \in Jobs : /\ \/ evidence'[k] = evidence[k]
                                   \/ Running(k, "work")
                                /\ uploaded'[k] = uploaded[k] \/ Running(k, "upload")
  <2>1. CASE Route \/ Plan \/ PrepareRefused \/ RunStage \/ Pack \/ Restore(j) \/ SpecRefused(j)
    BY <2>1 DEF Route, Plan, PrepareRefused, RunStage, Pack, Restore,
       SpecRefused, artifacts
  <2>2. CASE Conclude
    BY <2>2 DEF Conclude, TypeOK, artifacts
  <2>3. CASE RunCase(j) \/ (j = "aggregate" /\ RunAggregate)
    BY <2>3 DEF RunCase, RunAggregate, ExecuteSpec, TypeOK, artifacts
  <2>4. CASE Upload(j)
    BY <2>4 DEF Upload, TypeOK
  <2> QED BY <1>3, <2>1, <2>2, <2>3, <2>4 DEF Step, Prepare
<1> QED BY <1>1, <1>2, <1>3 DEF Next

\* A job is started, skipped, or moves on while it runs, in the same checkout.
LEMMA JobMoves ==
  ASSUME TypeOK, [Next]_vars, NEW k \in Jobs, job'[k] # job[k]
  PROVE  \/ Start(k)
         \/ Skip(k)
         \/ /\ job[k].state = "running" /\ job'[k].at = job[k].at
            /\ k # "route" => job'[k].state # "skipped"
            /\ k \in {"route", "plan"} => job'[k].state # "running"
<1>1. ASSUME NEW j \in Jobs, Start(j) \/ Skip(j)
      PROVE  Start(k) \/ Skip(k)
  BY <1>1 DEF Start, Skip, TypeOK
<1>2. ASSUME NEW j \in Jobs, Cut(j) \/ RunnerLost(j)
      PROVE  /\ job[k].state = "running" /\ job'[k].at = job[k].at
             /\ k # "route" => job'[k].state # "skipped"
             /\ k \in {"route", "plan"} => job'[k].state # "running"
  BY <1>2 DEF Cut, RunnerLost, Fails, End, TypeOK, Job
<1>3. ASSUME NEW j \in Jobs, Step(j)
      PROVE  /\ job[k].state = "running" /\ job'[k].at = job[k].at
             /\ k # "route" => job'[k].state # "skipped"
             /\ k \in {"route", "plan"} => job'[k].state # "running"
  <2>1. CASE Route \/ Plan
    BY <2>1, JobNames DEF Route, Plan, End, Running, TypeOK, Job
  <2>2. CASE Prepare
    BY <2>2, JobNames DEF Prepare, PrepareRefused, RunStage, Conclude, Pack,
       To, Fails, Running,
                          TypeOK, Job
  <2>3. CASE j \in Cases \cup {"aggregate"} /\ (Restore(j) \/ SpecRefused(j))
    BY <2>3, JobNames DEF Restore, SpecRefused, To, Fails, Running, TypeOK, Job
  <2>4. CASE (j \in Cases /\ RunCase(j)) \/ (j = "aggregate" /\ RunAggregate)
    BY <2>4, JobNames DEF RunCase, RunAggregate, ExecuteSpec, To, Running,
       TypeOK, Job
  <2>5. CASE Upload(j)
    BY <2>5 DEF Upload, End, Running, TypeOK, Job
  <2> QED BY <1>3, <2>1, <2>2, <2>3, <2>4, <2>5 DEF Step
<1>4. CASE BundleExpires \/ BranchMoves \/ UNCHANGED vars
  BY <1>4 DEF BundleExpires, BranchMoves, vars
<1> QED BY <1>1, <1>2, <1>3, <1>4 DEF Next

-----------------------------------------------------------------------------
(* The parts of the invariant, each after any step.                         *)

LEMMA LocatedStep == TypeOK /\ Located /\ [Next]_vars => Located'
<1> SUFFICES ASSUME TypeOK, Located, [Next]_vars, NEW k \in Jobs, Alive(k)'
             PROVE  /\ job'[k].at \in Commits
                    /\ request'.base # Branch => AtBase(k)'
  BY DEF Located
<1>1. request' = request
  BY RequestStays
<1>2. CASE job'[k] = job[k]
  BY <1>1, <1>2 DEF Located, Alive, AtBase
<1>3. CASE Start(k)
  BY <1>1, <1>3, ConstantsAssumption DEF Start, AtBase, TypeOK
<1>4. CASE Skip(k)
  BY <1>4 DEF Skip, Alive, TypeOK, Job
<1>5. CASE job[k].state = "running" /\ job'[k].at = job[k].at
  BY <1>1, <1>5 DEF Located, Alive, AtBase
<1> QED BY <1>2, <1>3, <1>4, <1>5, JobMoves

LEMMA InOrderStep == TypeOK /\ InOrder /\ [Next]_vars => InOrder'
<1> SUFFICES ASSUME TypeOK, InOrder, [Next]_vars
             PROVE  InOrder'
  OBVIOUS
<1>1. ASSUME NEW j \in Jobs, job'[j].state # "waiting"
      PROVE  \A k \in Needs(j) : Ended(k)
  <2>1. job[j].state # "waiting" \/ Start(j) \/ Skip(j)
    BY <1>1, JobMoves
  <2> QED BY <2>1 DEF InOrder, Start, Skip
<1>2. \A j \in Jobs : Needs(j) \subseteq Jobs
  BY JobNames DEF Needs
<1>3. \A k \in Jobs : Ended(k) => Ended(k)'
  BY EndedStays DEF Ended
<1>4. ASSUME NEW j \in {"route", "plan"}, job'[j].state = "running"
      PROVE  job'[j].step = "work"
  <2>1. j \in Jobs /\ j \notin Cases
    BY JobNames
  <2>2. CASE Start(j)
    BY <2>1, <2>2 DEF Start, FirstStep, TypeOK
  <2>3. CASE Skip(j)
    BY <1>4, <2>1, <2>3 DEF Skip, TypeOK, Job
  <2> QED BY <1>4, <2>1, <2>2, <2>3, JobMoves DEF InOrder
<1> QED BY <1>1, <1>2, <1>3, <1>4 DEF InOrder

\* The outputs are fixed for those that wait for the plan.
LEMMA OutputsStay ==
  ASSUME TypeOK, InOrder, [Next]_vars, Ended("plan")
  PROVE  outputs' = outputs
BY WritersOf DEF Plan, Running, Ended, EndStates

LEMMA PlannedStep == TypeOK /\ InOrder /\ Planned /\ [Next]_vars => Planned'
<1> SUFFICES ASSUME TypeOK, InOrder, Planned, [Next]_vars, Succeeded("plan")'
             PROVE  (Validates(ManifestIn("plan")) /\ outputs = Outputs(request.caller, ManifestIn("plan")))'
  BY DEF Planned
<1>1. request' = request /\ "plan" \in Jobs
  BY RequestStays, JobNames
<1>2. CASE job'["plan"] = job["plan"]
  <2>1. Ended("plan") /\ Succeeded("plan")
    BY <1>2 DEF Succeeded, Ended, EndStates
  <2> QED BY <1>1, <1>2, <2>1, OutputsStay
          DEF Planned, ManifestIn, Validates, Dispatches
<1>3. CASE job'["plan"] # job["plan"]
  <2>1. Plan
    <3>1. CASE Start("plan") \/ Skip("plan")
      BY <1>1, <3>1 DEF Start, Skip, Succeeded, TypeOK, Job
    <3>2. CASE job["plan"].state = "running"
      <4>1. Running("plan", "work")
        BY <3>2 DEF InOrder, Running
      <4>2. ASSUME NEW j \in Jobs, Start(j) \/ Skip(j) \/ Cut(j) \/ RunnerLost(j)
            PROVE  FALSE
        BY <1>1, <1>3, <3>2, <4>2
           DEF Start, Skip, Cut, RunnerLost, Fails, End, Succeeded, TypeOK, Job
      <4>3. ASSUME NEW j \in Jobs, Step(j), ~Plan
            PROVE  FALSE
        BY <1>1, <1>3, <3>2, <4>1, <4>3, JobNames
           DEF Step, Route, Prepare, PrepareRefused, RunStage, Conclude, Pack, Restore, RunCase,
               RunAggregate, ExecuteSpec, SpecRefused, Upload, Running, Fails, To, End, TypeOK, Job
      <4>4. CASE BundleExpires \/ BranchMoves \/ UNCHANGED vars
        BY <1>3, <4>4 DEF BundleExpires, BranchMoves, vars
      <4> QED BY <4>2, <4>3, <4>4 DEF Next
    <3> QED BY <1>1, <1>3, <3>1, <3>2, JobMoves
  <2>2. job["plan"].at = job'["plan"].at /\ job'["plan"].state = "success"
    BY <1>1, <2>1 DEF Plan, End, Succeeded, TypeOK, Job
  <2>3. Validates(ManifestIn("plan")) /\ outputs' = Outputs(request.caller, ManifestIn("plan"))
    BY <1>1, <2>1, <2>2 DEF Plan, End, TypeOK, Job
  <2> QED BY <1>1, <2>2, <2>3 DEF ManifestIn, Validates, Dispatches
<1> QED BY <1>2, <1>3

\* A job is moved by a step of its own.
LEMMA OwnMoves ==
  ASSUME TypeOK, [Next]_vars, NEW k \in Jobs, job'[k] # job[k]
  PROVE  Start(k) \/ Skip(k) \/ Cut(k) \/ RunnerLost(k) \/ Step(k)
<1>1. ASSUME NEW j \in Jobs, Start(j) \/ Skip(j) \/ Cut(j) \/ RunnerLost(j)
      PROVE  j = k
  BY <1>1 DEF Start, Skip, Cut, RunnerLost, Fails, End, TypeOK
<1>2. ASSUME NEW j \in Jobs, Step(j)
      PROVE  j = k
  BY <1>2, JobNames
     DEF Step, Route, Plan, Prepare, PrepareRefused, RunStage, Conclude, Pack, Restore, RunCase,
         RunAggregate, ExecuteSpec, SpecRefused, Upload, Fails, To, End, TypeOK
<1>3. CASE BundleExpires \/ BranchMoves \/ UNCHANGED vars
  BY <1>3 DEF BundleExpires, BranchMoves, vars
<1> QED BY <1>1, <1>2, <1>3 DEF Next

\* Who ended before prepare, and before a case or the aggregate.
LEMMA PrepareNeeds ==
  /\ Needs("prepare") = {"plan"}
  /\ \A j \in Cases \cup {"aggregate"} : {"plan", "prepare"} \subseteq Needs(j)
  /\ \A j \in Cases \cup {"aggregate"} : Runs(j) => Succeeded("prepare")
BY ConstantsAssumption DEF Needs, Runs

LEMMA PreparedStep == TypeOK /\ InOrder /\ Prepared /\ [Next]_vars => Prepared'
<1> DEFINE Past == \/ Running("prepare", "pack")
                   \/ Running("prepare", "upload") /\ job["prepare"].ok
                   \/ Succeeded("prepare")
           Kept == /\ evidence["prepare"] = "PASS" /\ outputs.prepare
                   /\ AtBase("prepare") /\ Complete(ManifestIn("prepare"))
<1> SUFFICES ASSUME TypeOK, InOrder, Prepared, [Next]_vars, Past'
             PROVE  Kept' /\ (Succeeded("prepare")' => uploaded'["prepare"] = "PASS")
  BY DEF Prepared
<1>1. request' = request /\ "prepare" \in Jobs /\ Past' \in BOOLEAN
  BY RequestStays, JobNames
<1>2. job["prepare"].state # "waiting" => outputs' = outputs
  BY <1>1, PrepareNeeds, OutputsStay DEF InOrder
<1>3. ASSUME ~Running("prepare", "work"), Past, job'["prepare"].at = job["prepare"].at
      PROVE  Kept'
  <2>1. evidence'["prepare"] = evidence["prepare"] /\ stages' = stages
    BY <1>1, <1>3, WritersOf DEF RunStage
  <2>2. outputs' = outputs
    BY <1>2, <1>3 DEF Running, Succeeded
  <2>3. Kept
    BY <1>3 DEF Prepared
  <2> QED BY <1>1, <1>3, <2>1, <2>2, <2>3 DEF AtBase, Complete, ManifestIn
<1>4. CASE job'["prepare"] = job["prepare"]
  <2>1. Past
    BY <1>4 DEF Running, Succeeded
  <2>2. ~Running("prepare", "work")
    BY <2>1 DEF Running, Succeeded
  <2>3. Succeeded("prepare")' => Succeeded("prepare") /\ uploaded'["prepare"] = uploaded["prepare"]
    BY <1>1, <1>4, WritersOf DEF Succeeded, Running
  <2> QED BY <1>3, <1>4, <2>1, <2>2, <2>3 DEF Prepared
<1>5. CASE Start("prepare") \/ Skip("prepare") \/ Cut("prepare") \/ RunnerLost("prepare")
           \/ PrepareRefused
  BY <1>1, <1>5, JobNames
     DEF Start, Skip, Cut, RunnerLost, PrepareRefused, Fails, End, Running, Succeeded, FirstStep,
         TypeOK, Job
<1>6. CASE Conclude
  <2>1. Complete(ManifestIn("prepare"))
    BY <1>1, <1>6 DEF Conclude, Fails, Running, Succeeded, TypeOK, Job
  <2>2. /\ job'["prepare"].at = job["prepare"].at /\ job'["prepare"].state = "running"
        /\ evidence'["prepare"] = "PASS"
    BY <1>1, <1>6, <2>1 DEF Conclude, To, Running, TypeOK, Job
  <2>3. outputs' = outputs /\ stages' = stages /\ outputs.prepare /\ AtBase("prepare")
    BY <1>6 DEF Conclude, PrepareAccepted
  <2> QED BY <1>1, <2>1, <2>2, <2>3 DEF AtBase, Complete, ManifestIn, Succeeded
<1>7. CASE Pack
  <2>1. /\ job'["prepare"].at = job["prepare"].at /\ job'["prepare"].state = "running"
    BY <1>1, <1>7 DEF Pack, Fails, To, Running, TypeOK, Job
  <2> QED BY <1>3, <1>7, <2>1 DEF Pack, Running, Succeeded
<1>8. CASE Upload("prepare")
  <2>1. /\ job'["prepare"].at = job["prepare"].at
        /\ job'["prepare"].state = IF job["prepare"].ok THEN "success" ELSE "failure"
    BY <1>1, <1>8 DEF Upload, End, TypeOK, Job
  <2>2. Running("prepare", "upload") /\ job["prepare"].ok
    BY <1>8, <2>1 DEF Upload, Running, Succeeded
  <2>3. uploaded'["prepare"] = evidence["prepare"]
    BY <1>1, <1>8 DEF Upload, TypeOK
  <2>4. Kept' /\ evidence["prepare"] = "PASS"
    BY <1>3, <2>1, <2>2 DEF Running, Prepared
  <2> QED BY <2>3, <2>4
<1>9. ASSUME Step("prepare"), job'["prepare"] # job["prepare"]
      PROVE  PrepareRefused \/ Conclude \/ Pack \/ Upload("prepare")
  BY <1>1, <1>9, JobNames DEF Step, Prepare, RunStage
<1> QED BY <1>1, <1>4, <1>5, <1>6, <1>7, <1>8, <1>9, OwnMoves

LEMMA RanBehindStep == TypeOK /\ RanBehind /\ [Next]_vars => RanBehind'
<1> SUFFICES ASSUME TypeOK, RanBehind, [Next]_vars
             PROVE  RanBehind'
  OBVIOUS
<1>1. request' = request /\ (Succeeded("prepare") => Succeeded("prepare")')
  BY RequestStays, EndedStays, JobNames DEF Succeeded, Ended, EndStates
<1>2. ASSUME NEW j \in Cases \cup {"aggregate"}, Alive(j)'
      PROVE  Succeeded("prepare")
  <2>1. j \in Jobs
    BY JobNames
  <2>2. Alive(j) \/ Start(j)
    BY <1>2, <2>1, JobMoves DEF Skip, Alive, TypeOK, Job
  <2> QED BY <2>2, PrepareNeeds DEF Start, RanBehind
<1>3. ASSUME NEW r \in ran'
      PROVE  r.at = request.base /\ (r.job # "prepare" => Succeeded("prepare"))
  <2>1. CASE r \in ran
    BY <2>1 DEF RanBehind
  <2>2. CASE RunStage
    BY <1>3, <2>2 DEF RunStage, PrepareAccepted, AtBase, RanBehind
  <2>3. ASSUME NEW j \in Cases \cup {"aggregate"}, Running(j, "work"), ExecuteSpec(j)
        PROVE  r.at = request.base /\ (r.job # "prepare" => Succeeded("prepare"))
    BY <1>3, <2>3 DEF ExecuteSpec, AtBase, RanBehind, Alive, Running
  <2>4. ran' = ran \/ RunStage
        \/ \E j \in Cases \cup {"aggregate"} : Running(j, "work") /\ ExecuteSpec(j)
    BY DEF Next, vars, Start, Skip, Cut, RunnerLost, BundleExpires,
       BranchMoves, Step, Route,
           Plan, Prepare, PrepareRefused, Conclude, Pack, Restore, RunCase, RunAggregate,
           SpecRefused, Upload
  <2> QED BY <1>3, <2>1, <2>2, <2>3, <2>4
<1> QED BY <1>1, <1>2, <1>3 DEF RanBehind

LEMMA RecordedStep == TypeOK /\ Recorded /\ [Next]_vars => Recorded'
<1> SUFFICES ASSUME TypeOK, Recorded, [Next]_vars, NEW j \in Cases \cup {"aggregate"}
             PROVE  LET idle == j = "aggregate" /\ ~ManifestIn(j)'.aggregate IN
                    /\ Running(j, "upload")' /\ job'[j].ok => evidence'[j] = "PASS" \/ idle
                    /\ Succeeded(j)' => uploaded'[j] = "PASS" \/ idle
  BY DEF Recorded
<1>1. request' = request /\ j \in Jobs /\ j \notin {"route", "plan", "prepare"}
  BY RequestStays, JobNames
<1>2. CASE job'[j] = job[j]
  BY <1>1, <1>2, WritersOf DEF Recorded, Running, Succeeded, ManifestIn
<1>3. CASE Start(j) \/ Skip(j) \/ Cut(j) \/ RunnerLost(j) \/ SpecRefused(j) \/ Restore(j)
  BY <1>1, <1>3
     DEF Start, Skip, Cut, RunnerLost, SpecRefused, Restore, Fails, To, End, Running, Succeeded,
         FirstStep, TypeOK, Job
<1>4. CASE ExecuteSpec(j) /\ Running(j, "work")
  <2>1. PICK verdict \in {"PASS", "FAIL"} :
          /\ evidence' = [evidence EXCEPT ![j] = verdict]
          /\ job' = [job EXCEPT ![j].step = "upload", ![j].ok = Passes(verdict)]
    BY <1>4 DEF ExecuteSpec
  <2>2. job'[j].ok = Passes(verdict) /\ evidence'[j] = verdict /\ job'[j].state = "running"
    BY <1>1, <1>4, <2>1 DEF Running, TypeOK, Job
  <2> QED BY <2>2 DEF Passes, Succeeded
<1>5. CASE RunAggregate /\ j = "aggregate" /\ ~ManifestIn(j).aggregate
  <2>1. job'[j].at = job[j].at /\ job'[j].state = "running"
    BY <1>1, <1>5 DEF RunAggregate, To, Running, TypeOK, Job
  <2> QED BY <1>1, <1>5, <2>1 DEF ManifestIn, Succeeded
<1>6. CASE Upload(j)
  <2>1. /\ job'[j].at = job[j].at /\ uploaded'[j] = evidence[j]
        /\ job'[j].state = IF job[j].ok THEN "success" ELSE "failure"
    BY <1>1, <1>6 DEF Upload, End, TypeOK, Job
  <2> QED BY <1>1, <1>6, <2>1 DEF Upload, Recorded, ManifestIn, Running, Succeeded
<1>7. ASSUME Step(j)
      PROVE  \/ SpecRefused(j) \/ Restore(j) \/ Upload(j)
             \/ ExecuteSpec(j) /\ Running(j, "work")
             \/ RunAggregate /\ j = "aggregate" /\ ~ManifestIn(j).aggregate
  BY <1>1, <1>7 DEF Step, RunCase, RunAggregate
<1> QED BY <1>1, <1>2, <1>3, <1>4, <1>5, <1>6, <1>7, OwnMoves

LEMMA RightlySkippedStep == TypeOK /\ InOrder /\ RightlySkipped /\ [Next]_vars => RightlySkipped'
<1> SUFFICES ASSUME TypeOK, InOrder, RightlySkipped, [Next]_vars,
                    NEW j \in Jobs \ {"route"}, job'[j].state = "skipped"
             PROVE  ~Runs(j)'
  BY DEF RightlySkipped
<1>1. /\ \A k \in Needs(j) : Ended(k)
      /\ ~Runs(j)
  <2>1. job[j].state = "skipped" \/ Skip(j)
    BY JobMoves DEF Start, TypeOK, Job
  <2> QED BY <2>1 DEF InOrder, RightlySkipped, Skip
<1>2. Needs(j) \subseteq Jobs
  BY JobNames DEF Needs
<1>3. \A k \in Needs(j) : Succeeded(k)' = Succeeded(k)
  BY <1>1, <1>2, EndedStays DEF Succeeded
<1>4. j \in Cases \cup {"aggregate"} => outputs' = outputs
  BY <1>1, PrepareNeeds, OutputsStay
<1>5. Runs(j)' = Runs(j)
  <2>1. CASE j = "aggregate"
    BY <1>3, <1>4, <2>1, PrepareNeeds DEF Runs
  <2>2. CASE j # "aggregate"
    BY <1>3, <1>4, <2>2 DEF Runs
  <2> QED BY <2>1, <2>2
<1> QED BY <1>1, <1>5

-----------------------------------------------------------------------------
(* The theorems.                                                            *)

LEMMA InvariantInit == Init => Invariant
<1> SUFFICES ASSUME Init PROVE Invariant
  OBVIOUS
<1>1. \A j \in Jobs : job[j].state = "waiting"
  BY DEF Init, Waiting
<1>2. Located /\ InOrder /\ Planned /\ RanBehind /\ RightlySkipped
  BY <1>1, JobNames
     DEF Init, Located, InOrder, Planned, RanBehind, RightlySkipped, Alive, Succeeded
<1>3. Prepared /\ Recorded
  BY <1>1, JobNames DEF Prepared, Recorded, Running, Succeeded
<1> QED BY <1>2, <1>3, TypeInit DEF Invariant

LEMMA InvariantStep == Invariant /\ [Next]_vars => Invariant'
BY TypeStep, LocatedStep, InOrderStep, PlannedStep, PreparedStep,
   RanBehindStep, RecordedStep,
   RightlySkippedStep DEF Invariant

\* All the parts hold in every state of a call.
THEOREM AlwaysInvariant == Spec => []Invariant
BY InvariantInit, InvariantStep, PTL DEF Spec

\* The variables have their types: what a job does to its record, and the
\* plan to the outputs, keeps them in form.
THEOREM TypeCorrect == Spec => []TypeOK
<1>1. Invariant => TypeOK
  BY DEF Invariant
<1> QED BY <1>1, AlwaysInvariant, PTL

\* When prepare has succeeded, the request names a commit and prepare is there.
LEMMA PreparedBase ==
  ASSUME Invariant, Succeeded("prepare")
  PROVE  /\ request.base = job["prepare"].at /\ request.base \in Commits
         /\ request.base # Branch
         /\ ManifestIn("prepare") = request.history[request.base]
BY JobNames, ConstantsAssumption
   DEF Invariant, Located, Prepared, Alive, Succeeded, AtBase, ManifestIn

\* Wherever the branch moves between the checkouts of the jobs, every command
\* runs at the requested commit, those of the cases and of the aggregate behind
\* the whole of prepare (runner.py:75, matrix.py:429).
THEOREM CommandsArePinned == Spec => []Pinned
<1>1. Invariant => Pinned
  <2> SUFFICES ASSUME Invariant, NEW r \in ran
               PROVE  LET declared == request.history[request.base].prepare.stages IN
                      /\ r.at = request.base
                      /\ r.job # "prepare" =>
                           /\ Len(stages) = Len(declared)
                           /\ \A i \in DOMAIN stages : stages[i] = "PASS"
    BY DEF Pinned
  <2>1. r.at = request.base /\ (r.job # "prepare" => Succeeded("prepare"))
    BY DEF Invariant, RanBehind
  <2>2. ASSUME Succeeded("prepare")
        PROVE  LET declared == request.history[request.base].prepare.stages IN
               /\ Len(stages) = Len(declared)
               /\ \A i \in DOMAIN stages : stages[i] = "PASS"
    <3> DEFINE declared == request.history[request.base].prepare.stages
    <3>1. stages = [i \in DOMAIN declared |-> "PASS"]
      BY <2>2, PreparedBase DEF Invariant, Prepared, Complete
    <3>2. stages \in Seq({"PASS", "FAIL"}) /\ declared \in Seq(STRING)
      <4>1. request.history[request.base] \in Manifests
        BY <2>2, PreparedBase, HistoriesAssumption DEF Invariant, TypeOK
      <4> QED BY <4>1 DEF Invariant, TypeOK, Manifests
    <3> HIDE DEF declared
    <3>3. Len(stages) = Len(declared)
      BY <3>1, <3>2
    <3> QED BY <3>1, <3>3 DEF declared
  <2> QED BY <2>1, <2>2
<1> QED BY <1>1, AlwaysInvariant, PTL

\* A call that ends without a failed job has kept all the evidence its manifest
\* declares, and all of it passed: a case is skipped only if the plan did not
\* list it, and a plan whose outputs lack it lets prepare fail
\* (matrix.py:515, runner.py:167).
THEOREM GreenIsWhole == Spec => []SuccessIsWhole
<1>1. Invariant => SuccessIsWhole
  <2> DEFINE m == request.history[request.base]
  <2> SUFFICES ASSUME Invariant, Succeeded("plan"),
                      \A j \in Jobs : Ended(j) /\ job[j].state # "failure"
               PROVE  /\ uploaded["prepare"] = "PASS"
                      /\ \A i \in DOMAIN m.cases : uploaded[m.cases[i]] = "PASS"
                      /\ m.aggregate => uploaded["aggregate"] = "PASS"
    BY DEF SuccessIsWhole
  <2>1. \A j \in Jobs \ {"route"} : Runs(j) => Succeeded(j)
    BY DEF Invariant, RightlySkipped, Ended, EndStates, Succeeded
  <2>2. Succeeded("prepare")
    <3>1. Runs("prepare")
      BY JobNames DEF Runs, Needs
    <3> QED BY <2>1, <3>1, JobNames
  <2>3. uploaded["prepare"] = "PASS" /\ outputs.prepare
    BY <2>2 DEF Invariant, Prepared
  <2>4. ManifestIn("plan") = m /\ request.base # Branch
    BY <2>2, PreparedBase, JobNames DEF Invariant, Located, Alive, Succeeded,
       AtBase, ManifestIn
  <2>5. outputs = Outputs(request.caller, m) /\ Validates(m)
    BY <2>4 DEF Invariant, Planned
  <2>6. outputs.cases = ToSet(m.cases) /\ outputs.aggregate = m.aggregate
    <3>1. request.caller = "printed"
      BY <2>3, <2>5 DEF Outputs
    <3> QED BY <2>5, <3>1 DEF Outputs
  <2>7. m.cases \in Seq(Cases)
    <3>1. m \in Manifests
      BY <2>2, PreparedBase, HistoriesAssumption DEF Invariant, TypeOK
    <3> QED BY <2>5, <3>1, ValidCases
  <2>8. ASSUME NEW i \in DOMAIN m.cases
        PROVE  uploaded[m.cases[i]] = "PASS"
    <3> DEFINE c == m.cases[i]
    <3>1. c \in Cases /\ c \in outputs.cases
      BY <2>6, <2>7 DEF ToSet
    <3> HIDE DEF c
    <3>2. c \in Jobs \ {"route"} /\ c \notin {"route", "plan", "prepare", "aggregate"}
      BY <3>1, JobNames
    <3>3. Runs(c)
      BY <2>2, <3>1, <3>2 DEF Runs, Needs
    <3>4. uploaded[c] = "PASS"
      BY <2>1, <3>1, <3>2, <3>3 DEF Invariant, Recorded
    <3> QED BY <3>4 DEF c
  <2>9. ASSUME m.aggregate
        PROVE  uploaded["aggregate"] = "PASS"
    <3>1. Succeeded("aggregate")
      BY <2>1, <2>2, <2>6, <2>9, JobNames DEF Runs
    <3>2. ManifestIn("aggregate") = m
      BY <2>4, <3>1, JobNames DEF Invariant, Located, Alive, Succeeded, AtBase,
         ManifestIn
    <3> QED BY <2>9, <3>1, <3>2 DEF Invariant, Recorded
  <2> QED BY <2>3, <2>8, <2>9
<1> QED BY <1>1, AlwaysInvariant, PTL

-----------------------------------------------------------------------------
(***************************************************************************)
(* Finding a run.                                                          *)
(*                                                                         *)
(* What is invariant: only this request and earlier attempts show its      *)
(* correlation id, and the earlier ones are older (RunsOK); a caller bound *)
(* to a run looks at that one only (BoundOK); and a run that was visible   *)
(* has been collected or is on a page still to come (EnumerationOK).  The  *)
(* place of a run in the listing is the number of listed runs above it,    *)
(* its rank; new runs only make it grow (RankGrows), and a page shows the  *)
(* ranks it should (PageForm), so no run slips from a page to come to one  *)
(* already read.                                                           *)
(***************************************************************************)

\* The runs of S above r: as many as GitHub lists before it.
Above(S, r) == {s \in S : s > r}

\* Only this request and earlier attempts carry its correlation id, and an
\* earlier attempt was created before this request was made.
RunsOK ==
  \A r \in 1..lastRun :
    /\ runs[r].title = "mine" => runs[r].owner \in {"request", "earlier"}
    /\ runs[r].owner = "request" => runs[r].title = "mine"
    /\ runs[r].owner = "earlier" =>
         runs[r].created < IF pc = "start" THEN clock ELSE requested

\* A caller that is bound to a run is bound to its own and looks at no other.
BoundOK ==
  /\ bound # 0 => mode = "direct" /\ runs[bound].owner = "request"
  /\ pc \in {"start", "posting"} => bound = 0 /\ result = NoResult
  /\ mode = "direct" /\ pc \notin {"start", "posting"} => bound # 0
  /\ pc = "listing" => bound = 0
  /\ pc = "listed" /\ bound # 0 => collected = <<bound>> /\ complete

\* The run that was visible has been collected, or is still on a page to come.
EnumerationOK ==
  visible /\ bound = 0 /\ pc \in {"listing", "listed"} =>
    \E r \in Listed :
      /\ runs[r].owner = "request" /\ runs[r].head
      /\ \/ \E i \in DOMAIN collected : collected[i] = r
         \/ pc = "listing" /\ (page - 1) * PageSize <= Cardinality(Above(Listed, r))
         \/ pc = "listed" /\ ~complete

\* What the last observation reported stays true of the run it named.
ResultOK ==
  /\ result.status \in {"MATCHED_ACTIVE", "MATCHED_TERMINAL"} =>
       /\ result.run \in 1..lastRun
       /\ runs[result.run].owner = "request" /\ runs[result.run].head
  /\ VisibleIsFound

\* The inductive invariant.
WaitInvariant == WaitTypeOK /\ RunsOK /\ BoundOK /\ EnumerationOK /\ ResultOK

\* A set of numbers has a least one.
LEMMA Least ==
  ASSUME NEW S, S \subseteq Nat, S # {}
  PROVE  \E n \in S : \A m \in S : n <= m
<1>1. PICK n \in S : \A m \in S : ~(<<m, n>> \in OpToRel(<, Nat))
  BY NatLessThanWellFounded, WFMin
<1>2. \A m \in S : ~(m < n)
  BY <1>1 DEF OpToRel
<1> QED BY <1>2

\* GitHub stamps a run with the second it is created in.
LEMMA WholeSecond ==
  ASSUME NEW n \in Nat, NEW d \in Nat \ {0}
  PROVE  (n \div d) * d \in 0..n
<1>1. /\ n \div d \in Nat /\ n % d \in 0..(d - 1)
      /\ n = d * (n \div d) + (n % d)
  OBVIOUS
<1>2. n \div d \in Nat /\ (n \div d) * d \in Nat
  BY <1>1
<1>3. (n \div d) * d = d * (n \div d)
  BY <1>1
<1> QED BY <1>1, <1>2, <1>3

\* The runs, numbered from 1, get one more.
LEMMA Appended ==
  ASSUME NEW n \in Nat, NEW f \in [1..n -> Run], NEW x \in Run
  PROVE  /\ Append(f, x) \in [1..(n + 1) -> Run]
         /\ Append(f, x)[n + 1] = x
         /\ \A i \in 1..n : Append(f, x)[i] = f[i]
<1>1. f \in Seq(Run) /\ Len(f) = n
  OBVIOUS
<1>2. Append(f, x) \in Seq(Run) /\ Len(Append(f, x)) = n + 1
  BY <1>1
<1>3. Append(f, x)[n + 1] = x
  BY <1>1
<1>4. \A i \in 1..n : Append(f, x)[i] = f[i]
  BY <1>1
<1>5. \A s \in Seq(Run) : s \in [1..Len(s) -> Run]
  OBVIOUS
<1> QED BY <1>2, <1>3, <1>4, <1>5

-----------------------------------------------------------------------------
(* Ranks.                                                                   *)

\* And a bounded one a greatest.
LEMMA Greatest ==
  ASSUME NEW n \in Nat, NEW S \in SUBSET (1..n), S # {}
  PROVE  \E r \in S : \A s \in S : s <= r
<1> DEFINE D == {n - s : s \in S}
<1>1. D \subseteq Nat /\ D # {}
  <2>1. \A s \in S : n - s \in Nat
    OBVIOUS
  <2> QED BY <2>1
<1>2. PICK d \in D : \A m \in D : d <= m
  <2> HIDE DEF D
  <2> QED BY <1>1, Least
<1>3. PICK r \in S : d = n - r
  BY <1>2
<1>4. ASSUME NEW s \in S, ~(s <= r)
      PROVE  FALSE
  <2>1. n - s \in D /\ n - s < d
    BY <1>3, <1>4
  <2> QED BY <1>2, <2>1
<1> QED BY <1>4

\* There are finitely many runs above another.
LEMMA AboveFinite ==
  ASSUME NEW n \in Nat, NEW S \in SUBSET (1..n), NEW r
  PROVE  /\ IsFiniteSet(S) /\ Cardinality(S) \in Nat
         /\ IsFiniteSet(Above(S, r)) /\ Cardinality(Above(S, r)) \in Nat
         /\ Cardinality(Above(S, r)) <= Cardinality(S)
<1>0. IsFiniteSet(1..n)
  BY FS_Interval
<1>1. IsFiniteSet(S)
  BY <1>0, FS_Subset
<1>2. Above(S, r) \in SUBSET S
  BY DEF Above
<1> QED BY <1>1, <1>2, FS_Subset, FS_CardinalityType

\* There is a run at every rank, and only one.
LEMMA RankTaken ==
  ASSUME NEW n \in Nat, NEW S \in SUBSET (1..n),
         NEW m \in Nat, m < Cardinality(S)
  PROVE  \E r \in S : Cardinality(Above(S, r)) = m
<1>0. /\ Cardinality(S) \in Nat
      /\ \A r : IsFiniteSet(Above(S, r)) /\ Cardinality(Above(S, r)) \in Nat
  BY AboveFinite
<1>a. \A s \in S : s \in Int
  OBVIOUS
<1> DEFINE Free == {k \in 0..(Cardinality(S) - 1) :
                      ~\E r \in S : Cardinality(Above(S, r)) = k}
<1>1. SUFFICES ASSUME Free # {}
               PROVE  FALSE
  BY <1>0
<1>2. Free \subseteq Nat
  BY <1>0
<1>3. PICK k \in Free : \A j \in Free : k <= j
  BY <1>1, <1>2, Least
<1>4. k \in Nat /\ k < Cardinality(S) /\ S # {}
  <2>1. k \in Nat /\ k < Cardinality(S)
    BY <1>0
  <2> QED BY <2>1, FS_EmptySet
<1>5. CASE k = 0
  <2>1. PICK r \in S : \A s \in S : s <= r
    BY <1>4, Greatest
  <2>2. Above(S, r) = {}
    <3>1. \A s \in S : ~(s > r)
      BY <1>a, <2>1
    <3> QED BY <3>1 DEF Above
  <2> QED BY <1>3, <1>5, <2>2, FS_EmptySet
<1>6. CASE k > 0
  <2>1. k - 1 \in 0..(Cardinality(S) - 1) /\ ~(k <= k - 1)
    BY <1>0, <1>4, <1>6
  <2>2. PICK r \in S : Cardinality(Above(S, r)) = k - 1
    BY <1>3, <2>1
  <2> DEFINE L == {s \in S : s < r}
  <2>3. IsFiniteSet(Above(S, r) \cup {r}) /\ Cardinality(Above(S, r) \cup {r}) = k
    <3>1. ~(r > r)
      BY <1>a
    <3>2. r \notin Above(S, r)
      BY <3>1 DEF Above
    <3>3. /\ IsFiniteSet(Above(S, r) \cup {r})
          /\ Cardinality(Above(S, r) \cup {r}) = Cardinality(Above(S, r)) + 1
      <4>1. IsFiniteSet(Above(S, r))
        BY <1>0
      <4> QED BY <3>2, <4>1, FS_AddElement
    <3> QED BY <1>4, <2>2, <3>3
  <2>4. L # {}
    <3>1. SUFFICES ASSUME L = {}
                   PROVE  FALSE
      OBVIOUS
    <3>2. S = Above(S, r) \cup {r}
      <4>1. \A s \in S : s > r \/ s = r
        BY <1>a, <3>1
      <4> QED BY <4>1 DEF Above
    <3> QED BY <1>4, <2>3, <3>2
  <2>5. PICK q \in L : \A s \in L : s <= q
    BY <2>4, Greatest
  <2>6. Above(S, q) = Above(S, r) \cup {r}
    <3>1. \A s \in S : s > q <=> s > r \/ s = r
      BY <1>a, <2>5
    <3>2. q \in S /\ r \in S
      BY <2>5
    <3> QED BY <3>1, <3>2 DEF Above
  <2> QED BY <1>3, <2>3, <2>5, <2>6
<1> QED BY <1>4, <1>5, <1>6

\* No two runs have the same rank.
LEMMA RankUnique ==
  ASSUME NEW n \in Nat, NEW S \in SUBSET (1..n), NEW r \in S, NEW q \in S,
         Cardinality(Above(S, r)) = Cardinality(Above(S, q))
  PROVE  r = q
<1>a. \A s \in S : s \in Int
  OBVIOUS
<1>1. ASSUME NEW x \in S, NEW y \in S, x < y,
             Cardinality(Above(S, x)) = Cardinality(Above(S, y))
      PROVE  FALSE
  <2>0. IsFiniteSet(Above(S, x))
    BY AboveFinite
  <2>1. Above(S, y) \in SUBSET Above(S, x) /\ y \in Above(S, x) /\ y \notin Above(S, y)
    <3>1. \A s \in S : s > y => s > x
      BY <1>a, <1>1
    <3>2. ~(y > y) /\ y > x
      BY <1>a, <1>1
    <3> QED BY <3>1, <3>2 DEF Above
  <2>2. Above(S, x) = Above(S, y)
    BY <1>1, <2>0, <2>1, FS_Subset
  <2> QED BY <2>1, <2>2
<1>2. r < q \/ q < r \/ r = q
  BY <1>a
<1> QED BY <1>1, <1>2

-----------------------------------------------------------------------------
(* Types.                                                                   *)

\* A creation time is one, and not later than now.
LEMMA Stamp ==
  ASSUME WaitTypeOK
  PROVE  CreatedAt \in 0..clock /\ CreatedAt \in Time
<1>1. clock \in Nat /\ Second \in Nat \ {0} /\ clock <= MaxTime /\ MaxTime \in Nat
  BY WaitAssumption DEF WaitTypeOK, Time
<1>2. CreatedAt \in 0..clock
  BY <1>1, WholeSecond DEF CreatedAt
<1> QED BY <1>1, <1>2 DEF Time

\* GitHub creates a run, and leaves the others as they are.
LEMMA NewRunForm ==
  ASSUME WaitTypeOK, NEW new \in Run, lastRun < MaxRuns,
         lastRun' = lastRun + 1, runs' = Append(runs, new)
  PROVE  /\ lastRun' \in 1..MaxRuns
         /\ runs' \in [1..lastRun' -> Run]
         /\ \A r \in 1..lastRun : runs'[r] = runs[r]
         /\ runs'[lastRun'] = new
<1>1. /\ lastRun \in Nat /\ runs \in [1..lastRun -> Run]
      /\ lastRun' \in 1..MaxRuns
  BY WaitAssumption DEF WaitTypeOK
<1>2. /\ Append(runs, new) \in [1..(lastRun + 1) -> Run]
      /\ Append(runs, new)[lastRun + 1] = new
      /\ \A i \in 1..lastRun : Append(runs, new)[i] = runs[i]
  BY <1>1, Appended
<1> QED BY <1>1, <1>2

\* Who asked GitHub for the run it creates.
LEMMA NewRunOf ==
  ASSUME WaitTypeOK
  PROVE  /\ Post => \E new \in Run :
              /\ lastRun < MaxRuns /\ lastRun' = lastRun + 1 /\ runs' = Append(runs, new)
              /\ new.owner = "request" /\ new.title = "mine"
         /\ EarlierRun => \E new \in Run :
              /\ lastRun < MaxRuns /\ lastRun' = lastRun + 1 /\ runs' = Append(runs, new)
              /\ new.owner = "earlier" /\ new.title = "mine" /\ new.created = CreatedAt
         /\ OtherRun => \E new \in Run :
              /\ lastRun < MaxRuns /\ lastRun' = lastRun + 1 /\ runs' = Append(runs, new)
              /\ new.owner = "other" /\ new.title # "mine"
<1> DEFINE new(owner, title, head) ==
      [owner |-> owner, title |-> title, head |-> head,
       created |-> CreatedAt, done |-> FALSE, listed |-> FALSE]
<1>1. \A owner \in Owner, title \in Correlation, head \in BOOLEAN :
        new(owner, title, head) \in Run
  BY Stamp DEF Run
<1>2. ASSUME Post
      PROVE  \E head \in BOOLEAN :
               /\ lastRun < MaxRuns /\ lastRun' = lastRun + 1
               /\ runs' = Append(runs, new("request", "mine", head))
  BY <1>2 DEF Post, NewRun
<1>3. ASSUME EarlierRun
      PROVE  \E head \in BOOLEAN :
               /\ lastRun < MaxRuns /\ lastRun' = lastRun + 1
               /\ runs' = Append(runs, new("earlier", "mine", head))
  BY <1>3 DEF EarlierRun, NewRun
<1>4. ASSUME OtherRun
      PROVE  \E title \in {"other", Absent} :
               /\ lastRun < MaxRuns /\ lastRun' = lastRun + 1
               /\ runs' = Append(runs, new("other", title, TRUE))
  BY <1>4 DEF OtherRun, NewRun
<1> QED BY <1>1, <1>2, <1>3, <1>4 DEF Owner, Correlation, Absent

\* What a step does to a run GitHub has: it may list it, or end it.
LEMMA RunsStay ==
  ASSUME WaitTypeOK, [WaitNext]_waitVars
  PROVE  /\ lastRun' \in lastRun..MaxRuns /\ lastRun' <= lastRun + 1
         /\ runs' \in [1..lastRun' -> Run]
         /\ \A r \in 1..lastRun :
              /\ r \in 1..lastRun'
              /\ runs'[r].owner = runs[r].owner /\ runs'[r].title = runs[r].title
              /\ runs'[r].head = runs[r].head /\ runs'[r].created = runs[r].created
              /\ runs[r].listed => runs'[r].listed
         /\ \A r \in 1..lastRun' : r \in 1..lastRun \/ r = lastRun'
<1>1. /\ lastRun \in Nat /\ MaxRuns \in Nat /\ lastRun <= MaxRuns
      /\ runs \in [1..lastRun -> Run]
  BY WaitAssumption DEF WaitTypeOK
<1>2. CASE UNCHANGED github
  BY <1>1, <1>2 DEF github
<1> DEFINE Creates ==
      \E new \in Run :
        lastRun < MaxRuns /\ lastRun' = lastRun + 1 /\ runs' = Append(runs, new)
<1>3. CASE Creates
  <2>1. PICK new \in Run :
          lastRun < MaxRuns /\ lastRun' = lastRun + 1 /\ runs' = Append(runs, new)
    BY <1>3
  <2>2. /\ lastRun' = lastRun + 1 /\ lastRun' \in 1..MaxRuns
        /\ runs' \in [1..lastRun' -> Run]
        /\ \A r \in 1..lastRun : runs'[r] = runs[r]
    BY <2>1, NewRunForm
  <2> QED BY <1>1, <2>2
<1>4. CASE \E r \in RunId : ListRun(r) \/ EndRun(r)
  <2>1. PICK r \in RunId : ListRun(r) \/ EndRun(r)
    BY <1>4
  <2>2. lastRun' = lastRun /\ r \in 1..lastRun
    BY <1>1, <2>1 DEF ListRun, EndRun, RunId
  <2>3. \/ runs' = [runs EXCEPT ![r].listed = TRUE]
        \/ runs' = [runs EXCEPT ![r].done = TRUE]
    BY <2>1 DEF ListRun, EndRun
  <2>4. /\ [runs[r] EXCEPT !.listed = TRUE] \in Run
        /\ [runs[r] EXCEPT !.done = TRUE] \in Run
    BY <1>1, <2>2 DEF Run
  <2>5. \A q \in 1..lastRun : runs[q] \in Run
    BY <1>1
  <2>6. /\ runs' \in [1..lastRun -> Run]
        /\ \A q \in 1..lastRun : q # r => runs'[q] = runs[q]
        /\ \/ runs'[r] = [runs[r] EXCEPT !.listed = TRUE]
           \/ runs'[r] = [runs[r] EXCEPT !.done = TRUE]
    BY <1>1, <2>2, <2>3, <2>4
  <2>7. /\ runs'[r].owner = runs[r].owner /\ runs'[r].title = runs[r].title
        /\ runs'[r].head = runs[r].head /\ runs'[r].created = runs[r].created
        /\ runs[r].listed => runs'[r].listed
    BY <2>2, <2>5, <2>6 DEF Run
  <2> QED BY <1>1, <2>2, <2>6, <2>7
<1> QED
  <2>1. Post => Creates
    BY NewRunOf
  <2>2. EarlierRun => Creates
    BY NewRunOf
  <2>3. OtherRun => Creates
    BY NewRunOf
  <2>4. PrepareDispatch \/ BeginObservation \/ GetPage \/ TakeObservation \/ Tick
        \/ UNCHANGED waitVars => UNCHANGED github
    BY DEF PrepareDispatch, BeginObservation, GetPage, TakeObservation, Tick, waitVars
  <2> QED BY <1>2, <1>3, <1>4, <2>1, <2>2, <2>3, <2>4 DEF WaitNext

-----------------------------------------------------------------------------
(* The pages of the enumeration.                                            *)

\* Finitely many runs are listed.
LEMMA ListedOK ==
  ASSUME WaitTypeOK
  PROVE  /\ lastRun \in Nat /\ Listed \in SUBSET (1..lastRun)
         /\ Cardinality(Listed) \in Nat
         /\ \A r : /\ IsFiniteSet(Above(Listed, r))
                   /\ Cardinality(Above(Listed, r)) \in Nat
                   /\ Cardinality(Above(Listed, r)) <= Cardinality(Listed)
<1>1. lastRun \in Nat /\ Listed \in SUBSET (1..lastRun)
  BY WaitAssumption DEF WaitTypeOK, Listed
<1> QED BY <1>1, AboveFinite

\* A run of the listing has fewer runs above it than are listed.
LEMMA RankBelow ==
  ASSUME WaitTypeOK, NEW r \in Listed
  PROVE  Cardinality(Above(Listed, r)) < Cardinality(Listed)
<1>1. IsFiniteSet(Listed)
  BY ListedOK, AboveFinite
<1>2. Above(Listed, r) \in SUBSET Listed /\ r \notin Above(Listed, r)
  <2>1. ~(r > r)
    BY ListedOK
  <2> QED BY <2>1 DEF Above
<1> QED BY <1>1, <1>2, ListedOK, FS_Subset

\* The n-th newest run is listed, and n - 1 runs are above it.
LEMMA NewestForm ==
  ASSUME WaitTypeOK, NEW n \in 1..Cardinality(Listed)
  PROVE  /\ Newest(n) \in Listed
         /\ \A r \in Listed : Cardinality(Above(Listed, r)) = n - 1 => Newest(n) = r
<1>1. n - 1 \in Nat /\ n - 1 < Cardinality(Listed)
  BY ListedOK
<1>2. \E r \in Listed : Cardinality(Above(Listed, r)) = n - 1
  BY <1>1, ListedOK, RankTaken
<1>3. Newest(n) = CHOOSE r \in Listed : Cardinality(Above(Listed, r)) = n - 1
  BY DEF Newest, Above
<1>4. Newest(n) \in Listed /\ Cardinality(Above(Listed, Newest(n))) = n - 1
  BY <1>2, <1>3
<1>5. ASSUME NEW r \in Listed, Cardinality(Above(Listed, r)) = n - 1
      PROVE  Newest(n) = r
  BY <1>4, <1>5, ListedOK, RankUnique
<1> QED BY <1>4, <1>5

\* A page shows listed runs.  One that is not on an earlier page is on this one,
\* or the page is full and it is on a later one.
LEMMA PageForm ==
  ASSUME WaitTypeOK, NEW k \in 1..MaxPages
  PROVE  /\ PageOf(k) \in Seq(1..lastRun)
         /\ \A r \in Listed :
              (k - 1) * PageSize <= Cardinality(Above(Listed, r)) =>
                \/ \E i \in DOMAIN PageOf(k) : PageOf(k)[i] = r
                \/ /\ Len(PageOf(k)) = PageSize
                   /\ k * PageSize <= Cardinality(Above(Listed, r))
<1> DEFINE first == (k - 1) * PageSize
           card == Cardinality(Listed)
           size == IF card <= first THEN 0
                   ELSE IF card < first + PageSize THEN card - first ELSE PageSize
<1>1. k \in Nat \ {0} /\ PageSize \in Nat \ {0} /\ card \in Nat
  BY WaitAssumption, ListedOK
<1>2. k - 1 \in Nat /\ first \in Nat /\ k * PageSize = first + PageSize
  BY <1>1
<1>3. PageOf(k) = [n \in 1..size |-> Newest(first + n)]
  BY DEF PageOf
<1> HIDE DEF first, card
<1>4. size \in Nat /\ size <= PageSize
  BY <1>1, <1>2
<1>5. \A n \in 1..size : first + n \in 1..card
  BY <1>1, <1>2
<1>6. \A n \in 1..size : Newest(first + n) \in 1..lastRun
  <2>1. ASSUME NEW n \in 1..size
        PROVE  Newest(first + n) \in 1..lastRun
    <3>1. first + n \in 1..Cardinality(Listed)
      BY <1>5 DEF card
    <3> QED BY <3>1, NewestForm, ListedOK
  <2> QED BY <2>1
<1>7. PageOf(k) \in Seq(1..lastRun) /\ Len(PageOf(k)) = size /\ DOMAIN PageOf(k) = 1..size
  <2> HIDE DEF size
  <2> QED BY <1>3, <1>4, <1>6
<1>8. ASSUME NEW r \in Listed, first <= Cardinality(Above(Listed, r))
      PROVE  \/ \E i \in DOMAIN PageOf(k) : PageOf(k)[i] = r
             \/ /\ Len(PageOf(k)) = PageSize
                /\ k * PageSize <= Cardinality(Above(Listed, r))
  <2> DEFINE rank == Cardinality(Above(Listed, r))
             i == rank - first + 1
  <2>1. rank \in Nat /\ rank < card /\ first <= rank
    BY <1>8, ListedOK, RankBelow DEF card
  <2> HIDE DEF rank
  <2>2. CASE rank < first + PageSize
    <3>1. i \in 1..size /\ first + i = rank + 1 /\ first + i \in 1..card
      BY <1>1, <1>2, <2>1, <2>2
    <3>2. Newest(first + i) = r
      <4>1. Cardinality(Above(Listed, r)) = (first + i) - 1
        BY <2>1, <3>1 DEF rank
      <4>2. first + i \in 1..Cardinality(Listed)
        BY <3>1 DEF card
      <4> QED BY <4>1, <4>2, NewestForm
    <3> QED BY <1>3, <1>7, <3>1, <3>2
  <2>3. CASE first + PageSize <= rank
    <3>1. size = PageSize
      BY <1>1, <1>2, <2>1, <2>3
    <3> QED BY <1>2, <1>7, <2>3, <3>1 DEF rank
  <2> QED BY <1>1, <1>2, <2>1, <2>2, <2>3
<1> QED BY <1>7, <1>8 DEF first

-----------------------------------------------------------------------------
(* The invariant.                                                           *)

\* An observation names a run there is, or none.
LEMMA ObservationForm ==
  ASSUME WaitTypeOK
  PROVE  Observation \in Result
<1>1. bound \in 0..MaxRuns /\ lastRun \in 0..MaxRuns
  BY WaitAssumption DEF WaitTypeOK
<1>2. \A i \in Eligible : collected[i] \in 0..MaxRuns
  <2>1. \A i \in DOMAIN collected : collected[i] \in 1..lastRun
    BY DEF WaitTypeOK
  <2>2. \A i \in Eligible : i \in DOMAIN collected
    BY DEF Eligible, Candidates
  <2>3. \A r \in 1..lastRun : r \in 0..MaxRuns
    BY <1>1, WaitAssumption
  <2> QED BY <2>1, <2>2, <2>3
<1>3. Eligible # {} => collected[CHOOSE i \in Eligible : TRUE] \in 0..MaxRuns
  BY <1>2
<1>4. Evaluate(clock) \in Result
  BY <1>1, <1>3, WaitAssumption DEF Evaluate, Result, ObservationStatus
<1> QED BY <1>1, <1>4 DEF Observation, Result, ObservationStatus

\* Steps keep the types.
LEMMA WaitTypeStep ==
  ASSUME WaitTypeOK, [WaitNext]_waitVars
  PROVE  WaitTypeOK'
<1>1. /\ lastRun' \in 0..MaxRuns /\ runs' \in [1..lastRun' -> Run]
      /\ lastRun \in Nat /\ lastRun' \in Nat /\ lastRun <= lastRun'
  BY RunsStay, WaitAssumption DEF WaitTypeOK
<1>2. \A s \in Seq(1..lastRun) : s \in Seq(1..lastRun')
  BY <1>1
<1>3. collected \in Seq(1..lastRun') /\ bound \in 0..lastRun'
  BY <1>1, <1>2 DEF WaitTypeOK
<1>4. CASE PrepareDispatch
  BY <1>1, <1>3, <1>4 DEF PrepareDispatch, WaitTypeOK, github, poll, Time
<1>5. CASE Post
  <2>1. clock + Timeout \in 0..(MaxTime + Timeout)
    BY <1>5, WaitAssumption DEF Post, WaitTypeOK, Time
  <2> QED BY <1>1, <1>3, <1>5, <2>1 DEF Post, WaitTypeOK, poll
<1>6. CASE BeginObservation
  <2>1. bound # 0 => <<bound>> \in Seq(1..lastRun')
    BY <1>1, <1>3
  <2>2. 1 \in 1..MaxPages
    BY WaitAssumption
  <2>3. collected' \in Seq(1..lastRun') /\ complete' \in BOOLEAN /\ visible' \in BOOLEAN
        /\ pc' \in {"listing", "listed"} /\ page' = 1
    <3>1. <<>> \in Seq(1..lastRun')
      OBVIOUS
    <3> QED BY <1>6, <2>1, <3>1 DEF BeginObservation
  <2>4. UNCHANGED <<mode, clock, requested, bound, deadline, result>>
    BY <1>6 DEF BeginObservation, receipt
  <2> QED BY <1>1, <1>3, <2>2, <2>3, <2>4 DEF WaitTypeOK
<1>7. CASE GetPage
  <2>1. page \in 1..MaxPages /\ collected \in Seq(1..lastRun)
    BY DEF WaitTypeOK
  <2>2. PageOf(page) \in Seq(1..lastRun)
    BY <2>1, PageForm
  <2>3. collected \o PageOf(page) \in Seq(1..lastRun)
    BY <2>1, <2>2
  <2>4. collected' \in Seq(1..lastRun')
    BY <1>2, <1>7, <2>3 DEF GetPage
  <2>5. page' \in 1..MaxPages /\ complete' \in BOOLEAN
        /\ pc' \in {"listing", "listed"}
    <3>1. /\ \/ page' = page
             \/ page < MaxPages /\ page' = page + 1
          /\ complete' \in {TRUE, FALSE, complete}
          /\ pc' \in {"listed", pc} /\ pc = "listing"
      BY <1>7 DEF GetPage
    <3>2. page' \in 1..MaxPages
      BY <2>1, <3>1, WaitAssumption
    <3> QED BY <3>1, <3>2 DEF WaitTypeOK
  <2> QED BY <1>1, <1>3, <1>7, <2>4, <2>5 DEF GetPage, WaitTypeOK, github, receipt
<1>8. CASE TakeObservation
  <2>1. 1 \in 1..MaxPages /\ <<>> \in Seq(1..lastRun')
    BY WaitAssumption
  <2> QED BY <1>1, <1>3, <1>8, <2>1, ObservationForm DEF TakeObservation, WaitTypeOK, github, receipt
<1>9. CASE EarlierRun
  BY <1>1, <1>3, <1>9, WaitAssumption DEF EarlierRun, WaitTypeOK, receipt, poll, Time
<1>10. CASE OtherRun
  BY <1>1, <1>3, <1>10 DEF OtherRun, WaitTypeOK, receipt, poll
<1>11. CASE Tick
  BY <1>1, <1>3, <1>11, WaitAssumption DEF Tick, WaitTypeOK, github, receipt, poll, Time
<1>12. CASE \E r \in RunId : ListRun(r) \/ EndRun(r)
  BY <1>1, <1>3, <1>12 DEF ListRun, EndRun, WaitTypeOK, receipt, poll
<1>13. CASE UNCHANGED waitVars
  BY <1>13 DEF waitVars, github, receipt, poll, WaitTypeOK
<1> QED BY <1>4, <1>5, <1>6, <1>7, <1>8, <1>9, <1>10, <1>11, <1>12, <1>13 DEF WaitNext

\* Steps keep what titles and creation times say of a run's owner.
LEMMA RunsStep ==
  ASSUME WaitTypeOK, RunsOK, [WaitNext]_waitVars
  PROVE  RunsOK'
<1>1. /\ clock \in Nat /\ requested \in Nat /\ lastRun \in Nat
      /\ \A r \in 1..lastRun : runs[r].created \in Nat
  BY DEF WaitTypeOK, Time, Run
<1>2. ASSUME NEW r \in 1..lastRun
      PROVE  /\ runs'[r].title = "mine" => runs'[r].owner \in {"request", "earlier"}
             /\ runs'[r].owner = "request" => runs'[r].title = "mine"
             /\ runs'[r].owner = "earlier" =>
                  runs'[r].created < IF pc' = "start" THEN clock' ELSE requested'
  <2>1. /\ runs'[r].owner = runs[r].owner /\ runs'[r].title = runs[r].title
        /\ runs'[r].created = runs[r].created
    BY RunsStay
  <2>2. \/ pc' = "start" /\ pc = "start" /\ clock' \in {clock, clock + 1}
        \/ pc' # "start" /\ pc = "start" /\ requested' = clock
        \/ pc' # "start" /\ pc # "start" /\ requested' = requested
    BY DEF WaitNext, PrepareDispatch, Post, BeginObservation, GetPage, TakeObservation,
           EarlierRun, OtherRun, ListRun, EndRun, Tick, waitVars, receipt
  <2> QED BY <1>1, <2>1, <2>2 DEF RunsOK
<1>3. ASSUME lastRun' = lastRun + 1
      PROVE  LET r == lastRun' IN
             /\ runs'[r].title = "mine" => runs'[r].owner \in {"request", "earlier"}
             /\ runs'[r].owner = "request" => runs'[r].title = "mine"
             /\ runs'[r].owner = "earlier" =>
                  runs'[r].created < IF pc' = "start" THEN clock' ELSE requested'
  <2>1. Post \/ EarlierRun \/ OtherRun
    <3>1. PrepareDispatch \/ BeginObservation \/ GetPage \/ TakeObservation \/ Tick
          \/ UNCHANGED waitVars => lastRun' = lastRun
      BY DEF PrepareDispatch, BeginObservation, GetPage, TakeObservation, Tick, waitVars, github
    <3>2. \A r \in RunId : ListRun(r) \/ EndRun(r) => lastRun' = lastRun
      BY DEF ListRun, EndRun
    <3>3. lastRun' # lastRun
      BY <1>1, <1>3
    <3> QED BY <3>1, <3>2, <3>3 DEF WaitNext
  <2>2. CASE Post
    <3>1. PICK new \in Run :
            /\ lastRun < MaxRuns /\ lastRun' = lastRun + 1 /\ runs' = Append(runs, new)
            /\ new.owner = "request" /\ new.title = "mine"
      BY <2>2, NewRunOf
    <3>2. runs'[lastRun'] = new
      BY <3>1, NewRunForm
    <3> QED BY <3>1, <3>2
  <2>3. CASE EarlierRun
    <3>1. PICK new \in Run :
            /\ lastRun < MaxRuns /\ lastRun' = lastRun + 1 /\ runs' = Append(runs, new)
            /\ new.owner = "earlier" /\ new.title = "mine" /\ new.created = CreatedAt
      BY <2>3, NewRunOf
    <3>2. runs'[lastRun'] = new
      BY <3>1, NewRunForm
    <3>3. pc' = "start" /\ clock' = clock + 1
      BY <2>3 DEF EarlierRun
    <3>4. CreatedAt < clock + 1
      BY <1>1, Stamp
    <3> QED BY <3>1, <3>2, <3>3, <3>4
  <2>4. CASE OtherRun
    <3>1. PICK new \in Run :
            /\ lastRun < MaxRuns /\ lastRun' = lastRun + 1 /\ runs' = Append(runs, new)
            /\ new.owner = "other" /\ new.title # "mine"
      BY <2>4, NewRunOf
    <3>2. runs'[lastRun'] = new
      BY <3>1, NewRunForm
    <3> QED BY <3>1, <3>2
  <2> QED BY <2>1, <2>2, <2>3, <2>4
<1>4. \A r \in 1..lastRun' : r \in 1..lastRun \/ (r = lastRun' /\ lastRun' = lastRun + 1)
  BY <1>1, RunsStay
<1> QED BY <1>2, <1>3, <1>4 DEF RunsOK

\* Steps keep a bound caller to its own run.
LEMMA BoundStep ==
  ASSUME WaitTypeOK, BoundOK, [WaitNext]_waitVars
  PROVE  BoundOK'
<1>1. /\ bound \in 0..lastRun /\ lastRun \in Nat
      /\ bound # 0 => runs'[bound].owner = runs[bound].owner
  <2>1. bound \in 0..lastRun /\ lastRun \in Nat
    BY DEF WaitTypeOK
  <2>2. bound # 0 => bound \in 1..lastRun
    BY <2>1
  <2> QED BY <2>1, <2>2, RunsStay
<1>2. CASE Post
  <2>1. PICK new \in Run :
          /\ lastRun < MaxRuns /\ lastRun' = lastRun + 1 /\ runs' = Append(runs, new)
          /\ new.owner = "request" /\ new.title = "mine"
    BY <1>2, NewRunOf
  <2>2. runs'[lastRun'].owner = "request" /\ lastRun' # 0
    BY <1>1, <2>1, NewRunForm
  <2> QED BY <1>2, <2>2 DEF Post, BoundOK, poll
<1>3. CASE BeginObservation
  BY <1>1, <1>3 DEF BeginObservation, BoundOK, receipt
<1>4. CASE GetPage
  BY <1>1, <1>4 DEF GetPage, BoundOK, receipt
<1>5. CASE TakeObservation
  BY <1>1, <1>5 DEF TakeObservation, BoundOK, receipt
<1>6. CASE PrepareDispatch \/ Tick \/ UNCHANGED waitVars
  BY <1>1, <1>6 DEF PrepareDispatch, Tick, waitVars, BoundOK, github, receipt, poll
<1>7. CASE EarlierRun \/ OtherRun
  BY <1>1, <1>7 DEF EarlierRun, OtherRun, BoundOK, receipt, poll
<1>8. CASE \E r \in RunId : ListRun(r) \/ EndRun(r)
  BY <1>1, <1>8 DEF ListRun, EndRun, BoundOK, receipt, poll
<1> QED BY <1>2, <1>3, <1>4, <1>5, <1>6, <1>7, <1>8 DEF WaitNext

\* New runs only push a run down the listing.
LEMMA RankGrows ==
  ASSUME WaitTypeOK, [WaitNext]_waitVars
  PROVE  /\ Listed \subseteq Listed'
         /\ \A r \in Listed :
              /\ runs'[r].owner = runs[r].owner /\ runs'[r].head = runs[r].head
              /\ Cardinality(Above(Listed, r)) \in Nat
              /\ Cardinality(Above(Listed', r)) \in Nat
              /\ Cardinality(Above(Listed, r)) <= Cardinality(Above(Listed', r))
<1>1. Listed \subseteq Listed'
  BY RunsStay DEF Listed
<1>2. lastRun' \in Nat /\ Listed' \in SUBSET (1..lastRun')
  BY WaitTypeStep, WaitAssumption DEF WaitTypeOK, Listed
<1>3. \A r : /\ IsFiniteSet(Above(Listed', r))
             /\ Cardinality(Above(Listed', r)) \in Nat
  BY <1>2, AboveFinite
<1>4. ASSUME NEW r \in Listed
      PROVE  Cardinality(Above(Listed, r)) <= Cardinality(Above(Listed', r))
  <2>1. Above(Listed, r) \in SUBSET Above(Listed', r)
    BY <1>1 DEF Above
  <2> QED BY <1>3, <2>1, FS_Subset
<1>5. \A r \in Listed : runs'[r].owner = runs[r].owner /\ runs'[r].head = runs[r].head
  BY RunsStay DEF Listed
<1> QED BY <1>1, <1>3, <1>4, <1>5, ListedOK

\* What was collected stays in its place, a page comes behind it.
LEMMA Collected ==
  ASSUME NEW s \in Seq(1..lastRun), NEW t \in Seq(1..lastRun)
  PROVE  /\ \A i \in DOMAIN s : i \in DOMAIN (s \o t) /\ (s \o t)[i] = s[i]
         /\ \A i \in DOMAIN t : /\ Len(s) + i \in DOMAIN (s \o t)
                                /\ (s \o t)[Len(s) + i] = t[i]
<1>1. /\ Len(s) \in Nat /\ DOMAIN s = 1..Len(s)
      /\ Len(t) \in Nat /\ DOMAIN t = 1..Len(t)
      /\ DOMAIN (s \o t) = 1..(Len(s) + Len(t))
  OBVIOUS
<1> QED BY <1>1

\* No step of the enumeration, or of GitHub meanwhile, loses the visible run.
LEMMA EnumerationStep ==
  ASSUME WaitTypeOK, BoundOK, EnumerationOK, [WaitNext]_waitVars
  PROVE  EnumerationOK'
<1>1. SUFFICES ASSUME visible', bound' = 0, pc' \in {"listing", "listed"}
               PROVE  \E r \in Listed' :
                 /\ runs'[r].owner = "request" /\ runs'[r].head
                 /\ \/ \E i \in DOMAIN collected' : collected'[i] = r
                    \/ /\ pc' = "listing"
                       /\ (page' - 1) * PageSize <= Cardinality(Above(Listed', r))
                    \/ pc' = "listed" /\ ~complete'
  BY DEF EnumerationOK
<1>2. CASE BeginObservation
  <2>1. bound = 0 /\ pc' = "listing" /\ page' = 1
    BY <1>1, <1>2 DEF BeginObservation, receipt
  <2>2. PICK r \in Listed : runs[r].owner = "request" /\ runs[r].head
    BY <1>1, <1>2 DEF BeginObservation, Listed
  <2>3. (page' - 1) * PageSize = 0
    BY <2>1, WaitAssumption
  <2> QED BY <2>1, <2>2, <2>3, RankGrows
<1>3. CASE GetPage
  <2>1. bound = 0 /\ visible /\ pc = "listing"
    BY <1>1, <1>3 DEF GetPage, receipt
  <2>2. PICK r \in Listed :
          /\ runs[r].owner = "request" /\ runs[r].head
          /\ \/ \E i \in DOMAIN collected : collected[i] = r
             \/ (page - 1) * PageSize <= Cardinality(Above(Listed, r))
    BY <2>1 DEF EnumerationOK
  <2>3. /\ page \in 1..MaxPages /\ page \in Nat /\ PageSize \in Nat
        /\ collected \in Seq(1..lastRun)
    BY WaitAssumption DEF WaitTypeOK
  <2>4. /\ PageOf(page) \in Seq(1..lastRun)
        /\ (page - 1) * PageSize <= Cardinality(Above(Listed, r)) =>
             \/ \E i \in DOMAIN PageOf(page) : PageOf(page)[i] = r
             \/ /\ Len(PageOf(page)) = PageSize
                /\ page * PageSize <= Cardinality(Above(Listed, r))
    BY <2>3, PageForm
  <2>5. collected' = collected \o PageOf(page)
    BY <1>3 DEF GetPage
  <2>6. /\ \A i \in DOMAIN collected : i \in DOMAIN collected' /\ collected'[i] = collected[i]
        /\ \A i \in DOMAIN PageOf(page) :
             /\ Len(collected) + i \in DOMAIN collected'
             /\ collected'[Len(collected) + i] = PageOf(page)[i]
    BY <2>3, <2>4, <2>5, Collected
  <2>7. /\ r \in Listed' /\ runs'[r].owner = "request" /\ runs'[r].head
        /\ Cardinality(Above(Listed, r)) \in Nat
        /\ Cardinality(Above(Listed', r)) \in Nat
        /\ Cardinality(Above(Listed, r)) <= Cardinality(Above(Listed', r))
    BY <2>2, RankGrows
  <2>8. CASE \E i \in DOMAIN collected : collected[i] = r
    BY <2>6, <2>7, <2>8
  <2>9. CASE \E i \in DOMAIN PageOf(page) : PageOf(page)[i] = r
    BY <2>6, <2>7, <2>9
  <2>10. CASE /\ Len(PageOf(page)) = PageSize
              /\ page * PageSize <= Cardinality(Above(Listed, r))
    <3>1. \/ pc' = "listed" /\ ~complete'
          \/ pc' = "listing" /\ page' = page + 1
      BY <1>3, <2>3, <2>10 DEF GetPage
    <3>2. page' = page + 1 => (page' - 1) * PageSize = page * PageSize
      BY <2>3
    <3>3. page * PageSize <= Cardinality(Above(Listed', r))
      <4>1. page * PageSize \in Nat
        BY <2>3
      <4> QED BY <2>7, <2>10, <4>1
    <3> QED BY <2>7, <3>1, <3>2, <3>3
  <2> QED BY <2>2, <2>4, <2>8, <2>9, <2>10
<1>4. CASE PrepareDispatch \/ Post \/ TakeObservation
  BY <1>1, <1>4 DEF PrepareDispatch, Post, TakeObservation
<1>5. CASE UNCHANGED <<bound, pc, poll>>
  <2>1. PICK r \in Listed :
          /\ runs[r].owner = "request" /\ runs[r].head
          /\ \/ \E i \in DOMAIN collected : collected[i] = r
             \/ pc = "listing" /\ (page - 1) * PageSize <= Cardinality(Above(Listed, r))
             \/ pc = "listed" /\ ~complete
    BY <1>1, <1>5 DEF EnumerationOK, poll
  <2>2. /\ r \in Listed' /\ runs'[r].owner = "request" /\ runs'[r].head
        /\ Cardinality(Above(Listed, r)) \in Nat
        /\ Cardinality(Above(Listed', r)) \in Nat
        /\ Cardinality(Above(Listed, r)) <= Cardinality(Above(Listed', r))
    BY <2>1, RankGrows
  <2>3. (page - 1) * PageSize \in Int
    <3>1. page - 1 \in Int /\ PageSize \in Int
      BY WaitAssumption DEF WaitTypeOK
    <3> QED BY <3>1
  <2> QED BY <1>5, <2>1, <2>2, <2>3 DEF poll
<1> QED
  <2>1. EarlierRun \/ OtherRun \/ Tick \/ UNCHANGED waitVars => UNCHANGED <<bound, pc, poll>>
    BY DEF EarlierRun, OtherRun, Tick, waitVars, receipt
  <2>2. \A r \in RunId : ListRun(r) \/ EndRun(r) => UNCHANGED <<bound, pc, poll>>
    BY DEF ListRun, EndRun, receipt
  <2> QED BY <1>2, <1>3, <1>4, <1>5, <2>1, <2>2 DEF WaitNext

\* An observation that matches has matched the caller's own run.
LEMMA MatchForm ==
  ASSUME WaitInvariant, pc = "listed",
         Observation.status \in {"MATCHED_ACTIVE", "MATCHED_TERMINAL"}
  PROVE  /\ Observation.run \in 1..lastRun
         /\ runs[Observation.run].owner = "request" /\ runs[Observation.run].head
<1>1. Observation = Evaluate(clock)
  BY DEF Observation
<1>2. Eligible # {} /\ Observation.run = collected[CHOOSE i \in Eligible : TRUE]
  BY <1>1 DEF Evaluate
<1>3. PICK i \in Eligible : Observation.run = collected[i]
  BY <1>2
<1>4. /\ i \in DOMAIN collected /\ collected[i] \in 1..lastRun
      /\ Evidence(collected[i]) = "mine" /\ runs[collected[i]].head
      /\ runs[collected[i]].created >= requested
  <2>1. \A j \in DOMAIN collected : collected[j] \in 1..lastRun
    BY DEF WaitInvariant, WaitTypeOK
  <2> QED BY <2>1 DEF Eligible, Candidates, IsCandidate
<1>5. CASE mode = "direct"
  <2>1. bound # 0 /\ collected = <<bound>> /\ runs[bound].owner = "request"
    BY <1>5 DEF WaitInvariant, BoundOK
  <2>2. collected[i] = bound
    BY <1>4, <2>1
  <2> QED BY <1>3, <1>4, <2>1, <2>2
<1>6. CASE mode # "direct"
  <2>1. runs[collected[i]].title = "mine"
    BY <1>4, <1>6, WaitAssumption DEF Evidence, WaitInvariant, WaitTypeOK, RunMode, Absent
  <2>2. /\ runs[collected[i]].owner \in {"request", "earlier"}
        /\ runs[collected[i]].owner = "earlier" => runs[collected[i]].created < requested
    BY <1>4, <2>1 DEF WaitInvariant, RunsOK
  <2>3. runs[collected[i]].created \in Nat /\ requested \in Nat
    BY <1>4, WaitAssumption DEF WaitInvariant, WaitTypeOK, Run, Time
  <2> QED BY <1>3, <1>4, <2>2, <2>3
<1> QED BY <1>5, <1>6

\* A run that was visible is not reported as missing.
LEMMA VisibleForm ==
  ASSUME WaitInvariant, pc = "listed", visible
  PROVE  Observation.status \notin {"NO_MATCH", "PENDING_VISIBILITY"}
<1>1. CASE bound # 0
  <2>1. mode = "direct" /\ collected = <<bound>>
    BY <1>1 DEF WaitInvariant, BoundOK
  <2>2. runs[bound].head => 1 \in Candidates
    BY <2>1 DEF Candidates, IsCandidate, Evidence
  <2> QED BY <1>1, <2>2 DEF Observation, Evaluate
<1>2. CASE bound = 0
  <2>1. PICK r \in Listed :
          /\ runs[r].owner = "request" /\ runs[r].head
          /\ (\E i \in DOMAIN collected : collected[i] = r) \/ ~complete
    BY <1>2 DEF WaitInvariant, EnumerationOK
  <2>2. mode # "direct" /\ runs[r].title = "mine"
    BY <1>2, <2>1 DEF WaitInvariant, BoundOK, RunsOK, Listed
  <2>3. ~complete => Observation.status = "OBSERVATION_INCOMPLETE"
    BY <1>2 DEF Observation, Evaluate
  <2>4. ASSUME NEW i \in DOMAIN collected, collected[i] = r
        PROVE  LacksEvidence(collected[i]) \/ i \in Candidates
    <3>1. mode \in {"prefix", "input"}
      BY <2>2, WaitAssumption DEF WaitInvariant, WaitTypeOK, RunMode
    <3> QED BY <2>1, <2>2, <2>4, <3>1 DEF LacksEvidence, Candidates, IsCandidate, Evidence
  <2> QED BY <1>2, <2>1, <2>3, <2>4 DEF Observation, Evaluate
<1> QED BY <1>1, <1>2

\* What was reported stays true until the next observation.
LEMMA ResultStep ==
  ASSUME WaitInvariant, [WaitNext]_waitVars
  PROVE  ResultOK'
<1>1. CASE TakeObservation
  <2>1. /\ pc = "listed" /\ result' = Observation
        /\ runs' = runs /\ lastRun' = lastRun /\ visible' = visible
    BY <1>1 DEF TakeObservation, github
  <2> QED BY <2>1, MatchForm, VisibleForm DEF ResultOK, VisibleIsFound
<1>2. CASE result' = result /\ (Observed' => Observed /\ visible' = visible)
  <2>1. \A r \in 1..lastRun : r \in 1..lastRun' /\ runs'[r].owner = runs[r].owner
                                                /\ runs'[r].head = runs[r].head
    BY RunsStay DEF WaitInvariant
  <2> QED BY <1>2, <2>1 DEF WaitInvariant, ResultOK, VisibleIsFound
<1> QED
  <2>1. PrepareDispatch \/ Post => result' = result /\ ~Observed'
    BY DEF PrepareDispatch, Post, Observed, WaitInvariant, BoundOK, NoResult
  <2>2. BeginObservation \/ GetPage => result' = result /\ ~Observed'
    BY DEF BeginObservation, GetPage, Observed
  <2>3. EarlierRun \/ OtherRun \/ Tick \/ UNCHANGED waitVars => UNCHANGED <<result, pc, visible>>
    BY DEF EarlierRun, OtherRun, Tick, waitVars, poll
  <2>4. \A r \in RunId : ListRun(r) \/ EndRun(r) => UNCHANGED <<result, pc, visible>>
    BY DEF ListRun, EndRun, poll
  <2>5. UNCHANGED <<result, pc, visible>> =>
          result' = result /\ (Observed' => Observed /\ visible' = visible)
    BY DEF Observed
  <2> QED BY <1>1, <1>2, <2>1, <2>2, <2>3, <2>4, <2>5 DEF WaitNext

\* The invariant holds throughout.
LEMMA WaitAlways == WaitSpec => []WaitInvariant
<1>1. WaitInit => WaitInvariant
  <2>1. WaitInit => WaitTypeOK
    <3>1. <<>> \in [1..0 -> Run] /\ <<>> \in Seq(1..0)
      OBVIOUS
    <3>2. NoResult \in Result
      BY WaitAssumption DEF NoResult, Result
    <3>3. /\ 0 \in 0..MaxTime /\ 0 \in 0..MaxRuns /\ 0 \in 0..0
          /\ 0 \in 0..(MaxTime + Timeout) /\ 1 \in 1..MaxPages
      BY WaitAssumption
    <3>4. WaitInit => runs \in [1..lastRun -> Run] /\ collected \in Seq(1..lastRun)
                  /\ bound \in 0..lastRun
      BY <3>1, <3>3 DEF WaitInit
    <3> QED BY <3>2, <3>3, <3>4 DEF WaitInit, WaitTypeOK, Time
  <2>2. WaitInit => RunsOK /\ BoundOK /\ EnumerationOK /\ ResultOK
    BY DEF WaitInit, RunsOK, BoundOK, EnumerationOK, ResultOK, VisibleIsFound, NoResult, Absent
  <2> QED BY <2>1, <2>2 DEF WaitInvariant
<1>2. WaitInvariant /\ [WaitNext]_waitVars => WaitInvariant'
  BY WaitTypeStep, RunsStep, BoundStep, EnumerationStep, ResultStep DEF WaitInvariant
<1> QED BY <1>1, <1>2, PTL DEF WaitSpec

\* The caller, GitHub and the listing only ever hold well-formed values.
THEOREM WaitTypeCorrect == WaitSpec => []WaitTypeOK
BY WaitAlways, PTL DEF WaitInvariant

\* Whatever other requests and earlier attempts dispatch, and in whatever order
\* runs are listed, a match of observe_dispatch_once is the caller's own run.
THEOREM MatchedIsMine == WaitSpec => []MatchIsMine
<1>1. WaitInvariant => MatchIsMine
  BY DEF WaitInvariant, ResultOK, MatchIsMine
<1> QED BY <1>1, WaitAlways, PTL

\* The pages of _enumerate_runs may shift under the caller as runs come in, and
\* still its run is found, or the observation is reported as incomplete.
THEOREM ListedIsFound == WaitSpec => []VisibleIsFound
BY WaitAlways, PTL DEF WaitInvariant, ResultOK
=============================================================================
