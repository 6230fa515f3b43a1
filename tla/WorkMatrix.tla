----------------------------- MODULE WorkMatrix -----------------------------
(***************************************************************************)
(* One run of the governed matrix: plan, prepare and build once, one job   *)
(* per case, and an aggregate over the evidence of the cases.              *)
(*                                                                         *)
(* Every job is a runner of its own.  It checks the repository out again,  *)
(* reads the manifests again, and refuses to run a command unless the HEAD *)
(* of its checkout is the requested commit; the request may also name a    *)
(* branch, which moves.  The jobs share the outputs of the plan and two    *)
(* kinds of artifacts: the bundle that prepare built, kept for a day, and  *)
(* the evidence, which a job uploads also after it has failed or run out   *)
(* of time, but not when its runner is lost.                               *)
(***************************************************************************)
EXTENDS Integers, Sequences, SequencesExt, FiniteSets, Functions

CONSTANTS
  Commits,     \* of the consumer's repository
  Branch,      \* the name of its default branch
  Cases,       \* ids of cases
  Identities,  \* issue and sequence numbers
  Histories,   \* [Commits -> Manifest]: what the manifest says at each commit
  Callers,     \* "workflow" reads GITHUB_OUTPUT, "printed" the JSON
  MaxMoves,    \* bound: commits of others to the branch
  None

ASSUME ConstantsAssumption ==
  /\ Branch \notin Commits /\ None \notin Cases \cup Commits
  /\ Cases \cap {"route", "plan", "prepare", "aggregate"} = {}
  /\ Callers \subseteq {"workflow", "printed"}
  /\ MaxMoves \in Nat

VARIABLES
  main,      \* the commit of the branch
  request,   \* the call: the base, the identity, the caller, the history
  job,       \* its jobs: state, step, commit of the checkout, exit status
  outputs,   \* what the later jobs read of the plan
  stages,    \* the outcome of every stage that prepare has run
  evidence,  \* evidence.json of a job, on its runner
  uploaded,  \* evidence.json of a job, as an artifact
  bundle,    \* the artifact with the bundle
  ran,       \* history: the commands that were run, and at which commit
  moves

artifacts == <<uploaded, bundle>>
vars == <<main, request, job, outputs, stages, evidence, artifacts, ran, moves>>

-----------------------------------------------------------------------------
(* Manifests.                                                               *)

StageIds == <<"P0", "P1", "P2", "P3">>

\* A path is the sequence of its names.
Manifests ==
  [identity : Identities, prepare : [identity : Identities, stages : Seq(STRING)],
   bundle : Seq(Seq(STRING)), parallel : Int, cases : Seq(Cases) \cup {None},
   aggregate : BOOLEAN]

ASSUME HistoriesAssumption == Histories \subseteq [Commits -> Manifests]

\* The topology is told from the shape of the manifest alone.
Mode(m) ==
  CASE m.cases = None -> "serial"
    [] m.cases # None /\ Len(m.cases) \in 1..16 -> "matrix"
    [] OTHER -> "invalid"

\* Mutation of ParallelOK: only the upper bound is checked.
ParallelOKUpper(n) == n <= 8
ParallelOK(n) == n \in 1..8

\* Matrix manifests that load: no bundle path lies below another.
Loads(m) ==
  /\ Mode(m) = "matrix" /\ IsInjective(m.cases)
  /\ ParallelOK(m.parallel)
  /\ m.bundle # <<>> /\ IsInjective(m.bundle)
  /\ \A i, j \in DOMAIN m.bundle : i # j => ~IsStrictPrefix(m.bundle[i], m.bundle[j])

LoadsWork(p) == p.stages # <<>> /\ IsPrefix(p.stages, StageIds)

Dispatches(p, identity) == p.identity = identity

\* The manifest and that of its prepare stage are of the identity dispatched.
Validates(m) ==
  /\ Loads(m) /\ m.identity = request.identity
  /\ LoadsWork(m.prepare) /\ Dispatches(m.prepare, request.identity)

-----------------------------------------------------------------------------
(* Jobs.                                                                    *)

Jobs == {"route", "plan", "prepare", "aggregate"} \cup Cases

EndStates == {"success", "failure", "skipped"}
Job ==
  [state : {"waiting", "running"} \cup EndStates,
   step : {None, "work", "pack", "restore", "upload"},
   at : Commits \cup {None}, ok : BOOLEAN]

Waiting == [state |-> "waiting", step |-> None, at |-> None, ok |-> TRUE]
Ended(j) == job[j].state \in EndStates
Succeeded(j) == job[j].state = "success"
Running(j, step) == job[j].state = "running" /\ job[j].step = step
ManifestIn(j) == request.history[job[j].at]

\* What the plan writes to GITHUB_OUTPUT is one line, for the newlines between
\* its values are written as a backslash and an n: the value of `matrix' is no
\* JSON, and the others are not set.  So does the workflow of the repository call it;
\* a caller that reads the JSON printed by the same command (cli.py:278) is taken in
\* beside it, to check the jobs that the plan would drive.  The repository has none.
Outputs(caller, m) ==
  IF caller = "printed"
  THEN [cases |-> ToSet(m.cases), parallel |-> m.parallel, prepare |-> TRUE,
        aggregate |-> m.aggregate]
  ELSE [cases |-> {}, parallel |-> 0, prepare |-> FALSE, aggregate |-> FALSE]

Needs(j) ==
  CASE j = "route" -> {} [] j = "plan" -> {"route"} [] j = "prepare" -> {"plan"}
    [] j = "aggregate" -> {"plan", "prepare"} \cup Cases
    [] OTHER -> {"plan", "prepare"}

\* The aggregate runs always(), provided prepare succeeded.
Runs(j) ==
  IF j = "aggregate" THEN Succeeded("prepare") /\ outputs.aggregate
  ELSE /\ \A k \in Needs(j) : Succeeded(k)
       /\ j \in Cases => j \in outputs.cases

FreeLane(j) ==
  j \in Cases => Cardinality({c \in Cases : job[c].state = "running"}) < outputs.parallel

FirstStep(j) == IF j \in Cases THEN "restore" ELSE "work"

\* A runner is given to the job, and it checks the base out.
Start(j) ==
  /\ job[j].state = "waiting" /\ \A k \in Needs(j) : Ended(k)
  /\ Runs(j) /\ FreeLane(j)
  /\ job' = [job EXCEPT ![j] =
       [state |-> "running", step |-> FirstStep(j), ok |-> TRUE,
        at |-> IF request.base = Branch THEN main ELSE request.base]]
  /\ UNCHANGED <<main, request, outputs, stages, evidence, artifacts, ran, moves>>

Skip(j) ==
  /\ job[j].state = "waiting" /\ \A k \in Needs(j) : Ended(k)
  /\ ~Runs(j)
  /\ job' = [job EXCEPT ![j].state = "skipped"]
  /\ UNCHANGED <<main, request, outputs, stages, evidence, artifacts, ran, moves>>

To(j, step) == job' = [job EXCEPT ![j].step = step]
Fails(j) == job' = [job EXCEPT ![j].step = "upload", ![j].ok = FALSE]
End(j, state) == job' = [job EXCEPT ![j].state = state, ![j].step = None]

\* Mutation of AtBase: the workspace is whatever was checked out.
AtBaseAny(j) == TRUE
\* HEAD of the workspace is, word for word, the base that was requested.
AtBase(j) == job[j].at = request.base

-----------------------------------------------------------------------------
(* Route and plan.                                                          *)

\* The consumer routes a manifest without cases to the serial runner.
Route ==
  /\ Running("route", "work")
  /\ End("route", CASE Mode(ManifestIn("route")) = "matrix" -> "success"
                    [] Mode(ManifestIn("route")) = "serial" -> "skipped"
                    [] OTHER -> "failure")
  /\ UNCHANGED <<main, request, outputs, stages, evidence, artifacts, ran, moves>>

Plan ==
  /\ Running("plan", "work")
  /\ IF Validates(ManifestIn("plan"))
     THEN End("plan", "success") /\ outputs' = Outputs(request.caller, ManifestIn("plan"))
     ELSE End("plan", "failure") /\ UNCHANGED outputs
  /\ UNCHANGED <<main, request, stages, evidence, artifacts, ran, moves>>

-----------------------------------------------------------------------------
(* Prepare: the serial runner of P0..Pn, then the bundle.                   *)

PrepareAccepted ==
  LET p == ManifestIn("prepare").prepare IN
  /\ outputs.prepare
  /\ LoadsWork(p) /\ Dispatches(p, request.identity)
  /\ AtBase("prepare")

StagesLeft ==
  /\ Len(stages) < Len(ManifestIn("prepare").prepare.stages)
  /\ \A i \in DOMAIN stages : stages[i] = "PASS"

PrepareRefused ==
  /\ Running("prepare", "work") /\ ~PrepareAccepted
  /\ Fails("prepare")
  /\ UNCHANGED <<main, request, outputs, stages, evidence, artifacts, ran, moves>>

\* Exit 0, or another exit, a timeout, a command that cannot be started.
RunStage ==
  /\ Running("prepare", "work") /\ PrepareAccepted /\ StagesLeft
  /\ \E status \in {"PASS", "FAIL"} : stages' = Append(stages, status)
  /\ ran' = ran \cup {[job |-> "prepare", at |-> job["prepare"].at]}
  /\ UNCHANGED <<main, request, job, outputs, evidence, artifacts, moves>>

Complete(m) == stages = [i \in DOMAIN m.prepare.stages |-> "PASS"]

Conclude ==
  /\ Running("prepare", "work") /\ PrepareAccepted /\ ~StagesLeft
  /\ IF Complete(ManifestIn("prepare"))
     THEN To("prepare", "pack") /\ evidence' = [evidence EXCEPT !["prepare"] = "PASS"]
     ELSE Fails("prepare") /\ evidence' = [evidence EXCEPT !["prepare"] = "FAIL"]
  /\ UNCHANGED <<main, request, outputs, stages, artifacts, ran, moves>>

\* A declared path may be missing, or be a link.
Pack ==
  /\ Running("prepare", "pack")
  /\ \/ /\ Validates(ManifestIn("prepare"))
        /\ bundle' = "kept" /\ To("prepare", "upload")
     \/ Fails("prepare") /\ UNCHANGED bundle
  /\ UNCHANGED <<main, request, outputs, stages, evidence, uploaded, ran, moves>>

-----------------------------------------------------------------------------
(* Cases and aggregate.                                                     *)

Restore(c) ==
  /\ Running(c, "restore")
  /\ IF bundle = "kept" THEN To(c, "work") ELSE Fails(c)
  /\ UNCHANGED <<main, request, outputs, stages, evidence, artifacts, ran, moves>>

\* The manifest, the case or HEAD is not as expected, or there is no such cwd.
SpecRefused(j) ==
  /\ Running(j, "work") /\ Fails(j)
  /\ UNCHANGED <<main, request, outputs, stages, evidence, artifacts, ran, moves>>

\* Mutation of Passes: the exit status of a case is always 0.
PassesAlways(result) == TRUE
Passes(result) == result = "PASS"

\* The command ends, or is stopped at its own timeout; the record says which.
ExecuteSpec(j) ==
  /\ AtBase(j)
  /\ \E result \in {"PASS", "FAIL"} :
       /\ evidence' = [evidence EXCEPT ![j] = result]
       /\ job' = [job EXCEPT ![j].step = "upload", ![j].ok = Passes(result)]
  /\ ran' = ran \cup {[job |-> j, at |-> job[j].at]}

RunCase(c) ==
  /\ Running(c, "work") /\ Validates(ManifestIn(c))
  /\ c \in ToSet(ManifestIn(c).cases)
  /\ ExecuteSpec(c)
  /\ UNCHANGED <<main, request, outputs, stages, artifacts, moves>>

\* A manifest without an aggregate is no error here.
RunAggregate ==
  /\ Running("aggregate", "work") /\ Validates(ManifestIn("aggregate"))
  /\ IF ManifestIn("aggregate").aggregate THEN ExecuteSpec("aggregate")
     ELSE To("aggregate", "upload") /\ UNCHANGED <<evidence, ran>>
  /\ UNCHANGED <<main, request, outputs, stages, artifacts, moves>>

\* always(): what the job has of evidence, and nothing is no error.
Upload(j) ==
  /\ Running(j, "upload")
  /\ uploaded' = [uploaded EXCEPT ![j] = evidence[j]]
  /\ End(j, IF job[j].ok THEN "success" ELSE "failure")
  /\ UNCHANGED <<main, request, outputs, stages, evidence, bundle, ran, moves>>

-----------------------------------------------------------------------------
(* Time, runners, and the repository.                                       *)

\* timeout-minutes: the step is stopped, the upload still runs.
Cut(j) ==
  /\ job[j].state = "running" /\ job[j].step \in {"work", "pack", "restore"}
  /\ j \notin {"route", "plan"}
  /\ Fails(j)
  /\ UNCHANGED <<main, request, outputs, stages, evidence, artifacts, ran, moves>>

RunnerLost(j) ==
  /\ job[j].state = "running"
  /\ End(j, "failure")
  /\ UNCHANGED <<main, request, outputs, stages, evidence, artifacts, ran, moves>>

BundleExpires ==
  /\ bundle = "kept" /\ bundle' = "expired"
  /\ UNCHANGED <<main, request, job, outputs, stages, evidence, uploaded, ran, moves>>

BranchMoves ==
  /\ moves < MaxMoves /\ moves' = moves + 1
  /\ main' \in Commits \ {main}
  /\ UNCHANGED <<request, job, outputs, stages, evidence, artifacts, ran>>

-----------------------------------------------------------------------------
Init ==
  /\ main \in Commits
  /\ request \in [base : Commits \cup {Branch}, identity : Identities,
                  caller : Callers, history : Histories]
  /\ job = [j \in Jobs |-> Waiting]
  /\ outputs = [cases |-> {}, parallel |-> 0, prepare |-> FALSE, aggregate |-> FALSE]
  /\ stages = <<>>
  /\ evidence = [j \in Jobs |-> None]
  /\ uploaded = [j \in Jobs |-> None]
  /\ bundle = None
  /\ ran = {}
  /\ moves = 0

Prepare == PrepareRefused \/ RunStage \/ Conclude \/ Pack

\* A step of the runner of job j.
Step(j) ==
  \/ j = "route" /\ Route
  \/ j = "plan" /\ Plan
  \/ j = "prepare" /\ Prepare
  \/ j \in Cases /\ (Restore(j) \/ RunCase(j))
  \/ j = "aggregate" /\ RunAggregate
  \/ j \in Cases \cup {"aggregate"} /\ SpecRefused(j)
  \/ Upload(j)

Next ==
  \/ \E j \in Jobs : Start(j) \/ Skip(j) \/ Step(j) \/ Cut(j) \/ RunnerLost(j)
  \/ BundleExpires \/ BranchMoves

\* A waiting job is given a runner, and no step lasts for ever.
Fairness ==
  \A j \in Jobs : WF_vars(Start(j)) /\ WF_vars(Skip(j)) /\ WF_vars(Step(j))

Spec == Init /\ [][Next]_vars /\ Fairness

-----------------------------------------------------------------------------
(* Properties.                                                              *)

TypeOK ==
  /\ main \in Commits
  /\ request \in [base : Commits \cup {Branch}, identity : Identities,
                  caller : Callers, history : Histories]
  /\ job \in [Jobs -> Job]
  /\ outputs \in [cases : SUBSET Cases, parallel : Int, prepare : BOOLEAN, aggregate : BOOLEAN]
  /\ stages \in Seq({"PASS", "FAIL"})
  /\ evidence \in [Jobs -> {None, "PASS", "FAIL"}]
  /\ uploaded \in [Jobs -> {None, "PASS", "FAIL"}]
  /\ bundle \in {None, "kept", "expired"}
  /\ ran \subseteq [job : Jobs, at : Commits]
  /\ moves \in Nat

\* Every command of every job ran at the one requested commit, wherever the
\* branch went between the checkouts, and no case and no aggregate ran before
\* every declared stage of prepare had passed (runner.py:75, matrix.py:429).
Pinned ==
  LET declared == request.history[request.base].prepare.stages IN
  \A r \in ran :
    /\ r.at = request.base
    /\ r.job # "prepare" =>
         /\ Len(stages) = Len(declared)
         /\ \A i \in DOMAIN stages : stages[i] = "PASS"

\* A run that ends without a failed job has kept the evidence of everything the
\* manifest of the requested commit declares, and all of it says PASS, whatever
\* timed out, was lost, or expired on the way (matrix.py:515, runner.py:167).
SuccessIsWhole ==
  (\A j \in Jobs : Ended(j) /\ job[j].state # "failure") /\ Succeeded("plan") =>
    LET m == request.history[request.base] IN
    /\ uploaded["prepare"] = "PASS"
    /\ \A i \in DOMAIN m.cases : uploaded[m.cases[i]] = "PASS"
    /\ m.aggregate => uploaded["aggregate"] = "PASS"

\* Every call comes to its end, however narrow the matrix and however many jobs
\* fail: a manifest that would give the cases no lane is refused before
\* (matrix.py:189).
Ends == <>(\A j \in Jobs : Ended(j))

\* The jobs after the plan read what the plan has printed (cli.py:271-278).
PlanIsRead ==
  Succeeded("plan") => outputs = Outputs("printed", ManifestIn("plan"))
=============================================================================
