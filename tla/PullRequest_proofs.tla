------------------------- MODULE PullRequest_proofs -------------------------
(***************************************************************************)
(* Proofs about PullRequest, for any number of branches, commits, runs and *)
(* crashes: what is merged passed the tests itself, no head is validated   *)
(* by dispatch twice, and a replaced pull request stays out.               *)
(*                                                                         *)
(* The invariant says that every commit somebody names was pushed to the   *)
(* branch it is named for (Known), that evidence is true (Evidenced), that *)
(* the merge worker acts for the one action that is dispatched (Merging),  *)
(* what of an observation still holds when nothing is in flight (Seen),    *)
(* that a replaced pull request is at a rejected head for good (Replaced), *)
(* and that a validation is always of the newest head that was ever        *)
(* validated on its branch (Validating).                                   *)
(***************************************************************************)
EXTENDS PullRequest, TLAPS

PushedTo(c, b) == c \in 1..Len(commit) /\ commit[c].on = b

Known ==
  /\ \A b \in Branches :
       /\ branch[b].state \in {"open", "merged"} => PushedTo(branch[b].head, b)
       /\ branch[b].state \in {"absent", "branch"} => branch[b].head = NoCommit
       /\ validation[b].head # NoCommit => PushedTo(validation[b].head, b)
       /\ job.context.view[b].state = "open" => PushedTo(job.context.view[b].head, b)
  /\ \A r \in 1..Len(runs) : PushedTo(runs[r].head, runs[r].branch)
  /\ \A c \in Commits : merge[c].status # "none" => c \in 1..Len(commit)
  /\ job.pc \in {"dispatch_validation", "reconcile_validation"} =>
       validation[job.on].head # NoCommit

Evidenced ==
  /\ \A c \in 1..Len(commit) : "success" \in {commit[c].status, commit[c].checks} => commit[c].sound
  /\ \A r \in 1..Len(runs) : runs[r].phase = "passed" => commit[runs[r].head].sound
  /\ worker.pc = "put" => commit[worker.head].sound
  /\ MergedPassed

Merging ==
  /\ \A c, d \in InFlight : c = d
  /\ worker.pc # "idle" => worker.head \in Commits /\ merge[worker.head].status = "dispatched"
  /\ job.pc = "dispatch_merge" => \E c \in Commits : merge[c].status = "dispatch_intent"

Seen ==
  job.pc = "deciding" /\ InFlight = {} =>
    \A b \in OpenIn(job.context) :
      /\ branch[b].state = "open"
      /\ merge[job.context.view[b].head].status = "rejected" =>
           branch[b].head = job.context.view[b].head

Replaced ==
  \A b \in Branches : replaced[b] # {} =>
    branch[b].state = "open" /\ merge[branch[b].head].status = "rejected"

Validating ==
  /\ \A b \in Branches :
       /\ validation[b].head <= branch[b].head
       /\ job.pc = "deciding" /\ job.context.view[b].state = "open" =>
            /\ validation[b].head <= job.context.view[b].head
            /\ job.context.view[b].head <= branch[b].head
  /\ \A r \in 1..Len(runs) : runs[r].own => runs[r].head <= validation[runs[r].branch].head
  /\ job.pc = "dispatch_validation" => OwnRuns(job.on) = {}
  /\ ValidatedOnce

Invariant ==
  /\ TypeOK /\ Known /\ Evidenced /\ Merging /\ Seen /\ Replaced /\ Validating

-----------------------------------------------------------------------------
(* Steps and types.                                                         *)

\* What a bootstrap run decides, one disjunct for each way it goes.
LEMMA DecideCases ==
  ASSUME Decide
  PROVE  /\ job.pc = "deciding" /\ crashes' = crashes
         /\ \/ \E c \in InFlight : RetireStaleMerge(c) \/ ResumeMerge(c) \/ IngestMerge(c)
            \/ InFlight = {} /\ ReplaceBranch(job.context)
            \/ InFlight = {} /\ \E b \in Unvalidated(job.context) :
                 RecordIntent(b, job.context) \/ Resume(b, job.context)
            \/ InFlight = {} /\ \E b \in Ready(job.context) :
                 /\ merge[job.context.view[b].head].status = "none"
                 /\ merge' = [merge EXCEPT ![job.context.view[b].head] =
                      [status |-> "dispatch_intent", main |-> job.context.main]]
                 /\ Go("dispatch_merge", 0)
                 /\ UNCHANGED <<github, validation, worker, history>>
            \/ Nothing
<1>1. job.pc = "deciding" /\ crashes' = crashes
  BY DEF Decide
<1>2. CASE InFlight # {}
  BY <1>1, <1>2 DEF Decide, AwaitMerge
<1>3. CASE InFlight = {} /\ NeedsBranch(job.context)
  BY <1>1, <1>3 DEF Decide
<1>4. CASE InFlight = {} /\ ~NeedsBranch(job.context) /\ Unvalidated(job.context) # {}
  BY <1>1, <1>4 DEF Decide, Validate, AwaitValidation
<1>5. CASE InFlight = {} /\ ~NeedsBranch(job.context) /\ Unvalidated(job.context) = {}
  <2>1. PlanMerge(job.context)
    BY <1>5 DEF Decide
  <2> QED BY <1>1, <1>5, <2>1 DEF PlanMerge
<1> QED BY <1>2, <1>3, <1>4, <1>5

LEMMA Numbers ==
  /\ MaxMain \in Nat /\ MaxCommits \in Nat /\ 0 \in Branches
  /\ Branches \subseteq Nat /\ Commits \subseteq Nat \ {0} /\ NoCommit = 0
BY ConstantsAssumption DEF Branches, Commits, NoCommit

LEMMA JobTypes ==
  /\ JobIdle \in Job
  /\ \A pc \in Steps, b \in Branches : [JobIdle EXCEPT !.pc = pc, !.on = b] \in Job
<1>1. NoContext \in Context
  BY DEF NoContext, Context, View, Evidence
<1> QED BY <1>1, Numbers DEF JobIdle, Job, Steps

LEMMA SeqUpdate ==
  ASSUME NEW S, NEW s \in Seq(S), NEW i \in 1..Len(s), NEW x \in S
  PROVE  [s EXCEPT ![i] = x] \in Seq(S) /\ Len([s EXCEPT ![i] = x]) = Len(s)
OBVIOUS

\* A change of one field keeps a pull request, a run and a commit in form.
LEMMA FieldTypes ==
  /\ \A p \in PullRequest : \A state \in {"absent", "branch", "open", "merged"} :
       [p EXCEPT !.state = state] \in PullRequest
  /\ \A r \in Run : \A phase \in {"queued", "passed", "failed", "published"} :
       [r EXCEPT !.phase = phase] \in Run
  /\ \A c \in Commit : \A o \in {"none", "success", "failure"} :
       [c EXCEPT !.status = o] \in Commit /\ [c EXCEPT !.checks = o] \in Commit
  /\ \A c \in Commit : [c EXCEPT !.checks = "pending"] \in Commit
BY DEF PullRequest, Run, Commit, Outcome

LEMMA TypeInit == Init => TypeOK
<1> SUFFICES ASSUME Init PROVE TypeOK
  OBVIOUS
<1>1. \A b \in Branches : branch[b] \in PullRequest
  BY DEF Init, NoPullRequest, PullRequest
<1>2. branch \in [Branches -> PullRequest]
  BY <1>1 DEF Init
<1>3. /\ validation \in [Branches -> Validation] /\ merge \in [Commits -> Merge]
      /\ replaced \in [Branches -> SUBSET Branches]
  BY DEF Init, Validation, Merge
<1>4. /\ main \in Nat \ {0} /\ commit \in Seq(Commit) /\ runs \in Seq(Run)
      /\ refused \subseteq Commits /\ crashes \in 0..MaxCrashes
  BY ConstantsAssumption DEF Init
<1>5. Len(commit) <= MaxCommits
  BY Numbers DEF Init
<1>6. worker \in Worker
  BY DEF Init, WorkerIdle, Worker
<1> QED BY <1>2, <1>3, <1>4, <1>5, <1>6, JobTypes DEF Init, TypeOK

LEMMA ObservedType ==
  ASSUME TypeOK, Known
  PROVE  Observed \in Context
<1>1. ASSUME NEW c \in 1..Len(commit)
      PROVE  CIState(c) \in Evidence
  BY DEF CIState, Evidence
<1>2. ASSUME NEW b \in Branches
      PROVE  /\ branch[b].state \in {"absent", "branch", "open", "merged"}
             /\ branch[b].head \in Commits \cup {NoCommit}
             /\ (IF branch[b].state = "open" THEN CIState(branch[b].head) ELSE "unknown") \in Evidence
  <2>1. branch[b] \in PullRequest
    BY DEF TypeOK
  <2>2. CASE branch[b].state = "open"
    BY <1>1, <2>1, <2>2 DEF Known, PushedTo, PullRequest
  <2>3. CASE branch[b].state # "open"
    BY <2>1, <2>3 DEF PullRequest, Evidence
  <2> QED BY <2>2, <2>3
<1>3. main \in Nat
  BY DEF TypeOK
<1> QED BY <1>2, <1>3 DEF Observed, Context, View

\* Pushing a commit keeps the types.
LEMMA NewCommitType ==
  ASSUME TypeOK, NEW b \in Branches, NewCommit(b)
  PROVE  TypeOK'
<1>1. Len(commit) \in Nat /\ Len(commit) + 1 \in Commits
  BY Numbers DEF TypeOK, NewCommit, Commits
<1>2. commit' \in Seq(Commit) /\ Len(commit') <= MaxCommits
  <2>1. PICK sound \in BOOLEAN :
          commit' = Append(commit, [on |-> b, sound |-> sound, checks |-> "none", status |-> "none"])
    BY DEF NewCommit
  <2>2. [on |-> b, sound |-> sound, checks |-> "none", status |-> "none"] \in Commit
    BY DEF Commit, Outcome
  <2>3. commit \in Seq(Commit)
    BY DEF TypeOK
  <2>4. commit' \in Seq(Commit) /\ Len(commit') = Len(commit) + 1
    BY <2>1, <2>2, <2>3
  <2> QED BY <1>1, <2>4, Numbers DEF NewCommit
<1>3. branch' \in [Branches -> PullRequest]
  BY <1>1 DEF TypeOK, NewCommit, PullRequest
<1>4. runs' \in Seq(Run)
  <2>1. [branch |-> b, head |-> Len(commit) + 1, own |-> FALSE, main |-> 0, phase |-> "queued"] \in Run
    BY <1>1 DEF Run
  <2>2. runs' = runs \/ runs' = Append(runs,
          [branch |-> b, head |-> Len(commit) + 1, own |-> FALSE, main |-> 0, phase |-> "queued"])
    BY DEF NewCommit
  <2>3. runs \in Seq(Run)
    BY DEF TypeOK
  <2> QED BY <2>1, <2>2, <2>3
<1> QED BY <1>2, <1>3, <1>4 DEF NewCommit, TypeOK, durable, history

\* A worker that acts does so for a commit that was pushed.
LEMMA WorkerHead ==
  ASSUME TypeOK, Known, Merging, worker.pc # "idle"
  PROVE  /\ worker.head \in Commits /\ worker.head \in 1..Len(commit)
         /\ Target(worker.head) \in Branches
<1>1. worker.head \in Commits /\ worker.head \in 1..Len(commit)
  BY DEF Known, Merging
<1>2. commit[worker.head] \in Commit
  BY <1>1 DEF TypeOK
<1> QED BY <1>1, <1>2 DEF Target, Commit

LEMMA TypeStep == TypeOK /\ Known /\ Merging /\ [Next]_vars => TypeOK'
<1> SUFFICES ASSUME TypeOK, Known, Merging, [Next]_vars
             PROVE  TypeOK'
  OBVIOUS
<1> USE DEF github, durable, history
<1>0. job.context.main \in Nat /\ job.on \in Branches /\ job.pc \in Steps
  BY DEF TypeOK, Job, Context
<1>1. CASE Observe
  BY <1>1, ObservedType, Numbers DEF Observe, TypeOK, JobIdle, Job, Steps
<1>2. CASE Decide
  <2>1. ASSUME NEW c \in InFlight, RetireStaleMerge(c)
        PROVE  TypeOK'
    <3>1. c \in Commits /\ [status |-> "rejected", main |-> 0] \in Merge
      BY DEF InFlight, Merge
    <3> QED BY <1>2, <2>1, <3>1, JobTypes, DecideCases DEF RetireStaleMerge, End, TypeOK
  <2>2. ASSUME NEW c \in InFlight, ResumeMerge(c)
        PROVE  TypeOK'
    BY <1>2, <2>2, JobTypes, DecideCases, Numbers DEF ResumeMerge, Go, TypeOK, Steps
  <2>3. ASSUME NEW c \in InFlight, IngestMerge(c)
        PROVE  TypeOK'
    <3>1. c \in Commits /\ merge[c] \in Merge /\ WorkerIdle \in Worker
      BY DEF InFlight, TypeOK, WorkerIdle, Worker
    <3>2. /\ [status |-> "dispatch_intent", main |-> job.context.main] \in Merge
          /\ \A s \in {"suspended", "complete", "rejected"} : [merge[c] EXCEPT !.status = s] \in Merge
      BY <1>0, <3>1 DEF Merge
    <3>3. merge' \in [Commits -> Merge]
      BY <2>3, <3>1, <3>2 DEF IngestMerge, TypeOK
    <3>4. job' \in Job
      BY <2>3, JobTypes, Numbers DEF IngestMerge, Go, End, Steps
    <3> QED BY <1>2, <2>3, <3>1, <3>3, <3>4, DecideCases DEF IngestMerge, TypeOK
  <2>4. CASE ReplaceBranch(job.context)
    <3>1. job.context.main \in Branches
      BY <2>4 DEF ReplaceBranch, NeedsBranch
    <3>2. branch' \in [Branches -> PullRequest]
      <4> DEFINE to == job.context.main
      <4>1. branch \in [Branches -> PullRequest] /\ branch[to] \in PullRequest
        BY <3>1 DEF TypeOK
      <4>2. branch' = branch \/ branch' = [branch EXCEPT ![to] = [branch[to] EXCEPT !.state = "branch"]]
        BY <2>4 DEF ReplaceBranch
      <4>3. [branch[to] EXCEPT !.state = "branch"] \in PullRequest
        BY <4>1, FieldTypes
      <4> QED BY <3>1, <4>1, <4>2, <4>3
    <3>3. replaced' \in [Branches -> SUBSET Branches]
      BY <2>4, <3>1 DEF ReplaceBranch, TypeOK
    <3> QED BY <1>2, <2>4, <3>2, <3>3, JobTypes, DecideCases DEF ReplaceBranch, End, TypeOK
  <2>5. ASSUME NEW b \in Unvalidated(job.context),
               RecordIntent(b, job.context) \/ Resume(b, job.context)
        PROVE  TypeOK'
    <3>1. b \in Branches /\ job.context.view[b].head \in Commits \cup {NoCommit}
      BY DEF Unvalidated, OpenIn, TypeOK, Job, Context, View
    <3>2. [status |-> "dispatch_intent", head |-> job.context.view[b].head,
           main |-> job.context.main] \in Validation
      BY <1>0, <3>1 DEF Validation
    <3>3. validation' \in [Branches -> Validation]
      BY <2>5, <3>1, <3>2 DEF RecordIntent, Resume, TypeOK
    <3>4. job' \in Job
      BY <2>5, <3>1, JobTypes DEF RecordIntent, Resume, Go, Steps
    <3> QED BY <1>2, <2>5, <3>3, <3>4, DecideCases DEF RecordIntent, Resume, TypeOK
  <2>6. ASSUME NEW b \in Ready(job.context),
               merge' = [merge EXCEPT ![job.context.view[b].head] =
                 [status |-> "dispatch_intent", main |-> job.context.main]],
               Go("dispatch_merge", 0), UNCHANGED <<github, validation, worker, history>>
        PROVE  TypeOK'
    <3>1. [status |-> "dispatch_intent", main |-> job.context.main] \in Merge
      BY <1>0 DEF Merge
    <3>2. merge' \in [Commits -> Merge]
      BY <2>6, <3>1 DEF TypeOK
    <3>3. job' \in Job
      BY <2>6, JobTypes, Numbers DEF Go, Steps
    <3> QED BY <1>2, <2>6, <3>2, <3>3, DecideCases DEF TypeOK
  <2>7. CASE Nothing
    BY <1>2, <2>7, JobTypes, DecideCases DEF Nothing, End, TypeOK
  <2> QED BY <1>2, <2>1, <2>2, <2>3, <2>4, <2>5, <2>6, <2>7, DecideCases
<1>3. CASE DispatchValidation
  <2>1. validation[job.on].head \in Commits
    BY <1>0, <1>3 DEF DispatchValidation, Known, TypeOK, Validation
  <2>2. runs' \in Seq(Run)
    <3>1. [branch |-> job.on, head |-> validation[job.on].head, own |-> TRUE,
           main |-> main, phase |-> "queued"] \in Run
      BY <1>0, <2>1 DEF Run, TypeOK
    <3> QED BY <1>3, <3>1 DEF DispatchValidation, TypeOK
  <2>3. job' \in Job
    BY <1>0, <1>3, JobTypes DEF DispatchValidation, Go, End, Steps
  <2> QED BY <1>3, <2>2, <2>3 DEF DispatchValidation, TypeOK
<1>4. CASE ReconcileValidation
  <2>1. job' \in Job
    BY <1>0, <1>4, JobTypes DEF ReconcileValidation, Go, End, Steps
  <2> QED BY <1>4, <2>1 DEF ReconcileValidation, TypeOK
<1>5. CASE RecordReceipt
  <2>1. validation' \in [Branches -> Validation]
    BY <1>0, <1>5 DEF RecordReceipt, TypeOK, Validation
  <2> QED BY <1>5, <2>1, JobTypes DEF RecordReceipt, End, TypeOK
<1>6. CASE DispatchMerge
  <2>1. merge' \in [Commits -> Merge] /\ worker' \in Worker
    BY <1>6 DEF DispatchMerge, InFlight, TypeOK, Merge, Worker
  <2> QED BY <1>6, <2>1, JobTypes DEF DispatchMerge, End, TypeOK
<1>7. CASE WorkerRead
  <2>1. worker' \in Worker /\ refused' \subseteq Commits
    <3>1. worker.head \in Commits
      BY <1>7, WorkerHead DEF WorkerRead
    <3> QED BY <1>7, <3>1 DEF WorkerRead, Report, TypeOK, Worker
  <2> QED BY <1>7, <2>1 DEF WorkerRead, TypeOK
<1>8. CASE WorkerPut
  <2>1. worker' \in Worker
    BY <1>8 DEF WorkerPut, Report, TypeOK, Worker
  <2>2. main' \in Nat \ {0} /\ branch' \in [Branches -> PullRequest]
    <3>1. worker.head \in 1..Len(commit) /\ Target(worker.head) \in Branches
      BY <1>8, WorkerHead DEF WorkerPut
    <3> DEFINE b == Target(worker.head)
    <3>2. branch \in [Branches -> PullRequest] /\ branch[b] \in PullRequest
      BY <3>1 DEF TypeOK
    <3>3. branch' = branch \/ branch' = [branch EXCEPT ![b] = [branch[b] EXCEPT !.state = "merged"]]
      BY <1>8 DEF WorkerPut
    <3>4. [branch[b] EXCEPT !.state = "merged"] \in PullRequest
      BY <3>2, FieldTypes
    <3>5. main' = main \/ main' = main + 1
      BY <1>8 DEF WorkerPut
    <3>6. main' \in Nat \ {0}
      BY <3>5 DEF TypeOK
    <3> HIDE DEF b
    <3> QED BY <3>2, <3>3, <3>4, <3>6
  <2> QED BY <1>8, <2>1, <2>2 DEF WorkerPut, TypeOK
<1>9. CASE WorkerVerify
  <2>1. worker' \in Worker
    BY <1>9 DEF WorkerVerify, Report, TypeOK, Worker
  <2> QED BY <1>9, <2>1 DEF WorkerVerify, TypeOK
<1>10. ASSUME NEW r \in 1..Len(runs), Judge(r)
       PROVE  TypeOK'
  <2>1. runs' \in Seq(Run)
    <3>1. runs \in Seq(Run) /\ runs[r] \in Run
      BY <1>10 DEF TypeOK
    <3>2. \/ runs' = [runs EXCEPT ![r] = [runs[r] EXCEPT !.phase = "passed"]]
          \/ runs' = [runs EXCEPT ![r] = [runs[r] EXCEPT !.phase = "failed"]]
      BY <1>10 DEF Judge, SetPhase
    <3>3. [runs[r] EXCEPT !.phase = "passed"] \in Run /\ [runs[r] EXCEPT !.phase = "failed"] \in Run
      BY <3>1, FieldTypes
    <3> QED BY <3>1, <3>2, <3>3, SeqUpdate
  <2> QED BY <1>10, <2>1 DEF Judge, TypeOK
<1>11. ASSUME NEW r \in 1..Len(runs), Publish(r)
       PROVE  TypeOK'
  <2>1. runs' \in Seq(Run)
    <3>1. runs \in Seq(Run) /\ runs[r] \in Run
      BY <1>11 DEF TypeOK
    <3>2. runs' = [runs EXCEPT ![r] = [runs[r] EXCEPT !.phase = "published"]]
      BY <1>11 DEF Publish, SetPhase
    <3>3. [runs[r] EXCEPT !.phase = "published"] \in Run
      BY <3>1, FieldTypes
    <3> QED BY <3>1, <3>2, <3>3, SeqUpdate
  <2>2. commit' \in Seq(Commit) /\ Len(commit') = Len(commit)
    <3> DEFINE c == runs[r].head
    <3>1. c \in 1..Len(commit) /\ commit \in Seq(Commit)
      BY <1>11 DEF Known, PushedTo, TypeOK
    <3>2. PICK o \in {"success", "failure"} : commit' = [commit EXCEPT ![c] = [commit[c] EXCEPT !.status = o]]
      BY <1>11 DEF Publish
    <3> HIDE DEF c
    <3>3. commit[c] \in Commit
      BY <3>1
    <3>4. [commit[c] EXCEPT !.status = o] \in Commit
      BY <3>2, <3>3, FieldTypes
    <3>5. commit' \in Seq(Commit) /\ Len(commit') = Len(commit)
      BY <3>1, <3>2, <3>4, SeqUpdate
    <3> QED BY <3>5
  <2> QED BY <1>11, <2>1, <2>2 DEF Publish, TypeOK
<1>12. ASSUME NEW c \in 1..Len(commit), OrdinaryCI(c)
       PROVE  TypeOK'
  <2>1. commit' \in Seq(Commit) /\ Len(commit') = Len(commit)
    <3>1. commit \in Seq(Commit) /\ commit[c] \in Commit
      BY <1>12 DEF TypeOK
    <3>2. PICK o \in {"pending", "success", "failure"} :
            commit' = [commit EXCEPT ![c] = [commit[c] EXCEPT !.checks = o]]
      BY <1>12 DEF OrdinaryCI
    <3>3. [commit[c] EXCEPT !.checks = o] \in Commit
      BY <3>1, <3>2, FieldTypes
    <3>4. commit' \in Seq(Commit) /\ Len(commit') = Len(commit)
      BY <3>1, <3>2, <3>3, SeqUpdate
    <3> QED BY <3>4
  <2> QED BY <1>12, <2>1 DEF OrdinaryCI, TypeOK
<1>13. CASE MoveMain
  <2>1. PICK hit : branch' = [b \in Branches |-> [branch[b] EXCEPT !.conflict = @ \/ b \in hit]]
    BY <1>13 DEF MoveMain
  <2>2. branch' \in [Branches -> PullRequest]
    BY <2>1 DEF TypeOK, PullRequest
  <2>3. main' \in Nat \ {0}
    BY <1>13 DEF MoveMain, TypeOK
  <2> QED BY <1>13, <2>2, <2>3 DEF MoveMain, TypeOK
<1>14. CASE Crash
  <2>1. crashes' \in 0..MaxCrashes
    BY <1>14, ConstantsAssumption DEF Crash, TypeOK
  <2> QED BY <1>14, <2>1, JobTypes DEF Crash, End, TypeOK
<1>15. ASSUME NEW b \in Branches, OpenPullRequest(b) \/ Push(b)
       PROVE  TypeOK'
  BY <1>15, NewCommitType DEF OpenPullRequest, Push
<1>16. CASE UNCHANGED vars
  BY <1>16 DEF vars, TypeOK
<1> QED
  BY <1>1, <1>2, <1>3, <1>4, <1>5, <1>6, <1>7, <1>8, <1>9, <1>10, <1>11, <1>12, <1>13, <1>14, <1>15,
     <1>16 DEF Next, Bootstrap, MergeWorker, ValidationRuns, World

-----------------------------------------------------------------------------
(* Who writes what.                                                         *)

Pushes == \E b \in Branches : OpenPullRequest(b) \/ Push(b)
Judges == \E r \in 1..Len(runs) : Judge(r)
Publishes == \E r \in 1..Len(runs) : Publish(r)
Checks == \E c \in 1..Len(commit) : OrdinaryCI(c)
Records == Decide /\ \E b \in Unvalidated(job.context) : RecordIntent(b, job.context)
Replaces == Decide /\ InFlight = {} /\ ReplaceBranch(job.context)
Ingests == Decide /\ \E c \in InFlight : IngestMerge(c)

LEMMA WritersOf ==
  ASSUME [Next]_vars
  PROVE  /\ branch' = branch \/ Replaces \/ WorkerPut \/ MoveMain \/ Pushes
         /\ validation' = validation \/ RecordReceipt \/ Records
         /\ merge' = merge \/ Decide \/ DispatchMerge
         /\ runs' = runs \/ DispatchValidation \/ Judges \/ Publishes \/ Pushes
         /\ commit' = commit \/ Publishes \/ Checks \/ Pushes
         /\ job' = job \/ Bootstrap \/ Crash
         /\ worker' = worker \/ MergeWorker \/ Ingests \/ DispatchMerge
         /\ replaced' = replaced \/ Replaces
<1> USE DEF github, durable, history
<1>1. CASE Decide
  BY <1>1, DecideCases
     DEF RetireStaleMerge, ResumeMerge, IngestMerge, ReplaceBranch, RecordIntent, Resume, Nothing,
         Bootstrap, Records, Replaces, Ingests
<1>2. CASE Observe \/ DispatchValidation \/ ReconcileValidation \/ RecordReceipt \/ DispatchMerge
  BY <1>2
     DEF Observe, DispatchValidation, ReconcileValidation, RecordReceipt, DispatchMerge, Bootstrap
<1>3. CASE MergeWorker
  BY <1>3 DEF MergeWorker, WorkerRead, WorkerPut, WorkerVerify
<1>4. CASE Judges \/ Publishes \/ Checks
  BY <1>4 DEF Judges, Publishes, Checks, Judge, Publish, OrdinaryCI
<1>5. CASE MoveMain \/ Crash
  BY <1>5 DEF MoveMain, Crash
<1>6. CASE Pushes
  BY <1>6 DEF Pushes, OpenPullRequest, Push, NewCommit
<1>7. CASE UNCHANGED vars
  BY <1>7 DEF vars
<1> QED BY <1>1, <1>2, <1>3, <1>4, <1>5, <1>6, <1>7
        DEF Next, Bootstrap, ValidationRuns, World, Judges, Publishes, Checks, Pushes

\* What a push does.
LEMMA PushSteps ==
  ASSUME TypeOK, Pushes
  PROVE  \E b \in Branches, sound \in BOOLEAN :
           LET c == Len(commit) + 1 IN
           /\ \/ branch[b].state = "branch"
              \/ branch[b].state = "open" /\ merge[branch[b].head].status # "rejected"
           /\ commit' = Append(commit, [on |-> b, sound |-> sound, checks |-> "none", status |-> "none"])
           /\ branch' = [branch EXCEPT ![b] = [state |-> "open", head |-> c, conflict |-> FALSE]]
           /\ \/ runs' = runs
              \/ runs' = Append(runs, [branch |-> b, head |-> c, own |-> FALSE, main |-> 0, phase |-> "queued"])
           /\ UNCHANGED <<main, durable, worker, history, job, crashes>>
<1>1. PICK b \in Branches : OpenPullRequest(b) \/ Push(b)
  BY DEF Pushes
<1>2. NewCommit(b)
  BY <1>1 DEF OpenPullRequest, Push
<1>3. PICK sound \in BOOLEAN :
        commit' = Append(commit, [on |-> b, sound |-> sound, checks |-> "none", status |-> "none"])
  BY <1>2 DEF NewCommit
<1> QED BY <1>1, <1>2, <1>3 DEF NewCommit, OpenPullRequest, Push

\* Commits stay what they are, with more or other evidence.
LEMMA CommitsStay ==
  ASSUME TypeOK, Known, [Next]_vars
  PROVE  /\ Len(commit) <= Len(commit')
         /\ \A c \in 1..Len(commit) :
              commit'[c].on = commit[c].on /\ commit'[c].sound = commit[c].sound
<1>1. commit \in Seq(Commit) /\ \A c \in 1..Len(commit) : commit[c] \in Commit
  BY DEF TypeOK
<1>2. CASE commit' = commit
  BY <1>1, <1>2
<1>3. ASSUME NEW r \in 1..Len(runs), Publish(r)
      PROVE  /\ Len(commit) <= Len(commit')
             /\ \A c \in 1..Len(commit) :
                  commit'[c].on = commit[c].on /\ commit'[c].sound = commit[c].sound
  <2>1. PICK o : commit' = [commit EXCEPT ![runs[r].head].status = o]
    BY <1>3 DEF Publish
  <2> QED BY <1>1, <2>1 DEF Commit
<1>4. ASSUME NEW d \in 1..Len(commit), OrdinaryCI(d)
      PROVE  /\ Len(commit) <= Len(commit')
             /\ \A c \in 1..Len(commit) :
                  commit'[c].on = commit[c].on /\ commit'[c].sound = commit[c].sound
  <2>1. PICK o : commit' = [commit EXCEPT ![d].checks = o]
    BY <1>4 DEF OrdinaryCI
  <2> QED BY <1>1, <2>1 DEF Commit
<1>5. CASE Pushes
  <2>1. PICK x : commit' = Append(commit, x)
    BY <1>5, PushSteps
  <2> QED BY <1>1, <2>1
<1> QED BY <1>2, <1>3, <1>4, <1>5, WritersOf DEF Publishes, Checks

\* A commit that was pushed to a branch stays so.
LEMMA PushedStays ==
  ASSUME TypeOK, Known, [Next]_vars, NEW c, NEW b, PushedTo(c, b)
  PROVE  PushedTo(c, b)'
<1>1. Len(commit) \in Nat /\ Len(commit') \in Nat
  <2>1. commit \in Seq(Commit)
    BY DEF TypeOK
  <2>2. CASE Pushes
    <3>1. PICK x : commit' = Append(commit, x)
      BY <2>2, PushSteps
    <3> QED BY <2>1, <3>1
  <2>3. CASE Publishes
    <3>1. PICK d, o : commit' = [commit EXCEPT ![d].status = o]
      BY <2>3 DEF Publishes, Publish
    <3> QED BY <2>1, <3>1
  <2>4. CASE Checks
    <3>1. PICK d, o : commit' = [commit EXCEPT ![d].checks = o]
      BY <2>4 DEF Checks, OrdinaryCI
    <3> QED BY <2>1, <3>1
  <2> QED BY <2>1, <2>2, <2>3, <2>4, WritersOf
<1> QED BY <1>1, CommitsStay DEF PushedTo

\* What may become of a branch.
LEMMA BranchMoves ==
  ASSUME TypeOK, Known, Merging, [Next]_vars, NEW b \in Branches
  PROVE  \/ branch'[b].state = branch[b].state /\ branch'[b].head = branch[b].head
         \/ /\ branch[b].state = "absent" /\ branch'[b].state = "branch"
            /\ branch'[b].head = branch[b].head
         \/ /\ branch[b].state = "open" /\ branch'[b].state = "merged"
            /\ branch'[b].head = branch[b].head
            /\ branch[b].head = worker.head /\ worker.pc = "put"
         \/ /\ Pushes
            /\ \/ branch[b].state = "branch"
               \/ branch[b].state = "open" /\ merge[branch[b].head].status # "rejected"
            /\ branch'[b].state = "open" /\ branch'[b].head = Len(commit) + 1
            /\ PushedTo(branch[b].head, b)'
<1>1. branch \in [Branches -> PullRequest] /\ branch[b] \in PullRequest
  BY DEF TypeOK
<1>2. CASE Replaces
  <2>1. \/ branch' = branch
        \/ /\ branch[job.context.main].state = "absent"
           /\ branch' = [branch EXCEPT ![job.context.main].state = "branch"]
    BY <1>2 DEF Replaces, ReplaceBranch
  <2> QED BY <1>1, <2>1 DEF PullRequest
<1>3. CASE WorkerPut
  <2>1. worker.pc = "put" /\ Target(worker.head) \in Branches
    BY <1>3, WorkerHead DEF WorkerPut
  <2>2. \/ branch' = branch
        \/ /\ Accepts(worker.head)
           /\ branch' = [branch EXCEPT ![Target(worker.head)].state = "merged"]
    BY <1>3 DEF WorkerPut
  <2> QED BY <1>1, <2>1, <2>2 DEF PullRequest, Accepts
<1>4. CASE MoveMain
  <2>1. PICK hit : branch' = [d \in Branches |-> [branch[d] EXCEPT !.conflict = @ \/ d \in hit]]
    BY <1>4 DEF MoveMain
  <2> QED BY <1>1, <2>1 DEF PullRequest
<1>5. CASE Pushes
  <2>1. PICK d \in Branches, sound \in BOOLEAN :
          /\ \/ branch[d].state = "branch"
             \/ branch[d].state = "open" /\ merge[branch[d].head].status # "rejected"
          /\ commit' = Append(commit, [on |-> d, sound |-> sound, checks |-> "none", status |-> "none"])
          /\ branch' = [branch EXCEPT ![d] = [state |-> "open", head |-> Len(commit) + 1, conflict |-> FALSE]]
    BY <1>5, PushSteps
  <2>2. commit \in Seq(Commit) /\ Len(commit) \in Nat
    BY DEF TypeOK
  <2>3. Len(commit') = Len(commit) + 1 /\ commit'[Len(commit) + 1].on = d
    BY <2>1, <2>2
  <2>5. CASE d = b
    <3>1. branch'[b].state = "open" /\ branch'[b].head = Len(commit) + 1
      BY <1>1, <2>1, <2>5
    <3>2. PushedTo(branch[b].head, b)'
      BY <2>2, <2>3, <2>5, <3>1 DEF PushedTo
    <3> QED BY <1>5, <2>1, <2>5, <3>1, <3>2
  <2>6. CASE d # b
    BY <1>1, <2>1, <2>6
  <2> QED BY <2>5, <2>6
<1> QED BY <1>2, <1>3, <1>4, <1>5, WritersOf

\* What the controller observes as open has a head.
LEMMA ReadyHead ==
  ASSUME TypeOK, Known, NEW b \in OpenIn(job.context)
  PROVE  /\ b \in Branches /\ job.context.view[b].head \in Commits
         /\ PushedTo(job.context.view[b].head, b)
<1>1. b \in Branches /\ PushedTo(job.context.view[b].head, b)
  BY DEF OpenIn, Known
<1>2. Len(commit) \in Nat /\ Len(commit) <= MaxCommits
  BY DEF TypeOK
<1> QED BY <1>1, <1>2, Numbers DEF PushedTo, Commits

\* The run goes on without what it observed.
LEMMA GoOn ==
  /\ End => job'.context = NoContext /\ job'.pc = "idle"
  /\ \A pc, b : Go(pc, b) => job'.context = NoContext /\ job'.pc = pc /\ job'.on = b
<1>1. End => job'.context = NoContext /\ job'.pc = "idle"
  BY DEF End, JobIdle
<1>2. ASSUME NEW pc, NEW b, Go(pc, b)
      PROVE  job'.context = NoContext /\ job'.pc = pc /\ job'.on = b
  <2>1. job' = [pc |-> pc, on |-> b, context |-> NoContext]
    BY <1>2 DEF Go, JobIdle
  <2> QED BY <2>1
<1> QED BY <1>1, <1>2

\* A run that has decided has forgotten what it observed.
LEMMA DecideJob ==
  ASSUME TypeOK, Known, Decide
  PROVE  /\ job'.context = NoContext /\ job'.pc # "deciding"
         /\ job'.pc = "dispatch_validation" =>
              \E b \in Unvalidated(job.context) : RecordIntent(b, job.context) /\ job'.on = b
         /\ job'.pc = "reconcile_validation" =>
              \E b \in Unvalidated(job.context) : Resume(b, job.context) /\ job'.on = b
         /\ job'.pc = "dispatch_merge" =>
              \E c \in Commits : merge'[c].status = "dispatch_intent"
<1>2. ASSUME NEW c \in InFlight, RetireStaleMerge(c)
      PROVE  job'.context = NoContext /\ job'.pc = "idle"
  BY GoOn, <1>2 DEF RetireStaleMerge
<1>3. ASSUME NEW c \in InFlight, ResumeMerge(c)
      PROVE  /\ job'.context = NoContext /\ job'.pc = "dispatch_merge"
             /\ merge'[c].status = "dispatch_intent" /\ c \in Commits
  BY GoOn, <1>3 DEF ResumeMerge, durable, InFlight
<1>4. ASSUME NEW c \in InFlight, IngestMerge(c)
      PROVE  /\ job'.context = NoContext /\ job'.pc \in {"idle", "dispatch_merge"}
             /\ job'.pc = "dispatch_merge" => merge'[c].status = "dispatch_intent" /\ c \in Commits
  <2>1. c \in Commits /\ merge \in [Commits -> Merge]
    BY DEF InFlight, TypeOK
  <2>2. \/ End
        \/ /\ Go("dispatch_merge", 0)
           /\ merge' = [merge EXCEPT ![c] = [status |-> "dispatch_intent", main |-> job.context.main]]
    BY <1>4 DEF IngestMerge
  <2> QED BY GoOn, <2>1, <2>2
<1>5. CASE ReplaceBranch(job.context) \/ Nothing
  <2>1. End
    BY <1>5 DEF ReplaceBranch, Nothing
  <2> QED BY GoOn, <2>1
<1>6. ASSUME NEW b \in Unvalidated(job.context), RecordIntent(b, job.context)
      PROVE  job'.context = NoContext /\ job'.pc = "dispatch_validation" /\ job'.on = b
  BY GoOn, <1>6 DEF RecordIntent
<1>7. ASSUME NEW b \in Unvalidated(job.context), Resume(b, job.context)
      PROVE  job'.context = NoContext /\ job'.pc = "reconcile_validation" /\ job'.on = b
  BY GoOn, <1>7 DEF Resume
<1>8. ASSUME NEW b \in Ready(job.context),
             merge[job.context.view[b].head].status = "none",
             merge' = [merge EXCEPT ![job.context.view[b].head] =
               [status |-> "dispatch_intent", main |-> job.context.main]],
             Go("dispatch_merge", 0)
      PROVE  /\ job'.context = NoContext /\ job'.pc = "dispatch_merge"
             /\ \E c \in Commits : merge'[c].status = "dispatch_intent"
  <2>1. job.context.view[b].head \in Commits
    BY <1>8, ReadyHead DEF Ready
  <2>2. merge'[job.context.view[b].head].status = "dispatch_intent"
    BY <1>8, <2>1 DEF TypeOK
  <2> QED BY GoOn, <1>8, <2>1, <2>2
<1> QED BY <1>2, <1>3, <1>4, <1>5, <1>6, <1>7, <1>8, DecideCases

\* What may become of the bootstrap run.
LEMMA JobMoves ==
  ASSUME TypeOK, Known, [Next]_vars
  PROVE  \/ job' = job
         \/ Observe
         \/ /\ job'.context = NoContext /\ job'.pc # "deciding"
            /\ job'.pc = "dispatch_validation" =>
                 \/ ReconcileValidation /\ OwnRuns(job.on) = {} /\ job'.on = job.on
                 \/ Decide /\ \E b \in Unvalidated(job.context) :
                      RecordIntent(b, job.context) /\ job'.on = b
            /\ job'.pc = "reconcile_validation" =>
                 Decide /\ \E b \in Unvalidated(job.context) :
                   Resume(b, job.context) /\ job'.on = b
            /\ job'.pc = "dispatch_merge" =>
                 Decide /\ \E c \in Commits : merge'[c].status = "dispatch_intent"
<1>2. CASE Decide
  BY <1>2, DecideJob
<1>3. CASE DispatchValidation \/ RecordReceipt \/ DispatchMerge \/ Crash
  <2>1. End \/ Go("record_receipt", job.on)
    BY <1>3 DEF DispatchValidation, RecordReceipt, DispatchMerge, Crash
  <2> QED BY GoOn, <2>1
<1>4. CASE ReconcileValidation
  <2>1. \/ End \/ Go("record_receipt", job.on)
        \/ OwnRuns(job.on) = {} /\ Go("dispatch_validation", job.on)
    BY <1>4 DEF ReconcileValidation
  <2> QED BY GoOn, <1>4, <2>1
<1> QED BY <1>2, <1>3, <1>4, WritersOf DEF Bootstrap

\* What may become of the merge actions, and of the worker with them.
LEMMA MergeMoves ==
  ASSUME TypeOK, Known, [Next]_vars
  PROVE  \/ merge' = merge /\ (worker' = worker \/ MergeWorker)
         \/ /\ Decide
            /\ \E c \in InFlight, x \in Merge :
                 /\ merge' = [merge EXCEPT ![c] = x] /\ x.status # "none"
                 /\ \/ worker' = WorkerIdle
                    \/ worker' = worker /\ merge[c].status = "dispatch_intent"
         \/ /\ Decide /\ InFlight = {} /\ worker' = worker
            /\ \E b \in OpenIn(job.context), x \in Merge :
                 LET c == job.context.view[b].head IN
                 /\ merge[c].status = "none"
                 /\ merge' = [merge EXCEPT ![c] = x]
         \/ /\ DispatchMerge
            /\ \E c \in InFlight, x \in Merge :
                 /\ merge' = [merge EXCEPT ![c] = x] /\ x.status = "dispatched"
                 /\ worker' = [pc |-> "read", head |-> c]
<1>1. merge \in [Commits -> Merge] /\ job.context.main \in Nat
  BY DEF TypeOK, Job, Context
<1>2. CASE Decide
  <2>1. ASSUME NEW c \in InFlight, RetireStaleMerge(c)
        PROVE  \E x \in Merge : /\ merge' = [merge EXCEPT ![c] = x] /\ x.status # "none"
                                /\ worker' = worker /\ merge[c].status = "dispatch_intent"
    <3>1. [status |-> "rejected", main |-> 0] \in Merge
      BY DEF Merge
    <3> QED BY <2>1, <3>1 DEF RetireStaleMerge
  <2>2. ASSUME NEW c \in InFlight, IngestMerge(c)
        PROVE  \E x \in Merge : /\ merge' = [merge EXCEPT ![c] = x] /\ x.status # "none"
                                /\ worker' = WorkerIdle
    <3>1. merge[c] \in Merge
      BY <1>1 DEF InFlight
    <3>2. /\ [status |-> "dispatch_intent", main |-> job.context.main] \in Merge
          /\ \A v \in {"suspended", "complete", "rejected"} :
               [merge[c] EXCEPT !.status = v] \in Merge /\ [merge[c] EXCEPT !.status = v].status = v
      BY <1>1, <3>1 DEF Merge
    <3>3. worker' = WorkerIdle
      BY <2>2 DEF IngestMerge
    <3>4. \/ merge' = [merge EXCEPT ![c] = [status |-> "dispatch_intent", main |-> job.context.main]]
          \/ merge' = [merge EXCEPT ![c] = [merge[c] EXCEPT !.status = "suspended"]]
          \/ merge' = [merge EXCEPT ![c] = [merge[c] EXCEPT !.status = worker.pc]]
             /\ worker.pc \in {"complete", "rejected"}
      BY <2>2 DEF IngestMerge
    <3> QED BY <3>2, <3>3, <3>4
  <2>3. ASSUME NEW b \in Ready(job.context),
               merge' = [merge EXCEPT ![job.context.view[b].head] =
                 [status |-> "dispatch_intent", main |-> job.context.main]]
        PROVE  /\ b \in OpenIn(job.context)
               /\ \E x \in Merge : merge' = [merge EXCEPT ![job.context.view[b].head] = x]
    <3>1. [status |-> "dispatch_intent", main |-> job.context.main] \in Merge
      BY <1>1 DEF Merge
    <3> QED BY <2>3, <3>1 DEF Ready
  <2>4. ASSUME NEW c \in InFlight, ResumeMerge(c)
        PROVE  merge' = merge /\ worker' = worker
    BY <2>4 DEF ResumeMerge, durable
  <2>5. CASE ReplaceBranch(job.context) \/ Nothing
    BY <2>5 DEF ReplaceBranch, Nothing, durable
  <2>6. ASSUME NEW b \in Unvalidated(job.context), RecordIntent(b, job.context) \/ Resume(b, job.context)
        PROVE  merge' = merge /\ worker' = worker
    BY <2>6 DEF RecordIntent, Resume, durable
  <2> QED BY <1>2, <2>1, <2>2, <2>3, <2>4, <2>5, <2>6, DecideCases
<1>3. CASE DispatchMerge
  <2>1. [status |-> "dispatched", main |-> 0] \in Merge
    BY DEF Merge
  <2> QED BY <1>3, <2>1 DEF DispatchMerge
<1>4. CASE merge' = merge /\ ~Decide
  BY <1>3, <1>4, WritersOf DEF Ingests
<1> QED BY <1>2, <1>3, <1>4, WritersOf

\* What may become of a validation.
LEMMA ValidationMoves ==
  ASSUME TypeOK, Known, [Next]_vars, NEW b \in Branches
  PROVE  \/ validation'[b].head = validation[b].head
         \/ /\ Decide /\ b \in OpenIn(job.context) /\ RecordIntent(b, job.context)
            /\ validation'[b].head = job.context.view[b].head
            /\ validation[b].head # job.context.view[b].head
<1>1. validation \in [Branches -> Validation]
  BY DEF TypeOK
<1>2. CASE RecordReceipt
  BY <1>1, <1>2 DEF RecordReceipt, Validation
<1>3. ASSUME NEW d \in Unvalidated(job.context), RecordIntent(d, job.context), Decide
      PROVE  \/ validation'[b].head = validation[b].head
             \/ /\ Decide /\ b \in OpenIn(job.context) /\ RecordIntent(b, job.context)
                /\ validation'[b].head = job.context.view[b].head
                /\ validation[b].head # job.context.view[b].head
  <2>1. /\ validation[d].head # job.context.view[d].head
        /\ validation' = [validation EXCEPT ![d] =
             [status |-> "dispatch_intent", head |-> job.context.view[d].head, main |-> job.context.main]]
    BY <1>3 DEF RecordIntent
  <2>2. CASE d = b
    BY <1>1, <1>3, <2>1, <2>2 DEF Unvalidated
  <2>3. CASE d # b
    BY <1>1, <2>1, <2>3
  <2> QED BY <2>2, <2>3
<1> QED BY <1>2, <1>3, WritersOf DEF Records

\* What may become of a validation run, and which runs are new.
LEMMA RunMoves ==
  ASSUME TypeOK, Known, [Next]_vars, NEW r \in 1..Len(runs')
  PROVE  \/ /\ r \in 1..Len(runs) /\ runs'[r].branch = runs[r].branch
            /\ runs'[r].head = runs[r].head /\ runs'[r].own = runs[r].own
            /\ runs'[r].phase = "passed" =>
                 runs[r].phase = "passed" \/ commit[runs[r].head].sound
         \/ /\ r = Len(runs) + 1 /\ ~runs'[r].own /\ runs'[r].phase = "queued"
            /\ Pushes /\ runs'[r].head \in 1..Len(commit')
            /\ commit'[runs'[r].head].on = runs'[r].branch
         \/ /\ r = Len(runs) + 1 /\ DispatchValidation /\ runs'[r].phase = "queued"
            /\ runs'[r].head = validation[job.on].head /\ runs'[r].branch = job.on
<1>1. runs \in Seq(Run) /\ Len(runs) \in Nat /\ \A i \in 1..Len(runs) : runs[i] \in Run
  BY DEF TypeOK
<1>2. CASE runs' = runs
  BY <1>1, <1>2
<1>3. CASE DispatchValidation
  <2>1. runs' = Append(runs, [branch |-> job.on, head |-> validation[job.on].head, own |-> TRUE,
                              main |-> main, phase |-> "queued"])
    BY <1>3 DEF DispatchValidation
  <2>2. Len(runs') = Len(runs) + 1 /\ \A i \in 1..Len(runs) : runs'[i] = runs[i]
    BY <1>1, <2>1
  <2>3. runs'[Len(runs) + 1] = [branch |-> job.on, head |-> validation[job.on].head, own |-> TRUE,
                                main |-> main, phase |-> "queued"]
    BY <1>1, <2>1
  <2> QED BY <1>1, <1>3, <2>2, <2>3
<1>4. ASSUME NEW i \in 1..Len(runs), Judge(i) \/ Publish(i)
      PROVE  /\ r \in 1..Len(runs) /\ runs'[r].branch = runs[r].branch
             /\ runs'[r].head = runs[r].head /\ runs'[r].own = runs[r].own
             /\ runs'[r].phase = "passed" =>
                  runs[r].phase = "passed" \/ commit[runs[r].head].sound
  <2>1. PICK phase \in {"passed", "failed", "published"} :
          /\ runs' = [runs EXCEPT ![i].phase = phase]
          /\ phase = "passed" => commit[runs[i].head].sound
    BY <1>4 DEF Judge, Publish, SetPhase
  <2>2. r \in 1..Len(runs) /\ runs[r] \in Run /\ runs[i] \in Run
    BY <1>1, <2>1
  <2>3. CASE r = i
    BY <1>1, <2>1, <2>2, <2>3 DEF Run
  <2>4. CASE r # i
    BY <1>1, <2>1, <2>2, <2>4
  <2> QED BY <2>3, <2>4
<1>5. CASE Pushes /\ runs' # runs
  <2>1. PICK b \in Branches, sound \in BOOLEAN :
          /\ commit' = Append(commit, [on |-> b, sound |-> sound, checks |-> "none", status |-> "none"])
          /\ runs' = Append(runs, [branch |-> b, head |-> Len(commit) + 1, own |-> FALSE,
                                   main |-> 0, phase |-> "queued"])
    BY <1>5, PushSteps
  <2>2. commit \in Seq(Commit) /\ Len(commit) \in Nat
    BY DEF TypeOK
  <2>3. Len(commit') = Len(commit) + 1 /\ commit'[Len(commit) + 1].on = b
    BY <2>1, <2>2
  <2>4. Len(runs') = Len(runs) + 1 /\ \A i \in 1..Len(runs) : runs'[i] = runs[i]
    BY <1>1, <2>1
  <2>5. runs'[Len(runs) + 1] = [branch |-> b, head |-> Len(commit) + 1, own |-> FALSE,
                                main |-> 0, phase |-> "queued"]
    BY <1>1, <2>1
  <2>6. CASE r = Len(runs) + 1
    BY <1>5, <2>2, <2>3, <2>5, <2>6
  <2>7. CASE r # Len(runs) + 1
    BY <1>1, <2>4, <2>7
  <2> QED BY <2>6, <2>7
<1> QED BY <1>2, <1>3, <1>4, <1>5, WritersOf DEF Judges, Publishes

-----------------------------------------------------------------------------
(* The parts of the invariant, each after any step.                         *)

LEMMA KnownStep == TypeOK /\ Known /\ Merging /\ [Next]_vars => Known'
<1> SUFFICES ASSUME TypeOK, Known, Merging, [Next]_vars
             PROVE  Known'
  OBVIOUS
<1>1. ASSUME NEW b \in Branches, branch'[b].state \in {"open", "merged"}
      PROVE  PushedTo(branch[b].head, b)'
  <2>1. CASE /\ branch[b].state \in {"open", "merged"}
             /\ branch'[b].head = branch[b].head
    <3> DEFINE h == branch[b].head
    <3>1. PushedTo(h, b)
      BY <2>1 DEF Known
    <3>2. h \in 1..Len(commit') /\ commit'[h].on = b
      <4> HIDE DEF h
      <4> QED BY <3>1, PushedStays DEF PushedTo
    <3> QED BY <2>1, <3>2 DEF PushedTo
  <2> QED BY <1>1, <2>1, BranchMoves
<1>2. ASSUME NEW b \in Branches, branch'[b].state \in {"absent", "branch"}
      PROVE  branch'[b].head = NoCommit
  BY <1>2, BranchMoves DEF Known
<1>3. ASSUME NEW b \in Branches, validation'[b].head # NoCommit
      PROVE  PushedTo(validation[b].head, b)'
  <2>1. PICK h : h = validation'[b].head
    OBVIOUS
  <2>2. PushedTo(h, b)
    BY <1>3, <2>1, ValidationMoves, ReadyHead DEF Known
  <2>3. h \in 1..Len(commit') /\ commit'[h].on = b
    BY <2>2, PushedStays DEF PushedTo
  <2> QED BY <2>1, <2>3 DEF PushedTo
<1>4. ASSUME NEW b \in Branches, job'.context.view[b].state = "open"
      PROVE  PushedTo(job.context.view[b].head, b)'
  <2>1. PICK h : h = job'.context.view[b].head
    OBVIOUS
  <2>2. PushedTo(h, b)
    <3>1. CASE job' = job
      BY <1>4, <2>1, <3>1 DEF Known
    <3>2. CASE Observe
      <4>1. job'.context = Observed
        BY <3>2 DEF Observe, JobIdle
      <4> QED BY <1>4, <2>1, <4>1 DEF Observed, Known
    <3>3. CASE job'.context = NoContext
      BY <1>4, <3>3 DEF NoContext
    <3> QED BY <3>1, <3>2, <3>3, JobMoves
  <2>3. h \in 1..Len(commit') /\ commit'[h].on = b
    BY <2>2, PushedStays DEF PushedTo
  <2> QED BY <2>1, <2>3 DEF PushedTo
<1>5. ASSUME NEW r \in 1..Len(runs')
      PROVE  PushedTo(runs[r].head, runs[r].branch)'
  <2>1. CASE /\ r \in 1..Len(runs) /\ runs'[r].branch = runs[r].branch
             /\ runs'[r].head = runs[r].head
    <3>1. PICK h, b : h = runs[r].head /\ b = runs[r].branch
      OBVIOUS
    <3>2. h \in 1..Len(commit') /\ commit'[h].on = b
      BY <2>1, <3>1, PushedStays DEF PushedTo, Known
    <3> QED BY <2>1, <3>1, <3>2 DEF PushedTo
  <2>2. CASE DispatchValidation /\ runs'[r].head = validation[job.on].head /\ runs'[r].branch = job.on
    <3>1. PICK h, b : h = validation[job.on].head /\ b = job.on
      OBVIOUS
    <3>2. PushedTo(h, b)
      BY <2>2, <3>1 DEF DispatchValidation, Known, TypeOK, Job
    <3>3. h \in 1..Len(commit') /\ commit'[h].on = b
      BY <3>2, PushedStays DEF PushedTo
    <3> QED BY <2>2, <3>1, <3>3 DEF PushedTo
  <2> QED BY <2>1, <2>2, RunMoves DEF PushedTo
<1>6. ASSUME NEW c \in Commits, merge'[c].status # "none"
      PROVE  c \in 1..Len(commit')
  <2>1. c \in 1..Len(commit)
    <3>1. merge[c].status # "none" => c \in 1..Len(commit)
      BY DEF Known
    <3>2. \A d \in InFlight : merge[d].status # "none"
      BY DEF InFlight
    <3> QED BY <1>6, <3>1, <3>2, MergeMoves, ReadyHead DEF TypeOK, PushedTo
  <2> QED BY <2>1, PushedStays DEF PushedTo
<1>7. ASSUME job'.pc \in {"dispatch_validation", "reconcile_validation"}
      PROVE  validation'[job'.on].head # NoCommit
  <2>1. \A b \in OpenIn(job.context) : job.context.view[b].head # NoCommit
    BY ReadyHead, Numbers
  <2>2. validation \in [Branches -> Validation] /\ job.on \in Branches
    BY DEF TypeOK, Job
  <2>3. CASE job' = job \/ (ReconcileValidation /\ job'.on = job.on)
    <3>1. validation[job.on].head # NoCommit
      BY <1>7, <2>3 DEF Known, ReconcileValidation
    <3>2. validation'[job.on].head # NoCommit
      BY <2>1, <2>2, <3>1, ValidationMoves
    <3>3. job'.on = job.on
      BY <2>3
    <3> QED BY <3>2, <3>3
  <2>4. ASSUME NEW b \in Unvalidated(job.context), RecordIntent(b, job.context), job'.on = b
        PROVE  validation'[job'.on].head # NoCommit
    BY <2>1, <2>2, <2>4 DEF RecordIntent, Unvalidated, OpenIn
  <2>5. ASSUME NEW b \in Unvalidated(job.context), Resume(b, job.context), job'.on = b
        PROVE  validation'[job'.on].head # NoCommit
    BY <2>1, <2>5 DEF Resume, durable, Unvalidated
  <2> QED BY <1>7, <2>3, <2>4, <2>5, JobMoves DEF Observe, JobIdle
<1> QED BY <1>1, <1>2, <1>3, <1>4, <1>5, <1>6, <1>7 DEF Known

\* A commit that passed stays one that passes.
LEMMA SoundStays ==
  ASSUME TypeOK, Known, [Next]_vars, NEW c \in 1..Len(commit), commit[c].sound
  PROVE  commit'[c].sound
BY CommitsStay

LEMMA EvidencedStep == TypeOK /\ Known /\ Merging /\ Evidenced /\ [Next]_vars => Evidenced'
<1> SUFFICES ASSUME TypeOK, Known, Merging, Evidenced, [Next]_vars
             PROVE  Evidenced'
  OBVIOUS
<1>0. commit \in Seq(Commit) /\ \A c \in 1..Len(commit) : commit[c] \in Commit
  BY DEF TypeOK
<1>1. ASSUME NEW c \in 1..Len(commit'), "success" \in {commit'[c].status, commit'[c].checks}
      PROVE  commit'[c].sound
  <2>1. CASE commit' = commit
    BY <1>1, <2>1 DEF Evidenced
  <2>2. ASSUME NEW r \in 1..Len(runs), Publish(r)
        PROVE  commit'[c].sound
    <3>1. runs[r].head \in 1..Len(commit)
      BY DEF Known, PushedTo
    <3>2. PICK d \in 1..Len(commit), o \in {"success", "failure"} :
            /\ commit' = [commit EXCEPT ![d].status = o]
            /\ o = "success" => commit[d].sound
      BY <2>2, <3>1 DEF Publish, Evidenced
    <3>3. c \in 1..Len(commit) /\ commit[c] \in Commit /\ commit[d] \in Commit
      BY <1>0, <3>2
    <3>4. CASE c = d
      BY <1>0, <1>1, <3>2, <3>3, <3>4 DEF Evidenced, Commit
    <3>5. CASE c # d
      BY <1>0, <1>1, <3>2, <3>3, <3>5 DEF Evidenced
    <3> QED BY <3>4, <3>5
  <2>3. ASSUME NEW e \in 1..Len(commit), OrdinaryCI(e)
        PROVE  commit'[c].sound
    <3>1. PICK o \in {"pending", "success", "failure"} :
            /\ commit' = [commit EXCEPT ![e].checks = o]
            /\ o = "success" => commit[e].sound
      BY <2>3 DEF OrdinaryCI
    <3>2. c \in 1..Len(commit) /\ commit[c] \in Commit /\ commit[e] \in Commit
      BY <1>0, <3>1
    <3>3. CASE c = e
      BY <1>0, <1>1, <3>1, <3>2, <3>3 DEF Evidenced, Commit
    <3>4. CASE c # e
      BY <1>0, <1>1, <3>1, <3>2, <3>4 DEF Evidenced
    <3> QED BY <3>3, <3>4
  <2>4. CASE Pushes
    <3>1. PICK b, sound :
            commit' = Append(commit, [on |-> b, sound |-> sound, checks |-> "none", status |-> "none"])
      BY <2>4, PushSteps
    <3>2. CASE c = Len(commit) + 1
      BY <1>0, <1>1, <3>1, <3>2
    <3>3. CASE c # Len(commit) + 1
      <4>1. c \in 1..Len(commit) /\ commit'[c] = commit[c]
        BY <1>0, <3>1, <3>3
      <4> QED BY <1>1, <4>1 DEF Evidenced
    <3> QED BY <3>2, <3>3
  <2> QED BY <2>1, <2>2, <2>3, <2>4, WritersOf DEF Publishes, Checks
<1>2. ASSUME NEW r \in 1..Len(runs'), runs'[r].phase = "passed"
      PROVE  commit'[runs'[r].head].sound
  <2>1. /\ r \in 1..Len(runs) /\ runs'[r].head = runs[r].head
        /\ runs[r].phase = "passed" \/ commit[runs[r].head].sound
    BY <1>2, RunMoves
  <2>2. runs[r].head \in 1..Len(commit) /\ commit[runs[r].head].sound
    BY <2>1 DEF Known, PushedTo, Evidenced
  <2> QED BY <2>1, <2>2, SoundStays
<1>3. ASSUME worker'.pc = "put"
      PROVE  commit'[worker'.head].sound
  <2>1. CASE worker' = worker
    <3>1. worker.head \in 1..Len(commit) /\ commit[worker.head].sound
      BY <1>3, <2>1, WorkerHead DEF Evidenced
    <3> QED BY <2>1, <3>1, SoundStays
  <2>2. CASE WorkerRead
    <3>1. worker.head \in 1..Len(commit)
      BY <2>2, WorkerHead DEF WorkerRead
    <3>2. worker'.head = worker.head /\ MergeEvidence(worker.head) = "success"
      BY <1>3, <2>2 DEF WorkerRead, Report, Mergeable, TypeOK, Worker
    <3>3. commit[worker.head].sound
      BY <3>1, <3>2 DEF MergeEvidence, Evidenced
    <3> QED BY <3>1, <3>2, <3>3, SoundStays
  <2>3. CASE WorkerPut \/ WorkerVerify
    BY <1>3, <2>3 DEF WorkerPut, WorkerVerify, Report, TypeOK, Worker
  <2>4. CASE Ingests \/ DispatchMerge
    BY <1>3, <2>4 DEF Ingests, IngestMerge, DispatchMerge, WorkerIdle
  <2> QED BY <2>1, <2>2, <2>3, <2>4, WritersOf DEF MergeWorker
<1>4. ASSUME NEW b \in Branches, branch'[b].state = "merged"
      PROVE  commit'[branch'[b].head].sound
  <2>1. branch'[b].head = branch[b].head /\ branch[b].state \in {"open", "merged"}
    BY <1>4, BranchMoves
  <2>2. branch[b].head \in 1..Len(commit)
    BY <2>1 DEF Known, PushedTo
  <2>3. commit[branch[b].head].sound
    BY <1>4, BranchMoves DEF Evidenced, MergedPassed
  <2> QED BY <2>1, <2>2, <2>3, SoundStays
<1> QED BY <1>1, <1>2, <1>3, <1>4 DEF Evidenced, MergedPassed

LEMMA MergingStep == TypeOK /\ Known /\ Merging /\ [Next]_vars => Merging'
<1> SUFFICES ASSUME TypeOK, Known, Merging, [Next]_vars
             PROVE  Merging'
  OBVIOUS
<1>0. merge \in [Commits -> Merge] /\ InFlight \subseteq Commits
  BY DEF TypeOK, InFlight
<1>1. worker'.pc # "idle" /\ MergeWorker => worker.pc # "idle" /\ worker'.head = worker.head
  BY DEF MergeWorker, WorkerRead, WorkerPut, WorkerVerify, Report, TypeOK, Worker
<1>2. /\ \A c, d \in InFlight' : c = d
      /\ worker'.pc # "idle" => worker'.head \in Commits /\ merge'[worker'.head].status = "dispatched"
  <2>1. CASE merge' = merge /\ (worker' = worker \/ MergeWorker)
    BY <1>1, <2>1 DEF Merging, InFlight
  <2>2. ASSUME NEW c \in InFlight, NEW x \in Merge, merge' = [merge EXCEPT ![c] = x],
               \/ worker' = WorkerIdle
               \/ worker' = worker /\ merge[c].status = "dispatch_intent"
        PROVE  /\ \A e, d \in InFlight' : e = d
               /\ worker'.pc # "idle" => worker'.head \in Commits /\ merge'[worker'.head].status = "dispatched"
    <3>1. InFlight' \subseteq InFlight
      BY <1>0, <2>2 DEF InFlight
    <3> QED BY <1>0, <2>2, <3>1 DEF Merging, WorkerIdle
  <2>3. ASSUME NEW b \in OpenIn(job.context), NEW x \in Merge, InFlight = {}, worker' = worker,
               merge' = [merge EXCEPT ![job.context.view[b].head] = x]
        PROVE  /\ \A e, d \in InFlight' : e = d
               /\ worker'.pc # "idle" => worker'.head \in Commits /\ merge'[worker'.head].status = "dispatched"
    <3>1. InFlight' \subseteq {job.context.view[b].head}
      BY <1>0, <2>3 DEF InFlight
    <3>2. worker.pc = "idle"
      BY <2>3 DEF Merging, InFlight
    <3> QED BY <2>3, <3>1, <3>2
  <2>4. ASSUME NEW c \in InFlight, NEW x \in Merge, merge' = [merge EXCEPT ![c] = x],
               x.status = "dispatched", worker' = [pc |-> "read", head |-> c]
        PROVE  /\ \A e, d \in InFlight' : e = d
               /\ worker'.pc # "idle" => worker'.head \in Commits /\ merge'[worker'.head].status = "dispatched"
    <3>1. InFlight' \subseteq InFlight
      BY <1>0, <2>4 DEF InFlight
    <3> QED BY <1>0, <2>4, <3>1 DEF Merging
  <2> QED BY <2>1, <2>2, <2>3, <2>4, MergeMoves
<1>3. ASSUME job'.pc = "dispatch_merge"
      PROVE  \E c \in Commits : merge'[c].status = "dispatch_intent"
  <2>1. CASE job' = job
    <3>1. ~Decide /\ ~DispatchMerge
      BY <1>3, <2>1, GoOn DEF Decide, DispatchMerge
    <3> QED BY <1>3, <2>1, <3>1, MergeMoves DEF Merging
  <2> QED BY <1>3, <2>1, JobMoves DEF Observe, JobIdle
<1> QED BY <1>2, <1>3 DEF Merging

LEMMA SeenStep == TypeOK /\ Known /\ Merging /\ Seen /\ [Next]_vars => Seen'
<1> SUFFICES ASSUME TypeOK, Known, Merging, Seen, [Next]_vars,
                    job'.pc = "deciding", InFlight' = {}, NEW b \in OpenIn(job.context)'
             PROVE  /\ branch'[b].state = "open"
                    /\ merge'[job'.context.view[b].head].status = "rejected" =>
                         branch'[b].head = job'.context.view[b].head
  BY DEF Seen
<1>1. b \in Branches /\ job'.context.view[b].state = "open"
  BY DEF OpenIn
<1>2. CASE Observe
  <2>1. job'.context = Observed /\ branch' = branch
    BY <1>2 DEF Observe, JobIdle, github
  <2> QED BY <1>1, <2>1 DEF Observed
<1>3. CASE job' = job
  <2>1. ~Decide /\ ~DispatchMerge
    BY <1>3, DecideJob DEF DispatchMerge
  <2>2. merge' = merge
    BY <2>1, MergeMoves
  <2>3. InFlight = {} /\ worker.pc = "idle" /\ b \in OpenIn(job.context)
    BY <1>3, <2>2 DEF InFlight, OpenIn, Merging
  <2>4. /\ branch[b].state = "open"
        /\ merge[job.context.view[b].head].status = "rejected" =>
             branch[b].head = job.context.view[b].head
    BY <1>3, <2>3 DEF Seen
  <2> QED BY <1>1, <1>3, <2>2, <2>3, <2>4, BranchMoves
<1> QED BY <1>2, <1>3, JobMoves

LEMMA ReplacedStep == TypeOK /\ Known /\ Merging /\ Seen /\ Replaced /\ [Next]_vars => Replaced'
<1> SUFFICES ASSUME TypeOK, Known, Merging, Seen, Replaced, [Next]_vars,
                    NEW b \in Branches, replaced'[b] # {}
             PROVE  branch'[b].state = "open" /\ merge'[branch'[b].head].status = "rejected"
  BY DEF Replaced
<1>1. /\ branch[b].state = "open" /\ merge[branch[b].head].status = "rejected"
  <2>1. CASE replaced[b] # {}
    BY <2>1 DEF Replaced
  <2>2. CASE replaced[b] = {}
    <3>1. Replaces
      BY <2>2, WritersOf
    <3>2. b \in Conflicted(job.context) /\ InFlight = {} /\ job.pc = "deciding"
      BY <2>2, <3>1 DEF Replaces, ReplaceBranch, Decide
    <3> QED BY <3>2 DEF Conflicted, Seen
  <2> QED BY <2>1, <2>2
<1>2. branch[b].head \in Commits
  <2>1. branch[b].head \in 1..Len(commit) /\ Len(commit) \in Nat /\ Len(commit) <= MaxCommits
    BY <1>1 DEF Known, PushedTo, TypeOK
  <2> QED BY <2>1, Numbers DEF Commits
<1>3. branch'[b].state = "open" /\ branch'[b].head = branch[b].head
  <2>1. ~(branch[b].head = worker.head /\ worker.pc = "put")
    BY <1>1 DEF Merging
  <2> QED BY <1>1, <2>1, BranchMoves
<1>4. merge'[branch[b].head].status = "rejected"
  <2>1. merge \in [Commits -> Merge] /\ branch[b].head \notin InFlight
    BY <1>1 DEF TypeOK, InFlight
  <2> QED BY <1>1, <1>2, <2>1, MergeMoves
<1> QED BY <1>3, <1>4

LEMMA ValidatingStep ==
  TypeOK /\ Known /\ Merging /\ Validating /\ [Next]_vars => Validating'
<1> SUFFICES ASSUME TypeOK, Known, Merging, Validating, [Next]_vars
             PROVE  Validating'
  OBVIOUS
<1>1. ASSUME NEW b \in Branches
      PROVE  /\ branch[b].head \in Nat /\ validation[b].head \in Nat
             /\ branch'[b].head \in Nat /\ branch[b].head <= branch'[b].head
  <2>1. Len(commit) \in Nat /\ branch[b].head \in Nat /\ branch[b].head <= Len(commit)
    <3>1. branch[b] \in PullRequest /\ Len(commit) \in Nat
      BY DEF TypeOK
    <3>2. branch[b].head = NoCommit \/ branch[b].head \in 1..Len(commit)
      BY <3>1 DEF PullRequest, Known, PushedTo
    <3> QED BY <3>1, <3>2, Numbers
  <2>2. validation[b].head \in Nat
    BY Numbers DEF TypeOK, Validation
  <2> QED BY <2>1, <2>2, BranchMoves
<1>2. ASSUME NEW b \in OpenIn(job.context), job.pc = "deciding"
      PROVE  /\ validation[b].head <= job.context.view[b].head
             /\ job.context.view[b].head <= branch[b].head
             /\ job.context.view[b].head \in Nat
  BY <1>2, ReadyHead, Numbers DEF OpenIn, Validating
<1>3. ASSUME NEW b \in Branches
      PROVE  /\ validation'[b].head \in Nat /\ validation'[b].head <= branch'[b].head
             /\ validation[b].head <= validation'[b].head
  <2>1. CASE validation'[b].head = validation[b].head
    BY <1>1, <2>1 DEF Validating
  <2>2. CASE Decide /\ b \in OpenIn(job.context) /\ validation'[b].head = job.context.view[b].head
    <3>1. job.pc = "deciding"
      BY <2>2 DEF Decide
    <3> QED BY <1>1, <1>2, <2>2, <3>1
  <2> QED BY <2>1, <2>2, ValidationMoves
<1>4. ASSUME NEW b \in Branches, job'.pc = "deciding", job'.context.view[b].state = "open"
      PROVE  /\ validation'[b].head <= job'.context.view[b].head
             /\ job'.context.view[b].head <= branch'[b].head
  <2>1. ~Decide
    BY <1>4, DecideJob
  <2>2. validation'[b].head = validation[b].head
    BY <2>1, ValidationMoves
  <2>3. CASE Observe
    <3>1. job'.context.view[b].head = branch[b].head
      BY <2>3 DEF Observe, JobIdle, Observed
    <3> QED BY <1>1, <2>2, <3>1 DEF Validating
  <2>4. CASE job' = job
    <3>1. b \in OpenIn(job.context) /\ job.pc = "deciding"
      BY <1>4, <2>4 DEF OpenIn
    <3> QED BY <1>1, <1>2, <2>2, <2>4, <3>1
  <2> QED BY <1>4, <2>3, <2>4, JobMoves
<1>5. ASSUME NEW r \in 1..Len(runs'), runs'[r].own
      PROVE  runs'[r].head <= validation'[runs'[r].branch].head
  <2>1. CASE /\ r \in 1..Len(runs) /\ runs'[r].branch = runs[r].branch
             /\ runs'[r].head = runs[r].head /\ runs'[r].own = runs[r].own
    <3>1. runs[r] \in Run
      BY <2>1 DEF TypeOK
    <3>2. runs[r].branch \in Branches /\ runs[r].head \in Nat
      BY <3>1, Numbers DEF Run
    <3>3. runs[r].head <= validation[runs[r].branch].head
      BY <1>5, <2>1 DEF Validating
    <3>4. /\ validation[runs[r].branch].head <= validation'[runs[r].branch].head
          /\ validation[runs[r].branch].head \in Nat /\ validation'[runs[r].branch].head \in Nat
      BY <1>1, <1>3, <3>2
    <3>5. runs[r].head <= validation'[runs[r].branch].head
      BY <3>2, <3>3, <3>4
    <3> QED BY <2>1, <3>5
  <2>2. CASE DispatchValidation /\ runs'[r].head = validation[job.on].head /\ runs'[r].branch = job.on
    <3>1. job.on \in Branches
      BY DEF TypeOK, Job
    <3> QED BY <1>3, <2>2, <3>1
  <2> QED BY <1>5, <2>1, <2>2, RunMoves
<1>6. ASSUME job'.pc = "dispatch_validation"
      PROVE  OwnRuns(job.on)' = {}
  <2>1. ~DispatchValidation
    BY <1>6, GoOn DEF DispatchValidation
  <2>2. ASSUME NEW b, b = job'.on, OwnRuns(b) = {}, validation'[b].head = validation[b].head
        PROVE  OwnRuns(job.on)' = {}
    <3>1. ASSUME NEW r \in 1..Len(runs'), runs'[r].own, runs'[r].branch = b,
                 runs'[r].head = validation'[b].head
          PROVE  FALSE
      <4>1. r \in OwnRuns(b)
        BY <2>1, <2>2, <3>1, RunMoves DEF OwnRuns
      <4> QED BY <2>2, <4>1
    <3> QED BY <2>2, <3>1 DEF OwnRuns
  <2>3. ASSUME ~Decide, OwnRuns(job.on) = {}, job'.on = job.on
        PROVE  OwnRuns(job.on)' = {}
    <3>1. job.on \in Branches
      BY DEF TypeOK, Job
    <3>2. validation'[job.on].head = validation[job.on].head
      BY <2>3, <3>1, ValidationMoves
    <3> QED BY <2>2, <2>3, <3>2
  <2>4. CASE job' = job
    <3>1. OwnRuns(job.on) = {} /\ ~Decide
      BY <1>6, <2>4 DEF Validating, Decide
    <3> QED BY <2>3, <2>4, <3>1
  <2>5. CASE ReconcileValidation /\ OwnRuns(job.on) = {} /\ job'.on = job.on
    <3>1. ~Decide
      BY <2>5 DEF Decide, ReconcileValidation
    <3> QED BY <2>3, <2>5, <3>1
  <2>6. ASSUME Decide, NEW b \in Unvalidated(job.context), RecordIntent(b, job.context), job'.on = b
        PROVE  OwnRuns(job.on)' = {}
    <3>1. b \in OpenIn(job.context) /\ b \in Branches /\ job.pc = "deciding"
      BY <2>6 DEF Unvalidated, OpenIn, Decide
    <3>2. /\ validation'[b].head = job.context.view[b].head
          /\ validation[b].head # job.context.view[b].head /\ runs' = runs
      BY <2>6, <3>1 DEF RecordIntent, TypeOK, github
    <3>3. validation[b].head < validation'[b].head
      BY <1>1, <1>2, <3>1, <3>2
    <3>4. ASSUME NEW r \in 1..Len(runs), runs[r].own, runs[r].branch = b
          PROVE  runs[r].head # validation'[b].head
      <4>1. runs[r].head <= validation[b].head /\ runs[r].head \in Nat
        <5>1. runs[r] \in Run
          BY DEF TypeOK
        <5>2. runs[r].head \in Nat
          BY <5>1, Numbers DEF Run
        <5> QED BY <3>4, <5>2 DEF Validating
      <4> QED BY <1>1, <1>3, <3>1, <3>3, <4>1
    <3> QED BY <2>6, <3>2, <3>4 DEF OwnRuns
  <2> QED BY <1>6, <2>4, <2>5, <2>6, JobMoves DEF Observe, JobIdle
<1>7. ASSUME NEW i \in 1..Len(runs'), NEW j \in 1..Len(runs'),
             runs'[i].own, runs'[j].own, runs'[i].head = runs'[j].head
      PROVE  i = j
  <2>1. CASE i \in 1..Len(runs) /\ j \in 1..Len(runs)
    <3>1. /\ runs[i].own /\ runs[j].own /\ runs[i].head = runs[j].head
      <4>1. Len(runs) \in Nat
        BY DEF TypeOK
      <4> QED BY <1>7, <2>1, <4>1, RunMoves
    <3> QED BY <2>1, <3>1 DEF Validating, ValidatedOnce
  <2>2. ASSUME NEW k \in 1..Len(runs'), NEW l \in 1..Len(runs'),
               runs'[k].own, runs'[l].own, runs'[k].head = runs'[l].head,
               l \in 1..Len(runs), k \notin 1..Len(runs)
        PROVE  FALSE
    <3>1. DispatchValidation /\ runs'[k].head = validation[job.on].head
      BY <2>2, RunMoves
    <3>2. /\ runs[l].own /\ runs[l].head = validation[job.on].head
      <4>1. Len(runs) \in Nat
        BY DEF TypeOK
      <4> QED BY <2>2, <3>1, <4>1, RunMoves
    <3>3. PushedTo(runs[l].head, runs[l].branch) /\ PushedTo(validation[job.on].head, job.on)
      BY <2>2, <3>1 DEF Known, DispatchValidation, TypeOK, Job
    <3>4. l \in OwnRuns(job.on)
      BY <2>2, <3>2, <3>3 DEF OwnRuns, PushedTo
    <3> QED BY <3>1, <3>4 DEF Validating, DispatchValidation
  <2>3. CASE i \notin 1..Len(runs) /\ j \notin 1..Len(runs)
    BY <1>7, <2>3, RunMoves
  <2> QED BY <1>7, <2>1, <2>2, <2>3
<1> QED BY <1>3, <1>4, <1>5, <1>6, <1>7 DEF Validating, ValidatedOnce

-----------------------------------------------------------------------------
(* The theorems.                                                            *)

LEMMA InvariantInit == Init => Invariant
<1> SUFFICES ASSUME Init PROVE Invariant
  OBVIOUS
<1>1. /\ Len(commit) = 0 /\ Len(runs) = 0 /\ InFlight = {}
      /\ job.pc = "idle" /\ worker.pc = "idle" /\ job.context = NoContext
  BY DEF Init, InFlight, JobIdle, WorkerIdle
<1>2. \A b \in Branches : /\ branch[b].state \in {"absent", "branch"} /\ branch[b].head = 0
                         /\ validation[b].head = 0 /\ replaced[b] = {}
                         /\ job.context.view[b].state = "absent"
  BY <1>1 DEF Init, NoPullRequest, NoContext, NoCommit
<1>3. Known
  BY <1>1, <1>2 DEF Known, Init, NoCommit
<1>4. Evidenced
  BY <1>1, <1>2 DEF Evidenced, MergedPassed
<1>5. Merging /\ Seen /\ Replaced
  BY <1>1, <1>2 DEF Merging, Seen, Replaced
<1>6. Validating
  BY <1>1, <1>2 DEF Validating, ValidatedOnce
<1> QED BY <1>3, <1>4, <1>5, <1>6, TypeInit DEF Invariant

LEMMA InvariantStep == Invariant /\ [Next]_vars => Invariant'
BY TypeStep, KnownStep, EvidencedStep, MergingStep, SeenStep, ReplacedStep, ValidatingStep
   DEF Invariant

\* All the parts hold in every state.
THEOREM AlwaysInvariant == Spec => []Invariant
BY InvariantInit, InvariantStep, PTL DEF Spec

\* The variables keep their types; what is observed is of the form the cycle
\* decides by.
THEOREM TypeCorrect == Spec => []TypeOK
<1>1. Invariant => TypeOK
  BY DEF Invariant
<1> QED BY <1>1, AlwaysInvariant, PTL

\* However many pushes, validations and deaths come between the evidence and the
\* merge, a merged head passed the tests itself (execute_native_github merges the
\* head it read the evidence of, and GitHub no other).
THEOREM OnlyTestedIsMerged == Spec => []MergedPassed
<1>1. Invariant => MergedPassed
  BY DEF Invariant, Evidenced
<1> QED BY <1>1, AlwaysInvariant, PTL

\* No head is validated by dispatch twice, on whichever side of the dispatch the
\* bootstrap run dies (record_trusted_validation_intent before, the listing after).
THEOREM DispatchedOnce == Spec => []ValidatedOnce
<1>1. Invariant => ValidatedOnce
  BY DEF Invariant, Validating
<1> QED BY <1>1, AlwaysInvariant, PTL

\* A pull request that was replaced is never merged: its head was refused, and
\* nobody merges it or pushes another (conflict_recovery_branch_plan).
THEOREM ReplacedIsOut == Spec => []ReplacedStaysOut
<1>1. Invariant => ReplacedStaysOut
  BY DEF Invariant, Replaced, ReplacedStaysOut
<1> QED BY <1>1, AlwaysInvariant, PTL
=============================================================================
