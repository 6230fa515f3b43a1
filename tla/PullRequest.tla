---------------------------- MODULE PullRequest ----------------------------
(***************************************************************************)
(* The pull requests of one workload: trusted validation, merge, and the   *)
(* fresh branch after a refused merge.                                     *)
(*                                                                         *)
(* A bootstrap run observes the open pull requests with the evidence of    *)
(* their heads, and then, all actions settled, does the first of these     *)
(* that applies: replace a branch whose merge was refused, validate a head *)
(* without evidence, merge a head that passed.  It writes an intent before *)
(* it dispatches anything and may die after each step.  Validation runs,   *)
(* ordinary CI, the merge worker, pushes, and main go on meanwhile.        *)
(*                                                                         *)
(* The dispatch of the merge is that of ActionDispatch, here reduced to    *)
(* its intent and the worker.                                              *)
(***************************************************************************)
EXTENDS Integers, Sequences, FiniteSets

CONSTANTS
  MaxMain,     \* bound: main moves by itself up to this commit
  MaxCommits,  \* bound: commits pushed to the workload's branches
  MaxRuns,     \* bound: validation runs; two for each commit are enough
  MaxCrashes,  \* bound: bootstrap runs that die
  Checked,     \* the commits ordinary CI runs for; for the others it is blocked
  Fallback     \* those of the others whose blocked CI starts a validation as well

ASSUME ConstantsAssumption ==
  /\ MaxMain \in Nat \ {0} /\ MaxCommits \in Nat /\ MaxRuns \in Nat
  /\ MaxCrashes \in Nat
  /\ Checked \subseteq Nat /\ Fallback \subseteq Nat \ Checked

\* 0 is the branch reasoning created; m > 0 the one made from commit m of main.
Branches == 0..MaxMain
Commits == 1..MaxCommits
NoCommit == 0

VARIABLES
  main,        \* GitHub: the commit of main
  branch,      \* GitHub: the workload's branches and their pull requests
  commit,      \* GitHub: the commits pushed, with the evidence about each
  runs,        \* GitHub: the validation runs, in the order they began
  worker,      \* the run of the native executor that merges
  validation,  \* state: trusted_validation of each create_pr action
  merge,       \* state: the merge action of each head
  refused,     \* history: the heads whose merge a worker refused
  replaced,    \* history: the fresh branches made in place of each one
  job,         \* the bootstrap run
  crashes

github == <<main, branch, commit, runs>>
durable == <<validation, merge>>
history == <<refused, replaced>>
vars == <<github, durable, worker, history, job, crashes>>

-----------------------------------------------------------------------------
(* Records.                                                                 *)

\* conflict: whether the branch conflicts with main.
PullRequest ==
  [state : {"absent", "branch", "open", "merged"}, head : Commits \cup {NoCommit},
   conflict : BOOLEAN]

Outcome == {"none", "success", "failure"}

\* on: the branch it was pushed to.  sound: whether it passes the tests.
\* checks: ordinary CI.  status: the newest samuel/trusted-validation.
Commit ==
  [on : Branches, sound : BOOLEAN, checks : Outcome \cup {"pending"}, status : Outcome]

\* own: dispatched by the controller.  main: the commit such a run is of.
Run ==
  [branch : Branches, head : Commits, own : BOOLEAN, main : Nat,
   phase : {"queued", "passed", "failed", "published"}]

Evidence == {"success", "failure", "pending", "unknown"}

\* trusted_validation, and a merge action; main is the expected_head_sha of the
\* dispatch intent, as long as there is one.
Validation ==
  [status : {"none", "dispatch_intent", "dispatched"},
   head : Commits \cup {NoCommit}, main : Nat]

Merge ==
  [status : {"none", "dispatch_intent", "dispatched", "complete", "rejected",
             "suspended"}, main : Nat]

View == [state : {"absent", "branch", "open", "merged"},
         head : Commits \cup {NoCommit}, ci : Evidence]

Context == [main : Nat, view : [Branches -> View]]
NoContext == [main |-> 0, view |-> [b \in Branches |->
                [state |-> "absent", head |-> NoCommit, ci |-> "unknown"]]]

Steps ==
  {"idle", "deciding", "dispatch_validation", "reconcile_validation",
   "record_receipt", "dispatch_merge"}

\* on: the branch to validate.  context: what the run observed.
Job == [pc : Steps, on : Branches, context : Context]
JobIdle == [pc |-> "idle", on |-> 0, context |-> NoContext]

\* pc is the next step of the executor or what its artifact says.
Worker ==
  [pc : {"idle", "read", "put", "verify", "complete", "rejected", "failed"},
   head : Commits \cup {NoCommit}]
WorkerIdle == [pc |-> "idle", head |-> NoCommit]

TypeOK ==
  /\ main \in Nat \ {0}
  /\ branch \in [Branches -> PullRequest]
  /\ commit \in Seq(Commit) /\ Len(commit) <= MaxCommits
  /\ runs \in Seq(Run)
  /\ worker \in Worker
  /\ validation \in [Branches -> Validation]
  /\ merge \in [Commits -> Merge]
  /\ refused \subseteq Commits /\ replaced \in [Branches -> SUBSET Branches]
  /\ job \in Job
  /\ crashes \in 0..MaxCrashes

NoPullRequest ==
  [state |-> "absent", head |-> NoCommit, conflict |-> FALSE]

Init ==
  /\ main = 1
  /\ branch = [b \in Branches |->
       IF b = 0 THEN [NoPullRequest EXCEPT !.state = "branch"] ELSE NoPullRequest]
  /\ commit = <<>>
  /\ runs = <<>>
  /\ worker = WorkerIdle
  /\ validation = [b \in Branches |->
       [status |-> "none", head |-> NoCommit, main |-> 0]]
  /\ merge = [c \in Commits |-> [status |-> "none", main |-> 0]]
  /\ refused = {}
  /\ replaced = [b \in Branches |-> {}]
  /\ job = JobIdle
  /\ crashes = 0

-----------------------------------------------------------------------------
(* Evidence.                                                                *)

\* synthesize_ci_state: the status and the check runs of a commit together.
CIState(c) ==
  LET signals == {commit[c].status, commit[c].checks} IN
  CASE "failure" \in signals -> "failure"
    [] "failure" \notin signals /\ "pending" \in signals -> "pending"
    [] signals \cap {"failure", "pending"} = {} /\ "success" \in signals -> "success"
    [] OTHER -> "unknown"

\* What the executor goes by: the trusted status alone when there is one.
MergeEvidence(c) ==
  IF commit[c].status # "none" THEN commit[c].status
  ELSE IF commit[c].checks \in {"success", "failure"} THEN commit[c].checks
  ELSE "pending"

Observed ==
  [main |-> main,
   view |-> [b \in Branches |->
     [state |-> branch[b].state, head |-> branch[b].head,
      ci |-> IF branch[b].state = "open" THEN CIState(branch[b].head)
             ELSE "unknown"]]]

-----------------------------------------------------------------------------
(* What the controller decides, from the state and what it observed.        *)

InFlight == {c \in Commits : merge[c].status \in {"dispatch_intent", "dispatched"}}

\* A merge suspended for a failure leaves its recovery open.
CanRollover == \A c \in Commits : merge[c].status # "suspended"

OpenIn(ctx) == {b \in Branches : ctx.view[b].state = "open"}

\* Mutation of Conflicted: any head of the pull request counts.
ConflictedByNumber(ctx) ==
  {b \in OpenIn(ctx) : \E c \in 1..Len(commit) :
     commit[c].on = b /\ merge[c].status = "rejected"}

\* conflicted_workload_pull_requests: open at a head whose merge was rejected.
Conflicted(ctx) ==
  {b \in OpenIn(ctx) : merge[ctx.view[b].head].status = "rejected"}

\* conflict_recovery_branch_plan
NeedsBranch(ctx) ==
  /\ CanRollover
  /\ Conflicted(ctx) # {}
  /\ ctx.main \in Branches
  /\ ctx.view[ctx.main].state = "absent"

\* select_trusted_validation_work: the pull requests without evidence.
Unvalidated(ctx) == {b \in OpenIn(ctx) : ctx.view[b].ci = "unknown"}

\* The heads to merge; a merge that is not new is not planned again.
Ready(ctx) ==
  {b \in OpenIn(ctx) :
     /\ ctx.view[b].ci = "success"
     /\ merge[ctx.view[b].head].status # "rejected"}

Go(pc, b) == job' = [JobIdle EXCEPT !.pc = pc, !.on = b]
End == job' = JobIdle

-----------------------------------------------------------------------------
(* The bootstrap run.                                                       *)

Observe ==
  /\ job.pc = "idle"
  /\ job' = [JobIdle EXCEPT !.pc = "deciding", !.context = Observed]
  /\ UNCHANGED <<github, durable, worker, history, crashes>>

\* The run does nothing: nothing applies, it waits, or it raises.
Nothing == End /\ UNCHANGED <<github, durable, worker, history>>

\* An intent whose commit main has left is retired without a dispatch.
RetireStaleMerge(c) ==
  /\ merge[c].status = "dispatch_intent" /\ merge[c].main # job.context.main
  /\ merge' = [merge EXCEPT ![c] = [status |-> "rejected", main |-> 0]]
  /\ End /\ UNCHANGED <<github, validation, worker, history>>

ResumeMerge(c) ==
  /\ merge[c].status = "dispatch_intent" /\ merge[c].main = job.context.main
  /\ Go("dispatch_merge", 0)
  /\ UNCHANGED <<github, durable, worker, history>>

\* The result of the worker; a failure is retried or suspended.
IngestMerge(c) ==
  /\ merge[c].status = "dispatched"
  /\ IF worker.pc = "failed"
     THEN \/ /\ merge' = [merge EXCEPT
                  ![c] = [status |-> "dispatch_intent", main |-> job.context.main]]
             /\ Go("dispatch_merge", 0)
          \/ /\ merge' = [merge EXCEPT ![c].status = "suspended"]
             /\ End
     ELSE /\ worker.pc \in {"complete", "rejected"}
          /\ merge' = [merge EXCEPT ![c].status = worker.pc]
          /\ End
  /\ worker' = WorkerIdle
  /\ UNCHANGED <<github, validation, history>>

AwaitMerge(c) ==
  /\ merge[c].status = "dispatched" /\ worker.pc \in {"read", "put", "verify"}
  /\ Nothing

\* The mutation that creates the branch is one step here.
ReplaceBranch(ctx) ==
  /\ NeedsBranch(ctx)
  /\ IF branch[ctx.main].state = "absent"
     THEN branch' = [branch EXCEPT ![ctx.main].state = "branch"]
     ELSE UNCHANGED branch
  /\ End
  /\ replaced' = [b \in Branches |->
       IF b \in Conflicted(ctx) THEN replaced[b] \cup {ctx.main} ELSE replaced[b]]
  /\ UNCHANGED <<main, commit, runs, durable, worker, refused>>

\* Mutation of RecordIntent: an earlier head's record is not displaced.
RecordFirstIntent(b, ctx) ==
  /\ validation[b].head # ctx.view[b].head
  /\ IF validation[b].head = NoCommit
     THEN /\ validation' = [validation EXCEPT ![b] =
               [status |-> "dispatch_intent", head |-> ctx.view[b].head,
                main |-> ctx.main]]
          /\ Go("dispatch_validation", b)
     ELSE End /\ UNCHANGED validation
  /\ UNCHANGED <<github, merge, worker, history>>

\* record_trusted_validation_intent: a new head displaces the old record.
RecordIntent(b, ctx) ==
  /\ validation[b].head # ctx.view[b].head
  /\ validation' = [validation EXCEPT ![b] =
       [status |-> "dispatch_intent", head |-> ctx.view[b].head, main |-> ctx.main]]
  /\ Go("dispatch_validation", b)
  /\ UNCHANGED <<github, merge, worker, history>>

Resume(b, ctx) ==
  /\ validation[b].head = ctx.view[b].head
  /\ validation[b].status = "dispatch_intent"
  /\ Go("reconcile_validation", b)
  /\ UNCHANGED <<github, durable, worker, history>>

\* trusted_validation_wait
AwaitValidation(b, ctx) ==
  /\ validation[b].head = ctx.view[b].head
  /\ validation[b].status = "dispatched"
  /\ Nothing

\* _prepare_trusted_validation; two heads without evidence are refused.
Validate(ctx) ==
  IF Cardinality(Unvalidated(ctx)) > 1 THEN Nothing
  ELSE \E b \in Unvalidated(ctx) :
         RecordIntent(b, ctx) \/ Resume(b, ctx) \/ AwaitValidation(b, ctx)

\* _owned_ready_pr_plan and its dispatch intent; two ready ones are refused.
PlanMerge(ctx) ==
  IF CanRollover /\ \E b \in Branches :
       Ready(ctx) = {b} /\ merge[ctx.view[b].head].status = "none"
  THEN \E b \in Ready(ctx) :
         /\ merge' = [merge EXCEPT ![ctx.view[b].head] =
              [status |-> "dispatch_intent", main |-> ctx.main]]
         /\ Go("dispatch_merge", 0)
         /\ UNCHANGED <<github, validation, worker, history>>
  ELSE Nothing

\* run_cycle, as far as it is about pull requests.
Decide ==
  /\ job.pc = "deciding"
  /\ LET ctx == job.context IN
     IF InFlight # {}
     THEN \E c \in InFlight :
            \/ RetireStaleMerge(c) \/ ResumeMerge(c)
            \/ IngestMerge(c) \/ AwaitMerge(c)
     ELSE IF NeedsBranch(ctx) THEN ReplaceBranch(ctx)
     ELSE IF Unvalidated(ctx) # {} THEN Validate(ctx)
     ELSE PlanMerge(ctx)
  /\ UNCHANGED crashes

\* dispatch_workflow at main as it is now.
DispatchValidation ==
  /\ job.pc = "dispatch_validation"
  /\ Len(runs) < MaxRuns
  /\ runs' = Append(runs,
       [branch |-> job.on, head |-> validation[job.on].head, own |-> TRUE,
        main |-> main, phase |-> "queued"])
  /\ \/ Go("record_receipt", job.on)
     \/ End           \* it dies here, or the answer names no run
  /\ UNCHANGED <<main, branch, commit, durable, worker, history, crashes>>

OwnRuns(b) ==
  {r \in 1..Len(runs) : runs[r].own /\ runs[r].branch = b
                        /\ runs[r].head = validation[b].head}

\* Mutation of ReconcileValidation: a run of another commit does not count.
ReconcileOwnCommit ==
  /\ job.pc = "reconcile_validation"
  /\ IF \E r \in OwnRuns(job.on) : runs[r].main = validation[job.on].main
     THEN Go("record_receipt", job.on)
     ELSE Go("dispatch_validation", job.on)
  /\ UNCHANGED <<github, durable, worker, history, crashes>>

\* A run on another commit than the intent's is STALE, and raises.
ReconcileValidation ==
  /\ job.pc = "reconcile_validation"
  /\ LET matched == {r \in OwnRuns(job.on) : runs[r].main = validation[job.on].main}
     IN \/ Cardinality(matched) = 1 /\ Go("record_receipt", job.on)
        \/ OwnRuns(job.on) = {} /\ Go("dispatch_validation", job.on)
        \/ OwnRuns(job.on) # {} /\ Cardinality(matched) # 1 /\ End
  /\ UNCHANGED <<github, durable, worker, history, crashes>>

\* record_trusted_validation_dispatch
RecordReceipt ==
  /\ job.pc = "record_receipt"
  /\ validation' = [validation EXCEPT
       ![job.on].status = "dispatched", ![job.on].main = 0]
  /\ End
  /\ UNCHANGED <<github, merge, worker, history, crashes>>

DispatchMerge ==
  /\ job.pc = "dispatch_merge"
  /\ \E c \in InFlight :
       /\ merge' = [merge EXCEPT ![c] = [status |-> "dispatched", main |-> 0]]
       /\ worker' = [pc |-> "read", head |-> c]
  /\ End
  /\ UNCHANGED <<github, validation, history, crashes>>

Crash ==
  /\ job.pc \notin {"idle", "deciding", "record_receipt"}
  /\ crashes < MaxCrashes
  /\ crashes' = crashes + 1
  /\ End /\ UNCHANGED <<github, durable, worker, history>>

-----------------------------------------------------------------------------
(* The merge worker: read, compare, write, read back.                       *)

Target(c) == commit[c].on

Report(verdict) == worker' = [worker EXCEPT !.pc = verdict]

\* What execute_native_github demands before it merges.
Mergeable(c) ==
  LET pr == branch[Target(c)] IN
  pr.head = c /\ ~pr.conflict /\ MergeEvidence(c) = "success"

WorkerRead ==
  /\ worker.pc = "read"
  /\ LET c == worker.head IN
     IF branch[Target(c)].state = "merged"
     THEN Report("complete") /\ UNCHANGED refused           \* NOOP
     ELSE \/ Mergeable(c) /\ Report("put") /\ UNCHANGED refused
          \* mergeable is null while GitHub has not computed it
          \/ Report("rejected") /\ refused' = refused \cup {c}
  /\ UNCHANGED <<github, durable, replaced, job, crashes>>

\* Mutation of Accepts: the request carries no sha.
AcceptsAnyHead(c) ==
  LET pr == branch[Target(c)] IN pr.state = "open" /\ ~pr.conflict

\* GitHub merges exactly the head it is given.
Accepts(c) ==
  LET pr == branch[Target(c)] IN
  pr.state = "open" /\ pr.head = c /\ ~pr.conflict

WorkerPut ==
  /\ worker.pc = "put"
  /\ LET b == Target(worker.head) IN
     \/ /\ Accepts(worker.head)
        /\ branch' = [branch EXCEPT ![b].state = "merged"]
        /\ main' = main + 1
        /\ Report("verify") \/ Report("failed")  \* or the answer is lost
     \/ /\ ~Accepts(worker.head)
        /\ Report("failed")
        /\ UNCHANGED <<main, branch>>
  /\ UNCHANGED <<commit, runs, durable, history, job, crashes>>

WorkerVerify ==
  /\ worker.pc = "verify"
  /\ Report(IF branch[Target(worker.head)].state = "merged"
            THEN "complete" ELSE "failed")
  /\ UNCHANGED <<github, durable, history, job, crashes>>

-----------------------------------------------------------------------------
(* Validation runs and CI.                                                  *)

SetPhase(r, phase) == runs' = [runs EXCEPT ![r].phase = phase]

\* What a dispatched run checks before it tests; one that CI started does not.
Identified(r) ==
  LET pr == branch[runs[r].branch] IN
  ~runs[r].own \/ (pr.state = "open" /\ pr.head = runs[r].head)

\* The validate job.  Ordinary CI that is not over in a minute, or that failed,
\* fails it as well, whatever the tests would have said.
Judge(r) ==
  /\ runs[r].phase = "queued"
  /\ LET c == runs[r].head IN
     \/ /\ Identified(r) /\ commit[c].sound
        /\ commit[c].checks \in {"none", "success"}
        /\ SetPhase(r, "passed")
     \/ /\ \/ ~Identified(r)
           \/ ~commit[c].sound
           \/ commit[c].checks \in {"pending", "failure"}
        /\ SetPhase(r, "failed")
  /\ UNCHANGED <<main, branch, commit, durable, worker, history, job, crashes>>

\* The publish job: the newest status counts.
Publish(r) ==
  /\ runs[r].phase \in {"passed", "failed"}
  /\ commit' = [commit EXCEPT ![runs[r].head].status =
       IF runs[r].phase = "passed" THEN "success" ELSE "failure"]
  /\ SetPhase(r, "published")
  /\ UNCHANGED <<main, branch, durable, worker, history, job, crashes>>

OrdinaryCI(c) ==
  /\ c \in Checked
  /\ \/ /\ commit[c].checks = "none"
        /\ commit' = [commit EXCEPT ![c].checks = "pending"]
     \/ /\ commit[c].checks = "pending"
        /\ commit' = [commit EXCEPT ![c].checks =
             IF commit[c].sound THEN "success" ELSE "failure"]
  /\ UNCHANGED <<main, branch, runs, durable, worker, history, job, crashes>>

-----------------------------------------------------------------------------
(* The rest of the world.                                                   *)

\* CI blocked for a bot (action_required) starts a run nobody dispatched.
NewCommit(b) ==
  /\ Len(commit) < MaxCommits
  /\ \E sound \in BOOLEAN :
       commit' = Append(commit, [on |-> b, sound |-> sound, checks |-> "none",
                                 status |-> "none"])
  /\ branch' = [branch EXCEPT ![b] =
       [state |-> "open", head |-> Len(commit) + 1, conflict |-> FALSE]]
  /\ IF Len(commit) + 1 \in Fallback
     THEN runs' = Append(runs,
            [branch |-> b, head |-> Len(commit) + 1, own |-> FALSE,
             main |-> 0, phase |-> "queued"])
     ELSE UNCHANGED runs
  /\ UNCHANGED <<main, durable, worker, history, job, crashes>>

\* The other actions of the workload: files, and then the pull request.
OpenPullRequest(b) ==
  /\ branch[b].state = "branch" /\ InFlight = {}
  /\ \A other \in Branches : other > b => branch[other].state = "absent"
  /\ NewCommit(b)

\* Nobody pushes to a branch whose merge was rejected (reasoning is told so).
Push(b) ==
  /\ branch[b].state = "open"
  /\ merge[branch[b].head].status # "rejected"
  /\ NewCommit(b)

MoveMain ==
  /\ main < MaxMain
  /\ main' = main + 1
  /\ \E hit \in SUBSET {b \in Branches : branch[b].state = "open"} :
       branch' = [b \in Branches |->
         [branch[b] EXCEPT !.conflict = @ \/ b \in hit]]
  /\ UNCHANGED <<commit, runs, durable, worker, history, job, crashes>>

-----------------------------------------------------------------------------
Bootstrap ==
  \/ Observe \/ Decide \/ DispatchValidation \/ ReconcileValidation
  \/ RecordReceipt \/ DispatchMerge
MergeWorker == WorkerRead \/ WorkerPut \/ WorkerVerify
ValidationRuns == \E r \in 1..Len(runs) : Judge(r) \/ Publish(r)
World ==
  \/ MoveMain \/ Crash
  \/ \E b \in Branches : OpenPullRequest(b) \/ Push(b)
  \/ \E c \in 1..Len(commit) : OrdinaryCI(c)

Next ==
  Bootstrap \/ MergeWorker \/ ValidationRuns \/ World

Spec == Init /\ [][Next]_vars

\* Wakes come again (every publication and completion, and the watchdog); a
\* worker and a validation run end.
FairSpec ==
  /\ Spec
  /\ WF_vars(Bootstrap)
  /\ WF_vars(MergeWorker)
  /\ WF_vars(ValidationRuns)

-----------------------------------------------------------------------------
(* Properties.                                                              *)

\* What lands on main is a head that passed the tests itself: no push between
\* the evidence, the decision, the worker's reading and the merge, and no
\* validation of another head, gets an untested commit in.
MergedPassed ==
  \A b \in Branches : branch[b].state = "merged" => commit[branch[b].head].sound

\* A head is validated by dispatch at most once, although the bootstrap run may
\* die on either side of the dispatch and the receipt may be missing.
ValidatedOnce ==
  \A i, j \in 1..Len(runs) :
    runs[i].own /\ runs[j].own /\ runs[i].head = runs[j].head => i = j

\* A pull request whose place a fresh branch took is not merged as well: the
\* workload's change does not land twice, in two versions.
ReplacedStaysOut ==
  \A b \in Branches : replaced[b] # {} => branch[b].state # "merged"

\* "Do not create a replacement branch solely because
\* repository_context.observed_head_sha changed" (runtime.py).
ReplacedOnce == \A b \in Branches : Cardinality(replaced[b]) <= 1

IsHead(c) == \E b \in Branches : branch[b].state = "open" /\ branch[b].head = c

\* An open pull request's head does not stay without evidence.
EvidenceArrives ==
  \A c \in Commits : IsHead(c) ~> (~IsHead(c) \/ CIState(c) # "unknown")
=============================================================================
