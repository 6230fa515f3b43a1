---------------------------- MODULE ForeignCycle ----------------------------
(***************************************************************************)
(* Work on an issue of another repository (the target): its ledger, which  *)
(* is a comment of the source repository, and the jobs that move it.       *)
(*                                                                         *)
(* A job reads the target's issue and main and the ledger one after the    *)
(* other, computes the next ledger, compares what it read with the ledger  *)
(* as it is now, and writes.  The jobs exclude each other (one concurrency *)
(* group), but the target and the policy change under them, and a job may  *)
(* stop after each step.  The plan of a proposal is written for an issue   *)
(* and a base, and executed by a workflow of the target.                   *)
(*                                                                         *)
(* Review, dispatch and observation have no caller in the repository yet;  *)
(* they are taken here as jobs of the same group.                          *)
(***************************************************************************)
EXTENDS Integers, Sequences, FiniteSets

CONSTANTS
  MaxMain,     \* bound: commits the target's main may be at
  MaxEdits,    \* bound: texts of the target's issue
  MaxChanges,  \* bound: moves of that main and edits of that issue
  MaxRevision, \* bound: revisions of the ledger
  MaxRuns,     \* bound: runs of the target's executor
  MaxCommits   \* bound: commits pushed to the target's pull request

ASSUME ConstantsAssumption ==
  /\ MaxMain \in Nat \ {0} /\ MaxEdits \in Nat \ {0} /\ MaxChanges \in Nat
  /\ MaxRevision \in Nat /\ MaxRuns \in Nat /\ MaxCommits \in Nat

Mains == 1..MaxMain
Issues == 1..MaxEdits
Heads == 1..MaxCommits
None == 0

VARIABLES
  target,    \* the target's main and issue, and the policy file reviewed for it
  runs,      \* the target: runs of the executor
  pr,        \* the target: head of the draft pull request, and whether it is one
  ci,        \* the target: the required workflows of each head, together
  ledger,    \* the source: the ledger comment
  comment,   \* the source: the owner's newest proposal comment
  job        \* the one job of the concurrency group

world == <<target, runs, pr, ci>>
vars == <<world, ledger, comment, job>>

-----------------------------------------------------------------------------
(* Records.                                                                 *)

\* A plan is told apart by the facts it was written for.
Plan == [issue : Issues, base : Mains]
NoPlan == [issue |-> None, base |-> None]

Phases ==
  {"absent", "reasoning_required", "review_required", "dispatch_ready",
   "dispatched", "ci_pending", "revision_required", "ci_verified"}

Failures ==
  {"none", "ADMISSION_FACTS_CHANGED", "NO_APPROVED_ACTION_PLAN",
   "TARGET_EXECUTION_NOT_SUCCESS", "EXACT_HEAD_CI_FAILURE"}

\* receipt: the run dispatched.  head: of target_pr, with its ci_evidence.
Ledger ==
  [phase : Phases, revision : 0..MaxRevision, issue : Issues \cup {None},
   base : Mains \cup {None}, plan : Plan \cup {NoPlan},
   receipt : 0..MaxRuns, head : Heads \cup {None}, green : BOOLEAN,
   failure : Failures]

NoLedger ==
  [phase |-> "absent", revision |-> 0, issue |-> None, base |-> None,
   plan |-> NoPlan, receipt |-> None, head |-> None, green |-> FALSE,
   failure |-> "none"]

\* What from_dict refuses; a ledger that it refuses stops every later job.
Readable(l) ==
  /\ l.receipt # None => l.plan # NoPlan
  /\ l.phase \in {"review_required", "dispatch_ready", "dispatched",
                  "ci_pending", "ci_verified"} => l.plan # NoPlan
  /\ l.phase \in {"dispatched", "ci_pending", "ci_verified"} => l.receipt # None
  /\ l.phase = "ci_verified" => l.head # None /\ l.green

\* having: the commits with a file at the proposed path.  base: of the target as
\* reviewed in the two policy files, taken as one.  enabled: the execution policy.
Target ==
  [main : Mains, issue : Issues, having : SUBSET Mains, base : Mains,
   enabled : BOOLEAN, changes : 0..MaxChanges]

\* given: the base it was dispatched for.  main: the commit it ran on.
Run == [plan : Plan, main : Mains, phase : {"queued", "success", "failure"},
        head : Heads \cup {None}]

CIStates == {"none", "pending", "success", "failure", "twice"}

Comment == [revision : 0..MaxRevision, plan : Plan \cup {NoPlan}]

Kinds == {"cycle", "propose", "rollover", "ingress", "review", "dispatch",
          "observe", "inspect"}
Steps == {"idle", "issue", "main", "ledger", "compute", "dispatch", "recheck",
          "write"}

\* saw: the policy at the job's checkout, then the facts as they are read.
Job == [pc : Steps, kind : Kinds, saw : Target, comment : Comment,
        before : Ledger, after : Ledger]

InitialTarget ==
  [main |-> 1, issue |-> 1, having |-> {}, base |-> 1, enabled |-> FALSE,
   changes |-> 0]
NoComment == [revision |-> 0, plan |-> NoPlan]
JobIdle ==
  [pc |-> "idle", kind |-> "cycle", saw |-> InitialTarget,
   comment |-> NoComment, before |-> NoLedger, after |-> NoLedger]

TypeOK ==
  /\ target \in Target
  /\ runs \in Seq(Run) /\ Len(runs) <= MaxRuns
  /\ pr \in [head : Heads \cup {None}, draft : BOOLEAN]
  /\ ci \in [Heads -> CIStates]
  /\ ledger \in Ledger /\ Readable(ledger)
  /\ comment \in Comment
  /\ job \in Job

Init ==
  /\ \E having \in SUBSET (Mains \ {1}) :
       target = [InitialTarget EXCEPT !.having = having]
  /\ runs = <<>>
  /\ pr = [head |-> None, draft |-> FALSE]
  /\ ci = [c \in Heads |-> "none"]
  /\ ledger = NoLedger
  /\ comment = NoComment
  /\ job = JobIdle

-----------------------------------------------------------------------------
(* What a job computes from the ledger before and the facts it saw.         *)

SameFacts(l, s) == l.issue = s.issue /\ l.base = s.main

\* from_verified_admission
Admitted(s) ==
  [NoLedger EXCEPT !.phase = "reasoning_required", !.issue = s.issue,
                   !.base = s.main]

Stopped(l, failure) ==
  [l EXCEPT !.revision = @ + 1, !.phase = "revision_required",
            !.failure = failure]

\* Mutation of Reconciled: the plan is taken up again when the facts are back.
ReconciledRevives(l, s) ==
  IF l = NoLedger THEN Admitted(s)
  ELSE IF ~SameFacts(l, s) THEN Stopped(l, "ADMISSION_FACTS_CHANGED")
  ELSE IF l.failure = "ADMISSION_FACTS_CHANGED" /\ l.plan # NoPlan
  THEN [l EXCEPT !.revision = @ + 1, !.phase = "review_required", !.failure = "none"]
  ELSE l

\* reconcile_admission: what changed is recorded, not adopted, and it stays recorded
\* when the facts are again as they were.
Reconciled(l, s) ==
  IF l = NoLedger THEN Admitted(s)
  ELSE IF SameFacts(l, s) \/ (/\ l.phase = "revision_required"
                              /\ l.failure = "ADMISSION_FACTS_CHANGED")
  THEN l
  ELSE Stopped(l, "ADMISSION_FACTS_CHANGED")

\* advance_reviewed_base
MayAdvance(l, s) ==
  /\ l.phase = "revision_required" /\ l.failure = "ADMISSION_FACTS_CHANGED"
  /\ l.issue = s.issue /\ l.base # s.main
  /\ l.plan = NoPlan /\ l.receipt = None /\ l.head = None

\* verify_proposal_preflight
MayPropose(l, s) ==
  /\ l.phase = "reasoning_required" /\ l.plan = NoPlan /\ l.failure = "none"
  /\ SameFacts(l, s) /\ s.base = s.main
  /\ s.main \notin s.having /\ ~s.enabled

WithPlan(l, plan) ==
  [l EXCEPT !.revision = @ + 1, !.phase = "review_required", !.plan = plan]

\* Mutation of StatedFacts: a proposal is taken whatever it was written for.
AnyFacts(c, l, s) == c.plan # NoPlan

\* review_owner_proposal: the comment names the ledger and the facts of now.
StatedFacts(c, l, s) ==
  c.plan = [issue |-> s.issue, base |-> s.main] /\ c.revision = l.revision

\* plan_next_cycle with a provider: a plan, another round, or nothing approved.
Proposals(l, s) ==
  {WithPlan(l, [issue |-> s.issue, base |-> s.main]),
   [l EXCEPT !.revision = @ + 1],
   Stopped(l, "NO_APPROVED_ACTION_PLAN")}

\* review_for_dispatch, of the plan and the revision the owner names: those of
\* the ledger, for nothing replaces a plan that is under review.
Reviewable(l, s) == l.phase = "review_required" /\ s.enabled

\* Mutation of ObservedRun: the commit the run is on is not compared.
ObservedRunUnbound(l) ==
  LET r == runs[l.receipt] IN
  IF r.phase = "success" THEN {[l EXCEPT !.revision = @ + 1, !.phase = "ci_pending"]}
  ELSE IF r.phase = "queued" THEN {l}
  ELSE {Stopped(l, "TARGET_EXECUTION_NOT_SUCCESS")}

\* observe_foreign_execution
ObservedRun(l) ==
  LET r == runs[l.receipt] IN
  IF r.main # l.base \/ r.phase = "failure"
  THEN {Stopped(l, "TARGET_EXECUTION_NOT_SUCCESS")}
  ELSE IF r.phase = "success"
  THEN {[l EXCEPT !.revision = @ + 1, !.phase = "ci_pending"]}
  ELSE {l}

\* observe_pr_ci: two runs of a workflow for one head are no evidence.
ObservedCI(l) ==
  LET seen == [l EXCEPT !.head = pr.head, !.green = ci[pr.head] = "success"] IN
  IF ci[pr.head] = "failure" THEN {Stopped(seen, "EXACT_HEAD_CI_FAILURE")}
  ELSE {[seen EXCEPT !.revision = @ + 1, !.failure = "none",
         !.phase = IF seen.green THEN "ci_verified" ELSE "ci_pending"]}

\* inspect_foreign_pr_ci: the receipt of an execution of this plan names the head.
Receipts(l) ==
  {r \in 1..Len(runs) : /\ runs[r].plan = l.plan /\ runs[r].phase = "success"
                        /\ runs[r].head = pr.head}

\* The ledgers a job may write; none when it raises.
Results(kind, l, s, c) ==
  CASE kind = "cycle" -> {Reconciled(l, s)}
    [] kind = "rollover" ->
         LET now == Reconciled(l, s) IN
         IF MayAdvance(now, s)
         THEN {[Admitted(s) EXCEPT !.revision = now.revision + 1]} ELSE {}
    [] kind = "propose" -> IF MayPropose(l, s) THEN Proposals(l, s) ELSE {}
    [] kind = "ingress" ->
         IF MayPropose(l, s) /\ StatedFacts(c, l, s)
         THEN {WithPlan(l, c.plan)} ELSE {}
    [] kind = "review" ->
         IF Reviewable(l, s)
         THEN {[l EXCEPT !.revision = @ + 1, !.phase = "dispatch_ready"]} ELSE {}
    [] kind = "observe" ->
         IF l.phase \in {"dispatched", "ci_pending"} THEN ObservedRun(l) ELSE {}
    [] kind = "inspect" ->
         IF l.phase = "ci_pending" /\ pr.draft /\ Receipts(l) # {}
         THEN ObservedCI(l) ELSE {}
    [] OTHER -> {}

-----------------------------------------------------------------------------
(* The jobs.                                                                *)

\* The jobs that read the target before they compute, and in which order.
First(kind) ==
  CASE kind \in {"cycle", "propose", "rollover"} -> "issue"
    [] kind = "ingress" -> "main"
    [] OTHER -> "ledger"

After(kind, step) ==
  CASE step = "issue" -> IF kind = "ingress" THEN "compute" ELSE "main"
    [] step = "main" -> "ledger"
    [] OTHER -> IF kind = "ingress" THEN "issue" ELSE "compute"

End == job' = JobIdle
GoOn(step) == [job EXCEPT !.pc = After(job.kind, step)]

\* The lane of the cycles raises when the execution policy is enabled.
Begin(kind) ==
  /\ job.pc = "idle"
  /\ kind \in {"cycle", "propose", "rollover", "ingress"} => ~target.enabled
  /\ kind = "ingress" => comment # NoComment
  /\ job' = [JobIdle EXCEPT
       !.pc = First(kind), !.kind = kind,
       !.comment = IF kind = "ingress" THEN comment ELSE NoComment,
       !.saw.base = target.base, !.saw.enabled = target.enabled]
  /\ UNCHANGED <<world, ledger, comment>>

ReadIssue ==
  /\ job.pc = "issue"
  /\ job' = [GoOn("issue") EXCEPT !.saw.issue = target.issue]
  /\ UNCHANGED <<world, ledger, comment>>

\* attest_live_target: main must be the base the policy was reviewed for.
ReadMain ==
  /\ job.pc = "main"
  /\ IF job.kind = "ingress" \/ target.main = job.saw.base
     THEN job' = [GoOn("main") EXCEPT !.saw.main = target.main,
                                      !.saw.having = target.having]
     ELSE End
  /\ UNCHANGED <<world, ledger, comment>>

ReadLedger ==
  /\ job.pc = "ledger"
  /\ job' = [GoOn("ledger") EXCEPT !.before = ledger]
  /\ UNCHANGED <<world, ledger, comment>>

Compute ==
  /\ job.pc = "compute" /\ job.kind # "dispatch"
  /\ LET results == Results(job.kind, job.before, job.saw, job.comment) IN
     \/ results = {} /\ End
     \/ \E l \in results :
          /\ l.revision <= MaxRevision
          /\ job' = [JobIdle EXCEPT
               !.kind = job.kind, !.before = job.before, !.after = l,
               !.pc = IF job.kind = "propose" THEN "recheck" ELSE "write"]
  /\ UNCHANGED <<world, ledger, comment>>

\* A proposal takes as long as its provider: main is read once more.
Recheck ==
  /\ job.pc = "recheck"
  /\ IF target.main = job.before.base THEN job' = [job EXCEPT !.pc = "write"] ELSE End
  /\ UNCHANGED <<world, ledger, comment>>

\* dispatch_foreign_action, before the request.
CheckDispatch ==
  /\ job.pc = "compute" /\ job.kind = "dispatch"
  /\ IF /\ job.before.phase = "dispatch_ready" /\ job.saw.enabled
        /\ job.saw.base = job.before.base /\ target.main = job.before.base
     THEN job' = [JobIdle EXCEPT !.pc = "dispatch", !.kind = "dispatch",
                                 !.before = job.before]
     ELSE End
  /\ UNCHANGED <<world, ledger, comment>>

\* dispatch_workflow at main as it is now, and record_dispatch.
Dispatch ==
  /\ job.pc = "dispatch"
  /\ Len(runs) < MaxRuns /\ job.before.revision < MaxRevision
  /\ runs' = Append(runs, [plan |-> job.before.plan, main |-> target.main,
                           phase |-> "queued", head |-> None])
  /\ \/ job' = [job EXCEPT !.pc = "write", !.after =
          [job.before EXCEPT !.revision = @ + 1, !.phase = "dispatched",
                             !.receipt = Len(runs) + 1]]
     \/ End                              \* the answer names no run, or is lost
  /\ UNCHANGED <<target, pr, ci, ledger, comment>>

\* _cas_write
Write ==
  /\ job.pc = "write"
  /\ ledger' = IF ledger = job.before THEN job.after ELSE ledger
  /\ End
  /\ UNCHANGED <<world, comment>>

\* Cancelled, timed out, or an error from GitHub.
Stop == job.pc # "idle" /\ End /\ UNCHANGED <<world, ledger, comment>>

-----------------------------------------------------------------------------
(* The owner and the target repository.                                     *)

\* A scheduled ChatGPT task, or the owner, proposes for what it sees now.  (No
\* other phase takes a proposal, and a revision has one phase.)
PostComment ==
  /\ ledger.phase = "reasoning_required"
  /\ comment' = [revision |-> ledger.revision,
                 plan |-> [issue |-> target.issue, base |-> target.main]]
  /\ UNCHANGED <<world, ledger, job>>

\* A commit to the policy files, reviewed for the target's main of now.
ReviewPolicy ==
  /\ \E enabled \in BOOLEAN :
       target' = [target EXCEPT !.base = target.main, !.enabled = enabled]
  /\ UNCHANGED <<runs, pr, ci, ledger, comment, job>>

\* A push, possibly a forced one back to an earlier commit.
MoveMain ==
  /\ target.changes < MaxChanges
  /\ \E m \in Mains \ {target.main} :
       target' = [target EXCEPT !.main = m, !.changes = @ + 1]
  /\ UNCHANGED <<runs, pr, ci, ledger, comment, job>>

\* An edit may be undone by a later one.
EditIssue ==
  /\ target.changes < MaxChanges
  /\ \E text \in Issues \ {target.issue} :
       target' = [target EXCEPT !.issue = text, !.changes = @ + 1]
  /\ UNCHANGED <<runs, pr, ci, ledger, comment, job>>

Pushed == {c \in Heads : ci[c] # "none"}
NewHead(c) == c \in Heads \ Pushed /\ \A d \in 1..(c - 1) : d \in Pushed

\* The executor ends; a successful one has pushed, and left its receipt.
RunEnds(r) ==
  /\ runs[r].phase = "queued"
  /\ \/ /\ \E c \in Heads :
             /\ NewHead(c)
             /\ runs' = [runs EXCEPT ![r].phase = "success", ![r].head = c]
             /\ pr' = [head |-> c, draft |-> TRUE]
             /\ ci' = [ci EXCEPT ![c] = "pending"]
     \/ /\ runs' = [runs EXCEPT ![r].phase = "failure"]
        /\ UNCHANGED <<pr, ci>>
  /\ UNCHANGED <<target, ledger, comment, job>>

\* Somebody pushes to the pull request, marks it ready, closes or merges it.
TouchPullRequest ==
  /\ pr.draft
  /\ \/ /\ \E c \in Heads :
             /\ NewHead(c)
             /\ pr' = [pr EXCEPT !.head = c] /\ ci' = [ci EXCEPT ![c] = "pending"]
     \/ pr' = [pr EXCEPT !.draft = FALSE] /\ UNCHANGED ci
  /\ UNCHANGED <<target, runs, ledger, comment, job>>

\* The workflows of a head end; reopening the pull request runs them again.
CIRuns(c) ==
  /\ \/ ci[c] = "pending" /\ \E end \in {"success", "failure"} :
          ci' = [ci EXCEPT ![c] = end]
     \/ ci[c] = "success" /\ ci' = [ci EXCEPT ![c] = "twice"]
  /\ UNCHANGED <<target, runs, pr, ledger, comment, job>>

-----------------------------------------------------------------------------
Jobs ==
  \/ \E kind \in Kinds : Begin(kind)
  \/ ReadIssue \/ ReadMain \/ ReadLedger \/ Compute \/ Recheck
  \/ CheckDispatch \/ Dispatch \/ Write \/ Stop
Others ==
  \/ PostComment \/ ReviewPolicy \/ MoveMain \/ EditIssue
  \/ TouchPullRequest
  \/ \E r \in 1..Len(runs) : RunEnds(r)
  \/ \E c \in Heads : CIRuns(c)

Next == Jobs \/ Others
Spec == Init /\ [][Next]_vars

-----------------------------------------------------------------------------
(* Properties.                                                              *)

\* To the outside the ledger is that of ForeignLedger, although the issue, main,
\* the ledger and the comment are read one by one, a provider takes its time,
\* and a job may stop anywhere.
Facts == Issues \X Mains
Work ==
  [phase |-> ledger.phase, revision |-> ledger.revision,
   facts |-> <<ledger.issue, ledger.base>>,
   plan |-> <<ledger.plan.issue, ledger.plan.base>>]
Abstract ==
  INSTANCE ForeignLedger WITH NoPlan <- <<None, None>>, work <- Work
LedgerKept == Abstract!Spec

\* A verified ledger rests on an execution of its plan that ran on the reviewed
\* base and on the green workflows of exactly the head it pushed, whatever main,
\* the pull request and its head did between the requests.
VerifiedEvidence ==
  ledger.phase = "ci_verified" =>
    /\ runs[ledger.receipt].phase = "success"
    /\ runs[ledger.receipt].main = ledger.base
    /\ runs[ledger.receipt].plan = ledger.plan
    /\ \E r \in 1..Len(runs) :
         runs[r].plan = ledger.plan /\ runs[r].head = ledger.head
    /\ ci[ledger.head] \in {"success", "twice"}

\* "Stale state is not silently re-authorized after an Issue edit or codeQA main
\* move" (reconcile_admission): once the ledger says that its facts changed, nothing
\* runs, and with a plan it never changes again, though the edit be undone and main
\* be pushed back.  (A change no job saw is not recorded, and stops nothing.)
StaleStaysStopped ==
  [][ledger.failure = "ADMISSION_FACTS_CHANGED" =>
       /\ Len(runs') = Len(runs)
       /\ ledger.plan # NoPlan => ledger' = ledger]_vars
=============================================================================
