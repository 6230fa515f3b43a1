------------------------------ MODULE Workload ------------------------------
(***************************************************************************)
(* From an admitted issue to its closed one: the acceptance loop.          *)
(*                                                                         *)
(* An issue lists its acceptance criteria.  The controller picks the first *)
(* one it cannot call integrated and asks the reasoning provider for one   *)
(* action that advances it; the answer is validated before it is queued,   *)
(* and an answer that does not validate becomes a durable failure.  Pull   *)
(* requests that pass are merged, an issue whose criteria are all          *)
(* integrated is closed, and the one slot of durable state goes to the     *)
(* next issue.                                                             *)
(*                                                                         *)
(* A cycle reads and decides in one step.  It writes the ledger and then   *)
(* the state, two comments of one issue, and the job may die between the   *)
(* two.  A queued action ends with success: the dispatch of actions, their *)
(* failures, refused merges and runs that die elsewhere are the subjects   *)
(* of ActionDispatch, DiagnosticRecovery, PullRequest and ControllerCycle. *)
(***************************************************************************)
EXTENDS Integers, Sequences, FiniteSets

CONSTANTS
  Issues,       \* the issues people label for the controller
  Criteria,     \* the bullets of their Acceptance sections
  CriteriaOf,   \* those of each issue, in order
  Branches,     \* the names of samuel/* branches
  MaxFailures,  \* bound: the different failures of one workload
  MaxCrashes,   \* bound: the jobs that die between their two writes
  None          \* no issue, no criterion, no branch

ASSUME LoopAssumption ==
  /\ CriteriaOf \in [Issues -> Seq(Criteria) \ {<<>>}]
  /\ \A i \in Issues : \A m, n \in DOMAIN CriteriaOf[i] :
       CriteriaOf[i][m] = CriteriaOf[i][n] => m = n
  /\ \A i, j \in Issues : \A m \in DOMAIN CriteriaOf[i], n \in DOMAIN CriteriaOf[j] :
       CriteriaOf[i][m] = CriteriaOf[j][n] => i = j
  /\ MaxFailures \in Nat /\ MaxCrashes \in Nat
  /\ None \notin Issues \cup Criteria \cup Branches

VARIABLES
  issue,   \* GitHub: the issues
  branch,  \* GitHub: the criteria whose work is on each branch; None: no branch
  prs,     \* GitHub: the pull requests, in the order they were opened
  onMain,  \* GitHub: the criteria whose work is on main
  status,  \* the admission ledger: the lifecycle status of each issue
  state,   \* the durable state: its one workload
  crashes  \* the jobs that died

loopVars == <<issue, branch, prs, onMain, status, state, crashes>>
github == <<issue, branch, prs, onMain>>

-----------------------------------------------------------------------------
(* Records.                                                                 *)

\* pr: the number of the pull request to merge.  crit: progress.criterion.
Plan ==
  [act : {"none", "branch", "file", "create_pr", "merge_pr", "close"},
   branch : Branches \cup {None}, pr : Nat, crit : Criteria \cup {None}]

PlanOf(act, b, n, c) == [act |-> act, branch |-> b, pr |-> n, crit |-> c]
NoPlan == PlanOf("none", None, 0, None)
Close == PlanOf("close", None, 0, None)

\* plan: the create_pr action that opened it.
PullRequest ==
  [branch : Branches, plan : Plan, state : {"open", "ready", "merged"}]

\* What a validation error says, as far as two of them can differ.
Text ==
  [code : {"wrong_criterion", "duplicate_action", "missing_branch", "pr_not_ready",
           "unverified_evidence", "no_plan", "policy", "unavailable"},
   plan : Plan]
Failure == [target : Criteria \cup {None}, text : Text]

ActiveStatuses == {"retryable", "escalated", "blocked"}
Lifecycle == {"admitted", "reasoning_required", "planned", "complete", "blocked",
              "revision_required"}

\* unread: main has moved since the provider last answered.
State ==
  [owner : Issues, unread : BOOLEAN, retired : BOOLEAN,
   queue : UNION {[S -> {"pending", "complete"}] : S \in SUBSET Plan},
   failures : UNION {[S -> ActiveStatuses \cup {"resolved"}] : S \in SUBSET Failure}]

NoState ==
  [owner |-> None, unread |-> TRUE, retired |-> FALSE, queue |-> <<>>, failures |-> <<>>]

Fresh(i) == [NoState EXCEPT !.owner = i]

Extend(f, x, v) == [y \in DOMAIN f \cup {x} |-> IF y = x THEN v ELSE f[y]]

LoopTypeOK ==
  /\ issue \in [Issues -> {"absent", "open", "closed"}]
  /\ branch \in [Branches -> (SUBSET Criteria) \cup {None}]
  /\ prs \in Seq(PullRequest)
  /\ onMain \subseteq Criteria
  /\ status \in [Issues -> Lifecycle \cup {"absent"}]
  /\ state # NoState =>
       /\ state.owner \in Issues
       /\ state.unread \in BOOLEAN /\ state.retired \in BOOLEAN
       /\ DOMAIN state.queue \subseteq Plan
       /\ \A p \in DOMAIN state.queue : state.queue[p] \in {"pending", "complete"}
       /\ DOMAIN state.failures \subseteq Failure
       /\ \A f \in DOMAIN state.failures :
            state.failures[f] \in ActiveStatuses \cup {"resolved"}
  /\ crashes \in 0..MaxCrashes

LoopInit ==
  /\ issue = [i \in Issues |-> "absent"]
  /\ branch = [b \in Branches |-> None]
  /\ prs = <<>>
  /\ onMain = {}
  /\ status = [i \in Issues |-> "absent"]
  /\ state = NoState
  /\ crashes = 0

-----------------------------------------------------------------------------
(* Evidence.  The argument s is a workload's durable state.                 *)

VerifiedPlans(s) == {p \in DOMAIN s.queue : s.queue[p] = "complete"}

MergedPRs(s) == {p.pr : p \in {p \in VerifiedPlans(s) : p.act = "merge_pr"}}

MergedHeads(s) ==
  {prs[n].branch : n \in {n \in MergedPRs(s) : prs[n].plan \in VerifiedPlans(s)}}

\* The action p counts as integrated evidence for its criterion.
Counts(p, s) ==
  /\ p \in VerifiedPlans(s)
  /\ \/ p.act = "create_pr" /\ \E n \in MergedPRs(s) : prs[n].plan = p
     \/ p.act = "merge_pr"
     \/ p.act = "file" /\ p.branch \in MergedHeads(s)

Integrated(s) == {p.crit : p \in {p \in VerifiedPlans(s) : Counts(p, s)}} \ {None}

\* Mutation of Eligible: a criterion with verified evidence is taken as done,
\* merged or not.
EligibleVerified(s) ==
  LET done == {p.crit : p \in VerifiedPlans(s)}
  IN {n \in DOMAIN CriteriaOf[s.owner] : CriteriaOf[s.owner][n] \notin done}

\* The positions of the criteria without integrated evidence, and the criterion
\* the controller selects: the first of them.
Eligible(s) ==
  LET done == Integrated(s)
  IN {n \in DOMAIN CriteriaOf[s.owner] : CriteriaOf[s.owner][n] \notin done}

Target(s) ==
  LET left == Eligible(s)
  IN IF left = {} THEN None
     ELSE CriteriaOf[s.owner][CHOOSE n \in left : \A m \in left : n <= m]

-----------------------------------------------------------------------------
(* The slot of durable state.                                               *)

Failing(s) == {f \in DOMAIN s.failures : s.failures[f] \in ActiveStatuses}

Quiescent(s) == \A p \in DOMAIN s.queue : s.queue[p] = "complete"

Unexecuted(s) == DOMAIN s.queue = {} /\ Failing(s) = {}

\* Mutation of CanRollover: a failure counts although it was resolved.
CanRolloverResolved(s) ==
  /\ DOMAIN s.failures = {}
  /\ IF s.retired THEN Unexecuted(s) ELSE DOMAIN s.queue # {} /\ Quiescent(s)

CanRollover(s) ==
  /\ Failing(s) = {}
  /\ IF s.retired THEN Unexecuted(s) ELSE DOMAIN s.queue # {} /\ Quiescent(s)

Retires ==
  /\ state # NoState /\ issue[state.owner] # "open"
  /\ ~CanRollover(state) /\ Unexecuted(state) /\ ~state.retired

\* The closed issue yields the slot.
Yields ==
  state # NoState /\ issue[state.owner] # "open" /\ CanRollover(state)

Slot == IF state = NoState \/ Yields THEN None ELSE state.owner

\* The admission ledger as the cycle reconciles it: labelled issues enter, the
\* workload that yielded is complete.
Ledger ==
  [i \in Issues |->
     IF status[i] = "absent" /\ issue[i] = "open" THEN "admitted"
     ELSE IF Yields /\ i = state.owner THEN "complete"
     ELSE status[i]]

-----------------------------------------------------------------------------
(* What the cycle does, in the order it looks.                              *)

OwnedBranches(s) ==
  {p.branch : p \in {p \in DOMAIN s.queue : p.act \in {"file", "create_pr"}}}

MergeOf(n) == PlanOf("merge_pr", None, n, None)

\* The pull requests that may be merged without asking the provider.
ReadyPRs ==
  IF Slot = None \/ ~CanRollover(state) THEN {}
  ELSE {n \in DOMAIN prs : prs[n].state = "ready" /\ prs[n].branch \in OwnedBranches(state)}

Closes ==
  /\ Slot # None /\ Quiescent(state)
  /\ issue[Slot] = "open" /\ Ledger[Slot] # "complete"
  /\ Eligible(state) = {}

Settled == ~Retires /\ ~Closes /\ ReadyPRs = {}

Waiting == {i \in Issues : Ledger[i] = "reasoning_required"}
Planned == {i \in Issues : Ledger[i] = "planned"}

\* The controller raises: it cannot tell which issue the cycle is about.
Ambiguous ==
  \/ Cardinality(Waiting) > 1
  \/ Slot = None /\ Planned # {} /\ (Cardinality(Planned) > 1 \/ Waiting # {})

Continues(i) ==
  /\ Slot = i /\ Quiescent(state)
  /\ \/ Ledger[i] = "planned" /\ DOMAIN state.queue # {}
     \/ Ledger[i] \in {"blocked", "revision_required"} /\ issue[i] = "open" /\ state.unread

\* Mutation of HasTurn: a plan without a state is not looked for.
HasTurnAdmits(i) ==
  /\ ~Ambiguous
  /\ \/ Waiting = {i} /\ Slot \in {i, None}
     \/ Waiting = {} /\ Slot = None /\ Ledger[i] = "admitted"

\* The issue that waits for an answer, else the one whose plan never reached the
\* state, else one that was admitted.
HasTurn(i) ==
  /\ ~Ambiguous
  /\ \/ Waiting = {i} /\ Slot \in {i, None}
     \/ Waiting = {} /\ Slot = None /\ Planned = {i}
     \/ Waiting = {} /\ Slot = None /\ Planned = {} /\ Ledger[i] = "admitted"

\* The issue this cycle reasons about.
Reasons(i) ==
  /\ Settled
  /\ Continues(i) \/ (HasTurn(i) /\ ~\E j \in Issues : Continues(j))

Work(i) == IF Slot = i THEN state ELSE Fresh(i)

ActiveFailures(i) ==
  LET s == Work(i)
      target == Target(s)
  IN {f \in Failing(s) : f.target = target}

\* The provider is asked: neither a failure that stops the workload nor two
\* active ones, of which the controller cannot tell which is meant.
Asks(i) ==
  /\ Reasons(i)
  /\ LET active == ActiveFailures(i)
     IN active = {} \/ \E f \in active : active = {f} /\ state.failures[f] = "retryable"

Halts(i) ==
  /\ Reasons(i)
  /\ LET active == ActiveFailures(i)
     IN \E f \in active : active = {f} /\ state.failures[f] # "retryable"

-----------------------------------------------------------------------------
(* The provider.                                                            *)

\* The plans a provider can propose that GitHub would carry out: no branch
\* twice, no pull request without changes or beside an open one.
Plausible ==
  {PlanOf("branch", b, 0, c) : b \in {b \in Branches : branch[b] = None}, c \in Criteria}
  \cup {PlanOf("file", b, 0, c) : b \in Branches, c \in Criteria}
  \cup {PlanOf("create_pr", b, 0, c) :
          b \in {b \in Branches :
                   /\ branch[b] = None \/ ~branch[b] \subseteq onMain
                   /\ \A n \in DOMAIN prs : prs[n].branch = b => prs[n].state = "merged"},
          c \in Criteria}
  \cup {PlanOf("merge_pr", None, n, c) : n \in DOMAIN prs, c \in Criteria}
  \cup {Close}

Says(code, p) == [code |-> code, plan |-> p]
Valid == Says("none", NoPlan)

\* The complaints about the plan p: of the parser, which knows the criterion that
\* was selected; about its target; about the evidence for a close.
OfParser(p, target) ==
  IF p.act # "close" /\ p.crit # target THEN Says("wrong_criterion", NoPlan) ELSE Valid

OfTarget(p) ==
  IF p.act \in {"file", "create_pr"} /\ branch[p.branch] = None THEN Says("missing_branch", p)
  ELSE IF p.act = "merge_pr" /\ prs[p.pr].state # "ready" THEN Says("pr_not_ready", p)
  ELSE Valid

OfEvidence(p, s) ==
  IF p.act = "close" /\ VerifiedPlans(s) = {} THEN Says("unverified_evidence", NoPlan) ELSE Valid

OfPreflight(p, s) ==
  IF p \in DOMAIN s.queue THEN Says("duplicate_action", p)
  ELSE IF OfTarget(p) # Valid THEN OfTarget(p)
  ELSE OfEvidence(p, s)

Complaint(p, s, target) ==
  IF OfParser(p, target) # Valid THEN OfParser(p, target) ELSE OfPreflight(p, s)

\* (w holds the workload and its target, which TLC so evaluates once.)
Acceptable(i) ==
  UNION {{p \in Plausible : Complaint(p, w[1], w[2]) = Valid} :
           w \in {<<Work(i), Target(Work(i))>>}}

\* No plan although work is left, asked twice; a plan the mutation policy forbids;
\* no answer.
Unreconciled == Says("no_plan", NoPlan)
Forbidden == Says("policy", NoPlan)
Unanswered == Says("unavailable", NoPlan)

\* The errors two attempts can end with.
Texts(i) ==
  LET s == Work(i)
      target == Target(s)
  IN {Unreconciled, Forbidden, Unanswered}
     \cup {Complaint(p, s, target) : p \in Plausible \ Acceptable(i)}

\* A typed answer resolves the retryable failures of its target.
Answered(s) ==
  LET target == Target(s)
  IN [s EXCEPT !.unread = FALSE,
               !.failures = [f \in DOMAIN s.failures |->
                  IF s.failures[f] = "retryable" /\ f.target = target THEN "resolved"
                  ELSE s.failures[f]]]

\* A new failure is retryable, unless only another policy could help; the second
\* occurrence of a retryable one escalates it.  One that was resolved stays so.
Recorded(s, f) ==
  [s EXCEPT !.failures = Extend(s.failures, f,
     IF f \notin DOMAIN s.failures
       THEN IF f.text = Forbidden THEN "blocked" ELSE "retryable"
     ELSE IF s.failures[f] = "retryable" THEN "escalated"
     ELSE s.failures[f])]

Queued(s, p) == [s EXCEPT !.queue = Extend(s.queue, p, "pending")]

Entered(i, lifecycle) == [Ledger EXCEPT ![i] = lifecycle]

\* The two writes of a cycle.  The job may die after the first.
Persist(work, s) ==
  /\ status' = work
  /\ \/ state' = s /\ UNCHANGED crashes
     \/ /\ work # status /\ s # state /\ crashes < MaxCrashes
        /\ crashes' = crashes + 1 /\ UNCHANGED state
  /\ UNCHANGED github

\* The answer is a plan that validates.
Plans(i) ==
  /\ Asks(i)
  /\ \E p \in Acceptable(i) :
       Persist(Entered(i, "planned"), Queued(Answered(Work(i)), p))

LifecycleOf(outcome) ==
  IF outcome = "revision_required" THEN "revision_required" ELSE "blocked"

\* What the guard says when there is no plan to queue: the plan is too risky, the
\* proposal contradicts a locked decision, a revision of one is wanted.
Outcomes == {"blocked", "rejected", "revision_required"}

\* The guard stops the work.
Stops(i) ==
  /\ Asks(i)
  /\ \E outcome \in Outcomes :
       Persist(Entered(i, LifecycleOf(outcome)), Answered(Work(i)))

\* Neither attempt validated.  A failure that was resolved and comes back has no
\* kind the controller knows: it raises and writes nothing.
Fails(i) ==
  /\ Asks(i)
  /\ LET s == Work(i)
         target == Target(s)
     IN \E t \in Texts(i) :
          LET f == [target |-> target, text |-> t]
          IN /\ Cardinality(DOMAIN s.failures \cup {f}) <= MaxFailures
             /\ Recorded(s, f) # s
             /\ Persist(Entered(i, "reasoning_required"), Recorded(s, f))

\* No provider is available, or there is no answer yet: the issue waits for it.
Waits(i) ==
  /\ Settled /\ HasTurn(i) /\ Cardinality(ActiveFailures(i)) <= 1
  /\ status' = Entered(i, "reasoning_required")
  /\ UNCHANGED <<github, state, crashes>>

-----------------------------------------------------------------------------
(* The cycle.  It raises, and writes nothing, when two pull requests of the *)
(* workload are ready and when two failures of the target are active.       *)

Retire ==
  /\ Retires
  /\ Persist(Entered(state.owner, "complete"), [state EXCEPT !.retired = TRUE])

CloseIssue ==
  /\ Closes /\ Close \notin DOMAIN state.queue
  /\ Persist(Entered(state.owner, "planned"), Queued(state, Close))

MergeReady ==
  /\ ~Closes
  /\ \E n \in ReadyPRs :
       /\ ReadyPRs = {n} /\ MergeOf(n) \notin DOMAIN state.queue
       /\ Persist(Entered(state.owner, "planned"), Queued(state, MergeOf(n)))

\* A failure that was escalated or blocked: the issue only becomes reasoning_required.
Halt ==
  /\ \E i \in Issues : Halts(i) /\ status' = Entered(i, "reasoning_required")
  /\ UNCHANGED <<github, state, crashes>>

\* Nothing to do, another workload has the slot, or the owner goes on when there is a
\* provider again: only the ledger is written.
Reconcile ==
  /\ Settled /\ ~Ambiguous /\ ~\E i \in Issues : HasTurn(i)
  /\ status' = Ledger
  /\ UNCHANGED <<github, state, crashes>>

-----------------------------------------------------------------------------
(* Executors, CI, people.                                                   *)

\* A new branch starts from main; a file action adds the work for its criterion.
ExecuteFile(p) ==
  /\ p.act \in {"branch", "file"}
  /\ branch' = [branch EXCEPT ![p.branch] =
                  IF p.act = "branch" THEN onMain ELSE @ \cup {p.crit}]
  /\ UNCHANGED <<issue, prs, onMain>>

ExecuteCreatePR(p) ==
  /\ p.act = "create_pr"
  /\ prs' = Append(prs, [branch |-> p.branch, plan |-> p, state |-> "open"])
  /\ UNCHANGED <<issue, branch, onMain>>

ExecuteMerge(p) ==
  /\ p.act = "merge_pr"
  /\ prs' = [prs EXCEPT ![p.pr].state = "merged"]
  /\ onMain' = onMain \cup branch[prs[p.pr].branch]
  /\ UNCHANGED <<issue, branch>>

ExecuteClose(p) ==
  /\ p.act = "close"
  /\ issue' = [issue EXCEPT ![state.owner] = "closed"]
  /\ UNCHANGED <<branch, prs, onMain>>

\* A merge moves main, and with it the head the next cycle observes.
Execute ==
  /\ \E p \in DOMAIN state.queue :
       /\ state.queue[p] = "pending"
       /\ state' = [state EXCEPT !.queue[p] = "complete",
                                 !.unread = state.unread \/ p.act = "merge_pr"]
       /\ ExecuteFile(p) \/ ExecuteCreatePR(p) \/ ExecuteMerge(p) \/ ExecuteClose(p)
  /\ UNCHANGED <<status, crashes>>

CIPasses ==
  /\ \E n \in DOMAIN prs :
       prs[n].state = "open" /\ prs' = [prs EXCEPT ![n].state = "ready"]
  /\ UNCHANGED <<issue, branch, onMain, status, state, crashes>>

MainMoves ==
  /\ state # NoState /\ ~state.unread
  /\ state' = [state EXCEPT !.unread = TRUE]
  /\ UNCHANGED <<github, status, crashes>>

Label(i) ==
  /\ issue[i] = "absent"
  /\ issue' = [issue EXCEPT ![i] = "open"]
  /\ UNCHANGED <<branch, prs, onMain, status, state, crashes>>

\* Somebody else closes an issue of the ledger.
CloseByHand(i) ==
  /\ issue[i] = "open" /\ status[i] # "absent"
  /\ issue' = [issue EXCEPT ![i] = "closed"]
  /\ UNCHANGED <<branch, prs, onMain, status, state, crashes>>

Cycle ==
  Retire \/ CloseIssue \/ MergeReady \/ Halt \/ Reconcile
Provider == \E i \in Issues : Plans(i) \/ Stops(i) \/ Fails(i) \/ Waits(i)
Environment ==
  Execute \/ CIPasses \/ MainMoves \/ \E i \in Issues : Label(i) \/ CloseByHand(i)

LoopNext == Cycle \/ Provider \/ Environment

LoopSpec == LoopInit /\ [][LoopNext]_loopVars

\* Bootstrap runs are scheduled, executors end, and a provider that is asked again
\* and again proposes an acceptable plan some time.  CI may stay pending.
FairLoop ==
  /\ LoopSpec
  /\ WF_loopVars(Retire \/ CloseIssue \/ MergeReady \/ Reconcile)
  /\ WF_loopVars(Execute)
  /\ WF_loopVars(\E i \in Issues : Plans(i))

-----------------------------------------------------------------------------
(* Properties.                                                              *)

\* Work on a criterion begins only when all the criteria before it are integrated:
\* the target the controller selects and the evidence it counts agree over the
\* whole life of a workload, merges and failures included.
Ordered ==
  state # NoState =>
    \A n \in DOMAIN CriteriaOf[state.owner] :
      CriteriaOf[state.owner][n] \in {p.crit : p \in DOMAIN state.queue} =>
        \A m \in 1..(n - 1) : CriteriaOf[state.owner][m] \in Integrated(state)

\* The ledger and the state are two comments, and a cycle may write only the first:
\* still at most one issue waits for an answer or has a plan, and the slot is its own
\* or free.  With two the controller would raise, at every wake.
OneWorkload ==
  \A i \in Issues :
    status[i] \in {"reasoning_required", "planned"} =>
      /\ Slot \in {i, None}
      /\ \A j \in Issues : status[j] \in {"reasoning_required", "planned"} => j = i

\* The answer about the owner reached only the ledger, and nobody asks again: of a
\* plan, while the state has no other action; of a stop, when the issue was closed.
\* A failure the answer resolved stays active and keeps the slot even then.
AnswerLost ==
  \/ /\ status[state.owner] = "planned" /\ DOMAIN state.queue = {}
     /\ issue[state.owner] = "open" \/ Failing(state) # {}
  \/ /\ status[state.owner] \in {"blocked", "revision_required"}
     /\ issue[state.owner] = "closed" /\ Failing(state) # {}

\* The issue was stopped, and the state that would own it was never written.
Abandoned(i) ==
  status[i] \in {"blocked", "revision_required"} /\ state.owner # i

\* What only a person can resolve: a failure that was escalated or blocked, two
\* failures of one target, two ready pull requests, a blocked issue while main
\* stands still, or an answer that was lost.
NeedsAPerson ==
  /\ state # NoState
  /\ \/ \E f \in ActiveFailures(state.owner) : state.failures[f] # "retryable"
     \/ Cardinality(ActiveFailures(state.owner)) > 1
     \/ Cardinality(ReadyPRs) > 1
     \/ status[state.owner] \in {"blocked", "revision_required"} /\ ~state.unread
     \/ AnswerLost

\* Every admitted issue is completed, or the loop gets to a point where it waits for
\* a person: there is no other way for an issue, or for one that waits for the slot,
\* to be stuck, jobs that die between their writes included.
Settles ==
  \A i \in Issues :
    status[i] = "admitted" ~> status[i] = "complete" \/ Abandoned(i) \/ NeedsAPerson

\* What preflight.py promises of integrated evidence: progress counts once the
\* pull request that carries its branch is merged later.  Work that counts because
\* its branch was merged is on main.
IntegratedOnMain ==
  state # NoState =>
    \A p \in DOMAIN state.queue :
      p.act = "file" /\ Counts(p, state) => p.crit \in onMain

\* What predispatch_recovery.py promises of the failures of a target: one of them
\* is active.
OneActiveFailure ==
  state # NoState => Cardinality(ActiveFailures(state.owner)) <= 1
=============================================================================
