--------------------------- MODULE ControllerCycle ---------------------------
(***************************************************************************)
(* The root of Samuel: SamuelController.run_cycle.                         *)
(*                                                                         *)
(* Two comments of the control issue are all that lasts: the admission     *)
(* ledger, with the lifecycle of every admitted issue, and the state, one  *)
(* slot with the queue of the workload that owns it.  A bootstrap run      *)
(* reads both and the repository, decides what happens next, and writes    *)
(* the ledger first and the state second; it may die between the two.      *)
(* Bootstrap runs exclude each other (the concurrency group), people and   *)
(* GitHub do not wait for them.                                            *)
(*                                                                         *)
(* The execution of an action and its recovery are those of ActionDispatch *)
(* and DiagnosticRecovery, here reduced to their outcomes.                 *)
(***************************************************************************)
EXTENDS Integers, FiniteSets

CONSTANTS
  Works,       \* admitted issues, in the order their work ids sort
  Tasks,       \* plans semantic reasoning may propose
  Modes,       \* SAMUEL_REASONING_MODE: "external" (production), "provider"
  Errors,      \* errors of semantic reasoning, told apart by fingerprint
  Truncated,   \* whether open issues may be missing from the page observed
  MaxCrashes   \* bound: runs that die between their two writes

ASSUME CycleAssumption ==
  /\ Works \subseteq Nat
  /\ Modes \subseteq {"external", "provider"}
  /\ Tasks \cap {"merge", "branch", "close", "none"} = {}
  /\ Truncated \in BOOLEAN
  /\ MaxCrashes \in Nat

VARIABLES
  mode,        \* the reasoning mode, which never changes
  ledger,      \* admission ledger: the status of every issue
  state,       \* the one state slot
  issue,       \* GitHub: the issues
  pr,          \* GitHub: the pull request of a workload's branch
  submission,  \* GitHub: the reasoning submission the owner posted
  moved,       \* whether main moved since the last dispatch intent
  crashes

saved == <<ledger, state>>
world == <<mode, issue, pr, submission>>
cycleVars == <<saved, world, moved, crashes>>

-----------------------------------------------------------------------------
(* The two comments.                                                        *)

Plan == Tasks \cup {"merge", "branch", "close"}

\* "blocked" stands for revision_required too.
LedgerStatus ==
  {"absent", "admitted", "reasoning_required", "planned", "blocked", "complete"}

InFlightStatus == {"dispatch_intent", "dispatched"}
SettledStatus == {"absent", "complete", "rejected"}
PlanStatus ==
  SettledStatus \cup InFlightStatus \cup {"pending", "suspended"}

\* "held", until a person intervenes, stands for escalated and blocked.
ActiveFailure == {"retryable", "held"}

\* proven: the completion carries what the worker read back (plans it matters
\* for).  governed: the suspension is final.  recovering: the diagnostic recovery
\* is unresolved.  seen: the last reasoning saw the commit main has now.
Slot ==
  [owner : Works, queue : [Plan -> PlanStatus], proven : SUBSET Plan,
   governed : SUBSET Plan, recovering : SUBSET Plan,
   failure : [Errors -> ActiveFailure \cup {"none", "resolved"}],
   retired : BOOLEAN, seen : BOOLEAN]

NoSlot == [owner |-> "none"]

Fresh(w) ==
  [owner |-> w, queue |-> [p \in Plan |-> "absent"], proven |-> {},
   governed |-> {}, recovering |-> {},
   failure |-> [e \in Errors |-> "none"], retired |-> FALSE, seen |-> FALSE]

Queued(s) == {p \in Plan : s.queue[p] # "absent"}
InFlightWork(s) == {p \in Plan : s.queue[p] \in InFlightStatus}
Pending(s) == {p \in Plan : s.queue[p] = "pending"}
Active(s) == {e \in Errors : s.failure[e] \in ActiveFailure}

CycleTypeOK ==
  /\ mode \in Modes
  /\ ledger \in [Works -> LedgerStatus]
  /\ state \in Slot \cup {NoSlot}
  /\ issue \in [Works -> {"none", "open", "closed"}]
  /\ pr \in [Works -> {"none", "ready", "merged"}]
  /\ submission \in [Works -> Tasks \cup {"none"}]
  /\ moved \in BOOLEAN
  /\ crashes \in 0..MaxCrashes

CycleInit ==
  /\ mode \in Modes
  /\ ledger = [w \in Works |-> "absent"]
  /\ state = NoSlot
  /\ issue = [w \in Works |-> "none"]
  /\ pr = [w \in Works |-> "none"]
  /\ submission = [w \in Works |-> "none"]
  /\ moved = FALSE
  /\ crashes = 0

-----------------------------------------------------------------------------
(* What a cycle reads.                                                      *)

\* Mutation of CanRollover: an active failure does not hold the slot.
CanRolloverDespiteFailure(s) ==
  \/ s.retired
  \/ /\ Queued(s) # {} /\ s.recovering = {}
     /\ \A p \in Plan : \/ s.queue[p] \in SettledStatus
                        \/ s.queue[p] = "suspended" /\ p \in s.governed

\* can_rollover_state: the slot may go to another workload.
CanRollover(s) ==
  /\ Active(s) = {}
  /\ \/ s.retired
     \/ /\ Queued(s) # {} /\ s.recovering = {}
        /\ \A p \in Plan : \/ s.queue[p] \in SettledStatus
                           \/ s.queue[p] = "suspended" /\ p \in s.governed

\* is_quiescent_unexecuted_state: nothing was ever queued or is to be settled.
Quiescent(s) == Queued(s) = {} /\ Active(s) = {} /\ ~s.retired

ActionsQuiescent(s) ==
  \A p \in Plan : s.queue[p] \in SettledStatus \cup {"suspended"}

\* Mutation of Integrated: a finished merge action counts as a merge.
IntegratedUnread(s) ==
  /\ \E t \in Tasks : s.queue[t] = "complete" /\ t \in s.proven
  /\ s.queue["merge"] # "absent"

\* integrated_acceptance_evidence: a task read back as done, carried by a
\* merge read back as merged.
Integrated(s) ==
  /\ \E t \in Tasks : s.queue[t] = "complete" /\ t \in s.proven
  /\ s.queue["merge"] = "complete" /\ "merge" \in s.proven

Open == {w \in Works : issue[w] = "open"}

\* The issues a cycle observes as open: one page of them.
Listing == IF Truncated THEN SUBSET Open ELSE {Open}

\* discover_admissible_issues
Discovered(listing) ==
  [w \in Works |-> IF ledger[w] = "absent" /\ w \in listing
                     THEN "admitted" ELSE ledger[w]]

\* The terminal rollover.  It does not ask whether the listing is complete.
Yields(listing) ==
  state # NoSlot /\ CanRollover(state) /\ state.owner \notin listing

\* Mutation of Retires: asked only of a slot that may be rolled over already.
RetiresLate(listing) ==
  /\ state # NoSlot /\ CanRollover(state) /\ Quiescent(state)
  /\ listing = Open /\ state.owner \notin listing

\* The retirement of a closed workload that never executed anything.
Retires(listing) ==
  /\ state # NoSlot /\ ~CanRollover(state) /\ Quiescent(state)
  /\ listing = Open /\ state.owner \notin listing

\* State and ledger as the rest of the cycle sees them.
Current(listing) == IF Yields(listing) THEN NoSlot ELSE state
Work(listing) ==
  IF Yields(listing)
    THEN [Discovered(listing) EXCEPT ![state.owner] = "complete"]
    ELSE Discovered(listing)

\* Planned work goes on; a blocker is thought over once main has moved.
MayContinue(s, status, listing) ==
  /\ mode = "provider" /\ s.recovering = {}
  /\ \/ status = "planned" /\ Queued(s) # {}
     \/ status = "blocked" /\ s.owner \in listing /\ ~s.seen

\* Mutation of Taken: an owner with nothing to do shares its slot.
TakenWhileBusy(s, w) == s # NoSlot /\ ~ActionsQuiescent(s) /\ s.owner # w

\* The owner keeps the slot until its issue is observed closed.
Taken(s, w) == s # NoSlot /\ s.owner # w

With(status, work) == {w \in Works : work[w] = status}
First(S) == CHOOSE x \in S : \A y \in S : x <= y

\* Where a cycle goes that sees slot s and ledger work: the first case that
\* applies.  The cycles that go to "raises" fail and write nothing.
Route(listing, s, work) ==
  LET settled == s # NoSlot /\ ActionsQuiescent(s)
      own == work[s.owner]
      waiting == With("reasoning_required", work)
      planned == With("planned", work)
      admitted == With("admitted", work)
  IN IF Retires(listing) THEN "retire"
     ELSE IF settled /\ own # "complete" /\ s.owner \in listing /\ Integrated(s)
       THEN IF s.queue["close"] = "absent" THEN "close" ELSE "raises"
     ELSE IF settled /\ CanRollover(s) /\ pr[s.owner] = "ready"
             /\ s.queue["merge"] = "rejected" /\ s.queue["branch"] = "absent"
       THEN "branch"
     ELSE IF settled /\ CanRollover(s) /\ pr[s.owner] = "ready"
             /\ s.queue["merge"] = "absent" /\ Queued(s) # {}
       THEN "merge"
     ELSE IF settled /\ MayContinue(s, own, listing) THEN "continue"
     ELSE IF Cardinality(waiting) > 1 THEN "raises"
     ELSE IF s = NoSlot /\ planned # {}
       THEN IF Cardinality(planned) = 1 /\ waiting = {} THEN "replan" ELSE "raises"
     ELSE IF waiting # {}
       THEN IF \E w \in waiting : Taken(s, w) THEN "owned" ELSE "reason"
     ELSE IF s # NoSlot /\ InFlightWork(s) # {}
       THEN IF Cardinality(InFlightWork(s)) > 1 THEN "raises" ELSE "in_flight"
     ELSE IF s # NoSlot /\ s.recovering # {} THEN "recover"
     ELSE IF s # NoSlot /\ Pending(s) # {} THEN "retry"
     ELSE IF admitted # {}
       THEN IF Taken(s, First(admitted)) THEN "owned" ELSE "issue"
     ELSE "idle"

-----------------------------------------------------------------------------
(* What a cycle writes.                                                     *)

\* The ledger comment, then the state comment; the run may die in between.
Write(work, s) ==
  /\ ledger' = work
  /\ \/ state' = s /\ UNCHANGED crashes
     \/ /\ work # ledger /\ s # state /\ crashes < MaxCrashes
        /\ state' = state /\ crashes' = crashes + 1
  /\ UNCHANGED world

\* An intent is recorded; the run that recorded it dispatches the worker,
\* unless it dies before the receipt.
WriteIntent(work, s, p) ==
  /\ \E status \in InFlightStatus :
       Write(work, [s EXCEPT !.queue[p] = status])
  /\ moved' = IF state' = state THEN moved ELSE FALSE

WriteOnly(work, s) == Write(work, s) /\ UNCHANGED moved

-----------------------------------------------------------------------------
(* Semantic reasoning about work w, in a slot s of its own.                 *)

Resolved(s) ==
  [s EXCEPT !.failure = [e \in Errors |-> IF s.failure[e] = "retryable"
                                             THEN "resolved" ELSE s.failure[e]]]

\* record_predispatch_failure: one of authority blocks, any other may be tried
\* again once and escalates when it recurs.  A recurrence of a resolved one is
\* not foreseen, and the cycle fails.
Recorded(before) ==
  CASE before = "none" -> {"retryable", "held"}
    [] before = "retryable" -> {"held"}
    [] OTHER -> {}

ReasonWithProvider(w, s, work) ==
  \/ \E e \in Errors : \E status \in Recorded(s.failure[e]) :
       WriteOnly(work, [s EXCEPT !.failure[e] = status])
  \/ \E t \in Tasks :
       /\ s.queue[t] = "absent"
       /\ WriteIntent([work EXCEPT ![w] = "planned"],
                      [Resolved(s) EXCEPT !.seen = TRUE], t)
  \/ WriteOnly(work, IF Resolved(s) = s THEN state ELSE Resolved(s))
  \/ WriteOnly([work EXCEPT ![w] = "blocked"], [Resolved(s) EXCEPT !.seen = TRUE])

\* The submission stays posted: it is consumed again whenever reasoning is,
\* and the cycle fails once its action has left "pending".
ReasonWithSubmission(w, s, work) ==
  LET t == submission[w] IN
  \/ WriteOnly(work, state)
  \/ /\ t # "none" /\ s.queue[t] \in {"absent", "pending"}
     /\ WriteIntent([work EXCEPT ![w] = "planned"], s, t)
  \/ WriteOnly([work EXCEPT ![w] = "blocked"], state)

\* A held failure needs a person; two active ones are an error.
Reason(w, s, work) ==
  LET base == IF s = NoSlot THEN Fresh(w) ELSE s IN
  \/ /\ \E e \in Errors : Active(base) = {e} /\ base.failure[e] = "held"
     /\ WriteOnly(work, state)
  \/ /\ \A e \in Active(base) : Active(base) = {e} /\ base.failure[e] = "retryable"
     /\ IF mode = "provider" THEN ReasonWithProvider(w, base, work)
                             ELSE ReasonWithSubmission(w, base, work)

\* Verified work of the last owner that names the issue of w is carried over:
\* the slot passes to w even before there is a plan.
Inherits(w, work) ==
  state # NoSlot /\ state.owner # w /\ WriteOnly(work, Fresh(w))

-----------------------------------------------------------------------------
(* The cycles.                                                              *)

\* The first phase of a transfer: the retirement is recorded, nothing else.
Retire(work) ==
  WriteOnly([work EXCEPT ![state.owner] = "complete"],
            [state EXCEPT !.retired = TRUE])

\* Deterministic plans: close the issue, branch anew, merge the pull request.
PlanDeterministic(plan, work) ==
  WriteIntent([work EXCEPT ![state.owner] = "planned"], state, plan)

Continue(work) ==
  Reason(state.owner, state, [work EXCEPT ![state.owner] = "reasoning_required"])

\* Planned work whose plan was never written is reasoned about again.
Replan(work) ==
  \E w \in With("planned", work) :
    LET waiting == [work EXCEPT ![w] = "reasoning_required"]
    IN Reason(w, NoSlot, waiting) \/ Inherits(w, waiting)

ReasonWaiting(s, work) ==
  \E w \in With("reasoning_required", work) :
    Reason(w, s, work) \/ (s = NoSlot /\ Inherits(w, work))

StartIssue(s, work) ==
  LET w == First(With("admitted", work))
  IN Reason(w, s, [work EXCEPT ![w] = "reasoning_required"])

RetryPending(work) ==
  \E p \in Pending(state) : WriteIntent(work, state, p)

\* Nothing but newly admitted issues and the end of the last workload.
Observe(work) == WriteOnly(work, state)

\* An intent of an older commit is given up.
GiveUp(p, work) ==
  /\ state.queue[p] = "dispatch_intent" /\ moved
  /\ WriteOnly([work EXCEPT ![state.owner] = "reasoning_required"],
               [state EXCEPT !.queue[p] = "rejected"])

\* The worker of an intent is found, or dispatched again, and its receipt
\* written; or the gateway waits or raises (module ActionDispatch), as it does
\* about a worker that has not reported.
Resume(p, work) ==
  \/ /\ state.queue[p] = "dispatch_intent" /\ ~moved
     /\ WriteOnly(work, [state EXCEPT !.queue[p] = "dispatched"])
  \/ /\ state.queue[p] = "dispatch_intent" => ~moved
     /\ Observe(work)

ResumeInFlight(work) ==
  \E p \in InFlightWork(state) : GiveUp(p, work) \/ Resume(p, work)

\* The corrective run of DiagnosticRecovery was verified; or the recovery goes
\* on, perhaps for ever.
Recover(work) ==
  \/ \E p \in state.recovering :
       WriteOnly(work, [state EXCEPT !.queue[p] = "pending",
                                     !.recovering = @ \ {p}])
  \/ Observe(work)

Cycle(listing) ==
  \E s \in {Current(listing)}, work \in {Work(listing)} :
  \E route \in {Route(listing, s, work)} :
    \/ route = "retire" /\ Retire(work)
    \/ route \in {"close", "branch", "merge"} /\ PlanDeterministic(route, work)
    \/ route = "continue" /\ Continue(work)
    \/ route = "replan" /\ Replan(work)
    \/ route = "reason" /\ ReasonWaiting(s, work)
    \/ route = "issue" /\ StartIssue(s, work)
    \/ route = "retry" /\ RetryPending(work)
    \/ route = "in_flight" /\ ResumeInFlight(work)
    \/ route = "recover" /\ Recover(work)
    \/ route \in {"owned", "idle"} /\ Observe(work)

-----------------------------------------------------------------------------
(* A worker ends and its artifact is ingested.                              *)

\* What the worker changed and what it read back: a NOOP reads nothing back.
Effect(p, proved) ==
  LET w == state.owner IN
  CASE p = "merge" -> /\ pr[w] = IF proved THEN "ready" ELSE "merged"
                      /\ pr' = [pr EXCEPT ![w] = "merged"]
                      /\ UNCHANGED issue
    [] p = "close" -> /\ issue[w] = IF proved THEN "open" ELSE "closed"
                      /\ issue' = [issue EXCEPT ![w] = "closed"]
                      /\ UNCHANGED pr
    [] OTHER -> UNCHANGED <<issue, pr>>

Succeeds(p) ==
  \E proved \in BOOLEAN :
    /\ Effect(p, proved)
    /\ state' = [state EXCEPT !.queue[p] = "complete",
                              !.proven = IF proved /\ p \in Tasks \cup {"merge"}
                                           THEN @ \cup {p} ELSE @]

\* A failure is tried again; the same one a second time suspends the action
\* and opens its diagnostic recovery.
Fails(p) ==
  /\ \/ state' = [state EXCEPT !.queue[p] = "pending"]
     \/ state' = [state EXCEPT !.queue[p] = "suspended",
                               !.recovering = @ \cup {p}]
  /\ UNCHANGED <<issue, pr>>

GivenUp(p) ==
  /\ \/ state' = [state EXCEPT !.queue[p] = "rejected"]
     \/ state' = [state EXCEPT !.queue[p] = "suspended", !.governed = @ \cup {p}]
  /\ UNCHANGED <<issue, pr>>

\* The one worker that has been dispatched has an artifact to ingest.
Reported(p) ==
  /\ InFlightWork(state) = {p} /\ state.queue[p] = "dispatched"
  /\ UNCHANGED <<mode, ledger, submission, moved, crashes>>

IngestEnd ==
  /\ state # NoSlot
  /\ \E p \in InFlightWork(state) : Reported(p) /\ (Succeeds(p) \/ GivenUp(p))

IngestFailure ==
  /\ state # NoSlot
  /\ \E p \in InFlightWork(state) : Reported(p) /\ Fails(p)

-----------------------------------------------------------------------------
(* People and GitHub.                                                       *)

OpenIssue(w) ==
  /\ issue[w] = "none"
  /\ issue' = [issue EXCEPT ![w] = "open"]
  /\ UNCHANGED <<saved, mode, pr, submission, moved, crashes>>

CloseIssue(w) ==
  /\ issue[w] = "open"
  /\ issue' = [issue EXCEPT ![w] = "closed"]
  /\ UNCHANGED <<saved, mode, pr, submission, moved, crashes>>

\* Post a submission, or edit the one there is.
Submit(w, t) ==
  /\ mode = "external" /\ ledger[w] = "reasoning_required"
  /\ submission[w] # t
  /\ submission' = [submission EXCEPT ![w] = t]
  /\ UNCHANGED <<saved, mode, issue, pr, moved, crashes>>

\* The pull request of a finished task is open and its checks have passed.
ChecksPass ==
  /\ state # NoSlot
  /\ \E t \in Tasks : state.queue[t] = "complete"
  /\ pr[state.owner] = "none"
  /\ pr' = [pr EXCEPT ![state.owner] = "ready"]
  /\ UNCHANGED <<saved, mode, issue, submission, moved, crashes>>

PersonMerges(w) ==
  /\ pr[w] = "ready"
  /\ pr' = [pr EXCEPT ![w] = "merged"]
  /\ UNCHANGED <<saved, mode, issue, submission, moved, crashes>>

MainMoves ==
  /\ state # NoSlot
  /\ ~moved \/ state.seen
  /\ moved' = TRUE
  /\ state' = [state EXCEPT !.seen = FALSE]
  /\ UNCHANGED <<ledger, world, crashes>>

-----------------------------------------------------------------------------
CycleNext ==
  \/ \E listing \in Listing : Cycle(listing)
  \/ IngestEnd \/ IngestFailure
  \/ \E w \in Works : \/ OpenIssue(w) \/ CloseIssue(w) \/ PersonMerges(w)
                      \/ \E t \in Tasks : Submit(w, t)
  \/ ChecksPass \/ MainMoves

CycleSpec == CycleInit /\ [][CycleNext]_cycleVars

\* decide_task_wake: the hourly watchdog wakes the controller while an open
\* issue is runnable.  Blocked work and closed issues wake nobody.
Runnable ==
  \E w \in Works :
    /\ issue[w] = "open"
    /\ ledger[w] \in {"absent", "admitted", "reasoning_required", "planned"}

\* A cycle whose progress is the controller's own, not that of an execution or a
\* recovery under way.
Advances(listing) ==
  /\ Runnable
  /\ Cycle(listing)
  /\ LET route == Route(listing, Current(listing), Work(listing)) IN
     /\ route # "recover"
     /\ route = "in_flight" =>
          \E p \in InFlightWork(state) :
            state.queue[p] = "dispatch_intent" /\ moved

\* Wakes keep coming while there is runnable work, and a worker that is tried
\* again and again does not always fail.  Nothing says that a worker reports or
\* that a recovery ends.
CycleFairness ==
  /\ WF_cycleVars(\E listing \in Listing : Advances(listing))
  /\ []<><<IngestFailure>>_cycleVars => []<><<IngestEnd>>_cycleVars

FairCycle == CycleSpec /\ CycleFairness

-----------------------------------------------------------------------------
(* Properties.                                                              *)

\* The slot passes to another workload only from a state that hides nothing:
\* no worker under way, no recovery to finish, no failure a person must see.
\* A workload that never queued anything must have left its retirement behind.
\* (can_rollover_state, require_fresh_write; a slot is never emptied.)
OwnerYields ==
  [][state # NoSlot /\ state'.owner # state.owner =>
       /\ InFlightWork(state) = {} /\ Pending(state) = {}
       /\ state.recovering = {} /\ Active(state) = {}
       /\ Queued(state) = {} => state.retired]_cycleVars

\* Whatever crashes between the two writes and whatever the order in which
\* issues come, the ledger never holds two issues waiting for reasoning, nor a
\* planned one beside a waiting one while no slot says which of them is meant:
\* the states from which every later cycle fails.
NeverAmbiguous ==
  /\ Cardinality(With("reasoning_required", ledger)) <= 1
  /\ state = NoSlot => Cardinality(With("reasoning_required", ledger)
                                      \cup With("planned", ledger)) <= 1

\* Samuel plans the closing of an issue by itself only when the pull request
\* that carries its work is merged in the repository: the evidence that
\* integrated_acceptance_evidence reads from the state implies the fact.
CloseAfterMerge ==
  state # NoSlot /\ state.queue["close"] # "absent" => pr[state.owner] = "merged"

Executing ==
  state # NoSlot /\ (InFlightWork(state) # {} \/ state.recovering # {})

\* A failure of semantic reasoning keeps the slot of a closed issue for good: a
\* held one waits for a person, two active ones make each cycle raise, and one
\* is left active when a run dies after it wrote the outcome of the next attempt
\* to the ledger, since nothing asks for reasoning any more.
FailureKeepsSlot ==
  /\ state # NoSlot
  /\ \/ \E e \in Errors : state.failure[e] = "held"
     \/ Cardinality(Active(state)) > 1
     \/ /\ Active(state) # {}
        /\ \/ ledger[state.owner] = "planned" /\ Queued(state) = {}
           \/ ledger[state.owner] = "blocked"

\* A closed issue does not keep the slot from others for ever, whatever dies
\* between its two writes: while there is runnable work it is given up.  What may
\* keep it is a worker or a recovery that never ends, or one of these failures.
ClosedOwnerYields ==
  LET closed == state # NoSlot /\ issue[state.owner] = "closed"
      free == closed => ledger[state.owner] = "complete"
  IN \/ <>[]Executing
     \/ closed /\ Runnable ~> free \/ ~Runnable \/ FailureKeepsSlot

-----------------------------------------------------------------------------
(* What documents say.                                                      *)

\* At most one action is in flight, whatever dies.
OneIntent == state # NoSlot => Cardinality(InFlightWork(state)) <= 1

\* An issue is taken as closed only when it is.
ClosureObserved ==
  [][\A w \in Works : ledger'[w] = "complete" /\ ledger[w] # "complete"
       => issue[w] = "closed"]_cycleVars
=============================================================================
