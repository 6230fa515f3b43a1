--------------------------- MODULE ActionDispatch ---------------------------
(***************************************************************************)
(* How Samuel takes one queued ActionPlan from its durable dispatch intent *)
(* to a settled status.                                                    *)
(*                                                                         *)
(* Three parties share this state.  The durable state comment holds the    *)
(* action queue (status, intent, receipt, ...).  GitHub Actions holds the  *)
(* worker runs and the effect they have on the repository.  The bootstrap  *)
(* workflow is the only writer of the comment: one run at a time (its      *)
(* concurrency group), a sequence of steps (boot.pc), each of which may be *)
(* the last one because the job is lost.  Everything a bootstrap run knows *)
(* is lost with it; the next one rebuilds it from the comment.             *)
(*                                                                         *)
(* Times are kept as far as the code compares them.  Runs are numbered in  *)
(* the order GitHub creates them, so "created_at < requested_at" of an     *)
(* intent is "run number <= intent.since", and "older than the visibility  *)
(* grace" is the flag intent.aged.                                         *)
(***************************************************************************)
EXTENDS Integers

CONSTANTS
  Actions,     \* identities (ActionPlan.idempotency_key) of the plans
  Native,      \* those whose executor is github_native, not repository_mutation
  NoAction,    \* "no action" in a bootstrap run's command
  MaxRuns,     \* bound: worker runs GitHub ever creates
  MaxHead,     \* bound: commits of main, numbered in order
  MaxCrashes,  \* bound: bootstrap runs that die between two steps
  MaxResumes,  \* bound: suspended actions a corrective run gives back
  Failures,    \* the kinds of FAILED result the workers may report
  Faults       \* what else the environment may do, see FaultKind

Retryable == {"postcondition", "kernel"}
FailureKind == Retryable \cup {"policy"}

(***************************************************************************)
(*  lostReceipt   the dispatch answers without a workflow_run_id           *)
(*  lostArtifact  a worker ends without leaving its result artifact        *)
(*  sameSecond    GitHub stamps the run with the second of the request     *)
(*  slowListing   a run dispatched after the grace is still unlisted when  *)
(*                the next bootstrap run looks for it                      *)
(*  wakeLag       a bootstrap run starts with the main commit of the time  *)
(*                it was queued                                            *)
(***************************************************************************)
FaultKind ==
  {"lostReceipt", "lostArtifact", "sameSecond", "slowListing", "wakeLag"}

ASSUME ConstantsAssumption ==
  /\ Native \subseteq Actions
  /\ NoAction \notin Actions
  /\ MaxRuns \in Nat /\ MaxHead \in Nat \ {0}
  /\ MaxCrashes \in Nat /\ MaxResumes \in Nat
  /\ Failures \subseteq FailureKind
  /\ Faults \subseteq FaultKind

RunId == 1..MaxRuns
Head == 1..MaxHead

VARIABLES
  status,      \* action_queue[a].status, "absent" before it is queued
  intent,      \* action_queue[a].dispatch_intent
  receipt,     \* action_queue[a].dispatch_receipt
  completion,  \* the run behind action_queue[a].completion_result, or 0
  failure,     \* the fingerprint last recorded in execution_results[a]
  recovery,    \* diagnostic_recoveries[a].status as far as it matters here
  retired,     \* the runs of action_queue[a].dispatch_attempt_history
  runs,        \* GitHub: the worker runs
  lastRun,     \* GitHub: the newest run
  effect,      \* GitHub: the desired postcondition of a's plan holds
  head,        \* GitHub: the commit main points at
  boot,        \* the bootstrap run in progress
  bootHead,    \* github.sha of the latest bootstrap run
  crashes, resumes

durable == <<status, intent, receipt, completion, failure, recovery, retired>>
github == <<runs, lastRun, effect, head>>
vars == <<durable, github, boot, bootHead, crashes, resumes>>

-----------------------------------------------------------------------------
Status == {"absent", "pending", "dispatch_intent", "dispatched",
           "complete", "rejected", "suspended"}
Settled == {"complete", "rejected", "suspended"}
Final == {"complete", "rejected"}

NoIntent == [head |-> 0, since |-> 0, aged |-> FALSE]
Intent == [head : 0..MaxHead, since : 0..MaxRuns, aged : BOOLEAN]

NoReceipt == [run |-> 0, recovered |-> FALSE]
Receipt == [run : 0..MaxRuns, recovered : BOOLEAN]

Outcome == {"none", "pass", "noop", "rejected", "missing"} \cup FailureKind

NoRun == [action |-> NoAction, head |-> 0, live |-> FALSE, listed |-> FALSE,
          tie |-> FALSE, outcome |-> "none"]
Run == [action : Actions \cup {NoAction}, head : 0..MaxHead, live : BOOLEAN,
        listed : BOOLEAN, tie : BOOLEAN, outcome : Outcome]

Idle == [pc |-> "idle", kind |-> "none", action |-> NoAction,
         run |-> 0, recovered |-> FALSE]
Boot == [pc : {"idle", "command", "receipt", "wait", "ingest"},
         kind : {"none", "dispatch", "reconcile", "observe"},
         action : Actions \cup {NoAction},
         run : 0..MaxRuns, recovered : BOOLEAN]

TypeOK ==
  /\ status \in [Actions -> Status]
  /\ intent \in [Actions -> Intent]
  /\ receipt \in [Actions -> Receipt]
  /\ completion \in [Actions -> 0..MaxRuns]
  /\ failure \in [Actions -> FailureKind \cup {"none"}]
  /\ recovery \in [Actions -> {"none", "open", "resolved"}]
  /\ retired \in [Actions -> SUBSET (0..MaxRuns)]
  /\ runs \in [RunId -> Run]
  /\ lastRun \in 0..MaxRuns
  /\ effect \in [Actions -> BOOLEAN]
  /\ head \in Head
  /\ boot \in Boot
  /\ bootHead \in Head
  /\ crashes \in 0..MaxCrashes
  /\ resumes \in 0..MaxResumes

Init ==
  /\ status = [a \in Actions |-> "absent"]
  /\ intent = [a \in Actions |-> NoIntent]
  /\ receipt = [a \in Actions |-> NoReceipt]
  /\ completion = [a \in Actions |-> 0]
  /\ failure = [a \in Actions |-> "none"]
  /\ recovery = [a \in Actions |-> "none"]
  /\ retired = [a \in Actions |-> {}]
  /\ runs = [r \in RunId |-> NoRun]
  /\ lastRun = 0
  /\ effect = [a \in Actions |-> FALSE]
  /\ head = 1
  /\ boot = Idle
  /\ bootHead = 1
  /\ crashes = 0
  /\ resumes = 0

-----------------------------------------------------------------------------
(* What the controller reads.                                              *)

InFlight == {a \in Actions : status[a] \in {"dispatch_intent", "dispatched"}}

RunsOf(a) == {r \in RunId : r <= lastRun /\ runs[r].action = a}

\* The runs GitHub lists that satisfy every identity constraint of the intent.
Candidates(a) ==
  {r \in RunsOf(a) : runs[r].listed /\ runs[r].head = intent[a].head}

\* Of those, the runs that were not created before the intent.
Eligible(a) == {r \in Candidates(a) : r > intent[a].since}

\* Mutation: an unlisted run is taken for one that does not exist.
ObservationWithoutGrace(a) ==
  IF \E r, s \in Eligible(a) : r # s THEN "AMBIGUOUS_MATCH"
  ELSE IF Eligible(a) # {} THEN "MATCHED"
  ELSE IF Candidates(a) # {} THEN "STALE_ONLY"
  ELSE "NO_MATCH"

\* Mutation: the visibility grace never ends.
ObservationWithoutEnd(a) ==
  IF \E r, s \in Eligible(a) : r # s THEN "AMBIGUOUS_MATCH"
  ELSE IF Eligible(a) # {} THEN "MATCHED"
  ELSE IF Candidates(a) # {} THEN "STALE_ONLY"
  ELSE "PENDING_VISIBILITY"

\* The status evaluate gives an enumeration for the intent of a.
Observation(a) ==
  IF \E r, s \in Eligible(a) : r # s THEN "AMBIGUOUS_MATCH"
  ELSE IF Eligible(a) # {} THEN "MATCHED"
  ELSE IF Candidates(a) # {} THEN "STALE_ONLY"
  ELSE IF ~intent[a].aged THEN "PENDING_VISIBILITY"
  ELSE "NO_MATCH"

\* BOUND_RUN_IDENTITY_MISMATCH: the receipt's run executed another commit.
Mismatch(a, r) == runs[r].head # intent[a].head

\* A receipt's requested_at is taken just before the POST, with microseconds;
\* a receipt recovered from the intent carries the intent's, seconds earlier.
BoundRunIsStale(a, r) == runs[r].tie /\ ~receipt[a].recovered

Command(kind, a) ==
  [pc |-> "command", kind |-> kind, action |-> a, run |-> 0,
   recovered |-> FALSE]

\* github.sha of a new bootstrap run.
WakeHeads == IF "wakeLag" \in Faults THEN bootHead..head ELSE {head}

-----------------------------------------------------------------------------
(* The run-cycle step of a bootstrap run, with the persist-state step it    *)
(* feeds: it selects the work, and either writes the comment and perhaps    *)
(* issues a command, or issues a command about what is in flight.           *)

Wake(h) ==
  /\ boot.pc = "idle"
  /\ h \in WakeHeads
  /\ bootHead' = h

RecordIntent(a, h) ==
  /\ intent' = [intent EXCEPT ![a] =
                  [head |-> h, since |-> lastRun, aged |-> FALSE]]
  /\ status' = [status EXCEPT ![a] = "dispatch_intent"]
  /\ boot' = Command("dispatch", a)

\* Reasoning has produced the plan of a: it is queued and its intent recorded
\* in one write, when nothing else is queued that is not settled.
PlanAction(a, h) ==
  /\ Wake(h)
  /\ status[a] = "absent"
  /\ \A b \in Actions : status[b] \in Settled \cup {"absent"}
  /\ \A b \in Actions : recovery[b] # "open"
  /\ RecordIntent(a, h)
  /\ UNCHANGED <<receipt, completion, failure, recovery, retired, github,
                 crashes, resumes>>

SelectPending(a, h) ==
  /\ Wake(h)
  /\ status[a] = "pending"
  /\ InFlight = {}
  /\ \A b \in Actions : recovery[b] # "open"
  /\ RecordIntent(a, h)
  /\ UNCHANGED <<receipt, completion, failure, recovery, retired, github,
                 crashes, resumes>>

\* stale_action_intent: main has moved since the intent was recorded.
RejectStaleIntent(a, h) ==
  /\ Wake(h)
  /\ InFlight = {a}
  /\ status[a] = "dispatch_intent"
  /\ intent[a].head # h
  /\ status' = [status EXCEPT ![a] = "rejected"]
  /\ intent' = [intent EXCEPT ![a] = NoIntent]
  /\ receipt' = [receipt EXCEPT ![a] = NoReceipt]
  /\ UNCHANGED <<completion, failure, recovery, retired, github, boot,
                 crashes, resumes>>

\* Mutation: an in-flight intent is dispatched again without reconciling it.
SelectIntentBlindly(a, h) ==
  /\ Wake(h)
  /\ InFlight = {a}
  /\ status[a] = "dispatch_intent"
  /\ intent[a].head = h
  /\ boot' = Command("dispatch", a)
  /\ UNCHANGED <<durable, github, crashes, resumes>>

SelectIntent(a, h) ==
  /\ Wake(h)
  /\ InFlight = {a}
  /\ status[a] = "dispatch_intent"
  /\ intent[a].head = h
  /\ "slowListing" \notin Faults /\ intent[a].aged =>
       \A r \in RunsOf(a) : runs[r].listed
  /\ boot' = Command("reconcile", a)
  /\ UNCHANGED <<durable, github, crashes, resumes>>

SelectDispatched(a, h) ==
  /\ Wake(h)
  /\ InFlight = {a}
  /\ status[a] = "dispatched"
  /\ boot' = Command("observe", a)
  /\ UNCHANGED <<durable, github, crashes, resumes>>

-----------------------------------------------------------------------------
(* The execute-command step: the execution gateway.                         *)

\* POST .../dispatches: GitHub creates a run at the present head of main, and
\* answers with its id or, "lostReceipt", without one.
PostDispatch(a) ==
  /\ lastRun < MaxRuns
  /\ lastRun' = lastRun + 1
  /\ \E tie \in (IF "sameSecond" \in Faults THEN BOOLEAN ELSE {FALSE}) :
       runs' = [runs EXCEPT ![lastRun + 1] =
                  [action |-> a, head |-> head, live |-> TRUE,
                   listed |-> FALSE, tie |-> tie, outcome |-> "none"]]
  /\ \/ boot' = [boot EXCEPT !.pc = "receipt", !.run = lastRun + 1]
     \/ "lostReceipt" \in Faults /\ boot' = Idle
  /\ UNCHANGED <<effect, head>>

GatewayDispatch(a) ==
  /\ boot.pc = "command" /\ boot.kind = "dispatch" /\ boot.action = a
  /\ status[a] = "dispatch_intent"
  /\ PostDispatch(a)
  /\ UNCHANGED <<durable, bootHead, crashes, resumes>>

Reconciling(a) ==
  /\ boot.pc = "command" /\ boot.kind = "reconcile" /\ boot.action = a
  /\ status[a] = "dispatch_intent"

GatewayRedispatch(a) ==
  /\ Reconciling(a)
  /\ Observation(a) = "NO_MATCH"
  /\ PostDispatch(a)
  /\ UNCHANGED <<durable, bootHead, crashes, resumes>>

GatewayRecoverReceipt(a) ==
  /\ Reconciling(a)
  /\ Observation(a) = "MATCHED"
  /\ \E r \in Eligible(a) :
       boot' = [boot EXCEPT !.pc = "receipt", !.run = r, !.recovered = TRUE]
  /\ UNCHANGED <<durable, github, bootHead, crashes, resumes>>

\* WAIT, or the gateway error that ends the bootstrap run: nothing changes.
GatewayLeaveIntent(a) ==
  /\ Reconciling(a)
  /\ Observation(a) \in {"PENDING_VISIBILITY", "AMBIGUOUS_MATCH", "STALE_ONLY"}
  /\ boot' = Idle
  /\ UNCHANGED <<durable, github, bootHead, crashes, resumes>>

Observing(a) ==
  /\ boot.pc = "command" /\ boot.kind = "observe" /\ boot.action = a
  /\ status[a] = "dispatched"

\* A completed run of another commit is terminal whatever its age.
ObservedTerminal(a, r) ==
  /\ ~runs[r].live
  /\ Mismatch(a, r) \/ ~BoundRunIsStale(a, r)

GatewayObserveTerminal(a) ==
  /\ Observing(a)
  /\ ObservedTerminal(a, receipt[a].run)
  /\ boot' = [boot EXCEPT !.pc = "ingest", !.run = receipt[a].run]
  /\ UNCHANGED <<durable, github, bootHead, crashes, resumes>>

\* Still active (WAIT), or STALE_ONLY: the gateway raises.
GatewayObserveNothing(a) ==
  /\ Observing(a)
  /\ ~ObservedTerminal(a, receipt[a].run)
  /\ boot' = Idle
  /\ UNCHANGED <<durable, github, bootHead, crashes, resumes>>

-----------------------------------------------------------------------------
(* The steps after a receipt.                                               *)

PersistReceipt(a) ==
  /\ boot.pc = "receipt" /\ boot.action = a
  /\ status[a] = "dispatch_intent"
  /\ status' = [status EXCEPT ![a] = "dispatched"]
  /\ receipt' = [receipt EXCEPT ![a] =
                   [run |-> boot.run, recovered |-> boot.recovered]]
  /\ boot' = [boot EXCEPT !.pc = "wait"]
  /\ UNCHANGED <<intent, completion, failure, recovery, retired, github,
                 bootHead, crashes, resumes>>

\* The worker ended: a second run-cycle selects action_observation.
WaitWorker ==
  /\ boot.pc = "wait"
  /\ ~runs[boot.run].live
  /\ boot' = Command("observe", boot.action)
  /\ UNCHANGED <<durable, github, bootHead, crashes, resumes>>

\* Six minutes are over: HARD_STOP.
WaitTimeout ==
  /\ boot.pc = "wait"
  /\ runs[boot.run].live
  /\ boot' = Idle
  /\ UNCHANGED <<durable, github, bootHead, crashes, resumes>>

-----------------------------------------------------------------------------
(* The ingest-terminal step and its persist-state step.                     *)

Ingesting(a) ==
  /\ boot.pc = "ingest" /\ boot.action = a
  /\ status[a] = "dispatched"
  /\ receipt[a].run = boot.run

Result(a) == runs[receipt[a].run].outcome

\* Mutation: the commit the run executed is not compared with the intent's.
UnusableByArtifact(a) == Result(a) = "missing"

\* No result of this run can be trusted: another commit, or no artifact.
Unusable(a) == Mismatch(a, receipt[a].run) \/ Result(a) = "missing"

\* record_native_dispatch_evidence_failure
RetireAttempt(a) ==
  /\ Ingesting(a)
  /\ Unusable(a)
  /\ a \in Native
  /\ retired' = [retired EXCEPT ![a] = @ \cup {boot.run}]
  /\ status' = [status EXCEPT ![a] = "pending"]
  /\ intent' = [intent EXCEPT ![a] = NoIntent]
  /\ receipt' = [receipt EXCEPT ![a] = NoReceipt]
  /\ boot' = Idle
  /\ UNCHANGED <<completion, failure, recovery, github, bootHead, crashes,
                 resumes>>

\* The same for a repository_mutation plan raises: the state is not written.
CannotRetireAttempt(a) ==
  /\ Ingesting(a)
  /\ Unusable(a)
  /\ a \notin Native
  /\ boot' = Idle
  /\ UNCHANGED <<durable, github, bootHead, crashes, resumes>>

\* apply_action_completion and apply_action_rejection: the provenance of the
\* artifact is that of the run that wrote it.
SettleFromArtifact(a) ==
  /\ Ingesting(a)
  /\ ~Unusable(a)
  /\ \/ /\ Result(a) \in {"pass", "noop"}
        /\ status' = [status EXCEPT ![a] = "complete"]
     \/ /\ Result(a) = "rejected"
        /\ status' = [status EXCEPT ![a] = "rejected"]
  /\ completion' = [completion EXCEPT ![a] = boot.run]
  /\ boot' = Idle
  /\ UNCHANGED <<intent, receipt, failure, recovery, retired, github,
                 bootHead, crashes, resumes>>

\* apply_action_failure: a first retryable failure is retried, the same one
\* again opens a diagnosis, any other failure suspends the action.
FailFromArtifact(a) ==
  /\ Ingesting(a)
  /\ ~Unusable(a)
  /\ Result(a) \in FailureKind
  /\ failure' = [failure EXCEPT ![a] = Result(a)]
  /\ \/ /\ Result(a) \in Retryable /\ failure[a] # Result(a)
        /\ status' = [status EXCEPT ![a] = "pending"]
        /\ intent' = [intent EXCEPT ![a] = NoIntent]
        /\ receipt' = [receipt EXCEPT ![a] = NoReceipt]
        /\ UNCHANGED recovery
     \/ /\ Result(a) \in Retryable /\ failure[a] = Result(a)
        /\ status' = [status EXCEPT ![a] = "suspended"]
        /\ recovery' = [recovery EXCEPT ![a] = "open"]
        /\ UNCHANGED <<intent, receipt>>
     \/ /\ Result(a) \notin Retryable
        /\ status' = [status EXCEPT ![a] = "suspended"]
        /\ UNCHANGED <<intent, receipt, recovery>>
  /\ boot' = Idle
  /\ UNCHANGED <<completion, retired, github, bootHead, crashes, resumes>>

\* The corrective run of a's recovery verified the postcondition (module
\* DiagnosticRecovery): a is pending again, its intent and receipt still there.
CorrectiveResolved(a) ==
  /\ boot.pc = "idle"
  /\ resumes < MaxResumes
  /\ InFlight = {}
  /\ status[a] = "suspended" /\ recovery[a] = "open"
  /\ status' = [status EXCEPT ![a] = "pending"]
  /\ recovery' = [recovery EXCEPT ![a] = "resolved"]
  /\ effect' = [effect EXCEPT ![a] = TRUE]
  /\ resumes' = resumes + 1
  /\ UNCHANGED <<intent, receipt, completion, failure, retired, runs, lastRun,
                 head, boot, bootHead, crashes>>

\* The job dies, or is cancelled: what it had not written is lost.
Crash ==
  /\ crashes < MaxCrashes
  /\ boot.pc # "idle"
  /\ boot' = Idle
  /\ crashes' = crashes + 1
  /\ UNCHANGED <<durable, github, bootHead, resumes>>

-----------------------------------------------------------------------------
(* GitHub and the workers.                                                  *)

\* One worker: read, and mutate unless the postcondition holds.  A provider
\* exception ("kernel") or a lost artifact may hide a mutation that was made.
WorkerEnd(r) ==
  LET a == runs[r].action
      End(outcome, done) ==
        /\ runs' = [runs EXCEPT ![r].live = FALSE, ![r].outcome = outcome]
        /\ effect' = [effect EXCEPT ![a] = done]
  IN
  /\ r <= lastRun /\ runs[r].live
  /\ \/ effect[a] /\ End("noop", TRUE)
     \/ ~effect[a] /\ End("pass", TRUE)
     \/ ~effect[a] /\ a \in Native /\ End("rejected", FALSE)
     \/ /\ ~effect[a] /\ a \in Native
        /\ "postcondition" \in Failures /\ End("postcondition", FALSE)
     \/ /\ a \in Native /\ "kernel" \in Failures
        /\ \E done \in BOOLEAN : (effect[a] => done) /\ End("kernel", done)
     \/ /\ a \notin Native /\ "policy" \in Failures
        /\ \E done \in BOOLEAN : (effect[a] => done) /\ End("policy", done)
     \/ /\ "lostArtifact" \in Faults
        /\ \E done \in BOOLEAN : (effect[a] => done) /\ End("missing", done)
  /\ UNCHANGED <<durable, lastRun, head, boot, bootHead, crashes, resumes>>

ListRun(r) ==
  /\ r <= lastRun /\ ~runs[r].listed
  /\ runs' = [runs EXCEPT ![r].listed = TRUE]
  /\ UNCHANGED <<durable, lastRun, effect, head, boot, bootHead, crashes,
                 resumes>>

\* The visibility grace of an intent ends; GitHub lists a run within a grace.
GraceExpires(a) ==
  /\ status[a] = "dispatch_intent" /\ ~intent[a].aged
  /\ \A r \in RunsOf(a) : runs[r].listed
  /\ intent' = [intent EXCEPT ![a].aged = TRUE]
  /\ UNCHANGED <<status, receipt, completion, failure, recovery, retired,
                 github, boot, bootHead, crashes, resumes>>

HeadMoves ==
  /\ head < MaxHead
  /\ head' = head + 1
  /\ UNCHANGED <<durable, runs, lastRun, effect, boot, bootHead, crashes,
                 resumes>>

-----------------------------------------------------------------------------
Cycle ==
  \E a \in Actions, h \in Head :
    \/ PlanAction(a, h)
    \/ SelectPending(a, h)
    \/ RejectStaleIntent(a, h)
    \/ SelectIntent(a, h)
    \/ SelectDispatched(a, h)

Gateway ==
  \E a \in Actions :
    \/ GatewayDispatch(a)
    \/ GatewayRedispatch(a)
    \/ GatewayRecoverReceipt(a)
    \/ GatewayLeaveIntent(a)
    \/ GatewayObserveTerminal(a)
    \/ GatewayObserveNothing(a)

Ingest ==
  \E a \in Actions :
    \/ RetireAttempt(a)
    \/ CannotRetireAttempt(a)
    \/ SettleFromArtifact(a)
    \/ FailFromArtifact(a)

Persist == \E a \in Actions : PersistReceipt(a)
Recover == \E a \in Actions : CorrectiveResolved(a)
GitHub == \/ \E r \in RunId : WorkerEnd(r) \/ ListRun(r)
          \/ \E a \in Actions : GraceExpires(a)
          \/ HeadMoves

Next == \/ Cycle \/ Gateway \/ Persist \/ WaitWorker \/ WaitTimeout
        \/ Ingest \/ Recover \/ Crash \/ GitHub

Spec == Init /\ [][Next]_vars

-----------------------------------------------------------------------------
(* Safety.                                                                  *)

\* What the next three properties need from GitHub: a listing never lags
\* behind the next bootstrap run, and a bootstrap run is never older than main.
PromptGitHub == {"slowListing", "wakeLag"} \cap Faults = {}

\* An intent never has two runs that its reconciliation could match, so it
\* never ends in AMBIGUOUS_MATCH: a bootstrap run dispatches for a persisted
\* intent only if no run was dispatched for it before, even by a bootstrap run
\* that died without recording the receipt.
OneRunPerIntent ==
  PromptGitHub =>
    \A a \in Actions : status[a] = "dispatch_intent" =>
      \A r, s \in RunsOf(a) :
        r > intent[a].since /\ s > intent[a].since => r = s

\* Two workers never execute the same plan at the same time: an attempt is
\* retried, retired or reconciled only when its run has ended.
NoConcurrentRuns ==
  PromptGitHub =>
    \A r, s \in RunId :
      runs[r].live /\ runs[s].live /\ runs[r].action = runs[s].action => r = s

\* An action is complete only because of a run of its own, dispatched for its
\* current intent, on the commit of that intent, that reported PASS or NOOP -
\* never by the result of an earlier attempt - and its postcondition holds.
CompletionOwned ==
  \A a \in Actions : status[a] = "complete" =>
    LET r == completion[a] IN
    /\ r \in RunsOf(a) /\ r \notin retired[a]
    /\ ~runs[r].live /\ runs[r].outcome \in {"pass", "noop"}
    /\ r > intent[a].since /\ ~Mismatch(a, r)
    /\ effect[a]

\* An action that is rejected has had no effect on the repository, so planning
\* it anew repeats nothing.  The code says so of both its rejections: "refusing
\* stale mutation" and "executor_source_advanced_before_dispatch".
RejectedHasNoEffect ==
  \A a \in Actions : status[a] = "rejected" =>
    /\ ~effect[a]
    /\ \A r \in RunsOf(a) : ~runs[r].live

\* Complete and rejected are final, and no worker is ever dispatched for them.
FinalStaysFinal ==
  [][\A a \in Actions : status[a] \in Final =>
       status'[a] = status[a] /\ RunsOf(a)' = RunsOf(a)]_vars

\* A worker is dispatched only behind a durable intent that is newer than
\* every attempt whose result was already used (the retry of a failure or of
\* unusable evidence records a new intent first).
DispatchBehindIntent ==
  [][\A a \in Actions : RunsOf(a)' # RunsOf(a) =>
       /\ status[a] = "dispatch_intent"
       /\ \A r \in RunsOf(a) : r = receipt[a].run \/ r \in retired[a]
                                 => r <= intent[a].since]_vars

-----------------------------------------------------------------------------
(* Liveness.                                                                *)

\* Wakes never stop (the external scheduler, the hourly watchdog, a worker's
\* completion, self-dispatch), a bootstrap run takes its next step, GitHub lists
\* and ends every run.  Nothing is assumed of crashes, commits or corrective runs.
Fairness ==
  /\ WF_vars(Cycle) /\ WF_vars(Gateway) /\ WF_vars(Persist)
  /\ WF_vars(WaitWorker) /\ WF_vars(Ingest)
  /\ \A r \in RunId : WF_vars(WorkerEnd(r)) /\ WF_vars(ListRun(r))
  /\ \A a \in Actions : WF_vars(GraceExpires(a))

FairSpec == Spec /\ Fairness

\* A recorded intent, and every retry it leads to, ends in a settled action.
IntentSettles ==
  \A a \in Actions : status[a] = "dispatch_intent" ~> status[a] \in Settled

\* The job died after the retry of a failed attempt was recorded and before its
\* POST, so every run with the plan's correlation id is older than the intent:
\* STALE_ONLY at each later wake (execution_gateway.py:293).
RetryNeverPosted(a) ==
  /\ status[a] = "dispatch_intent"
  /\ boot # Command("dispatch", a)
  /\ \A r \in RunsOf(a) : r <= intent[a].since
  /\ Candidates(a) # {}

\* The bound run is stamped with the second of the request and the receipt is
\* not a recovered one: STALE_ONLY at each observation (execution_gateway.py:339).
BoundRunStaysStale(a) ==
  /\ status[a] = "dispatched"
  /\ BoundRunIsStale(a, receipt[a].run)
  /\ ~Mismatch(a, receipt[a].run)

\* A repository_mutation run has ended on another commit, or without its
\* artifact, and cannot be retired: each ingestion raises (diagnostic.py:393).
CannotBeRetired(a) ==
  /\ status[a] = "dispatched"
  /\ a \notin Native
  /\ ~runs[receipt[a].run].live
  /\ Unusable(a)

Stranded(a) ==
  RetryNeverPosted(a) \/ BoundRunStaysStale(a) \/ CannotBeRetired(a)

\* The instance, not the code, stops here: the POST that is due would be of a
\* run beyond the bound.
OutOfRuns(a) ==
  /\ boot.pc = "command" /\ boot.action = a
  /\ status[a] = "dispatch_intent"
  /\ lastRun = MaxRuns
  /\ \/ boot.kind = "dispatch"
     \/ boot.kind = "reconcile" /\ Observation(a) = "NO_MATCH"

\* Whatever crashes, failures, lost receipts, lost artifacts and moves of main
\* befall an intent, it settles, unless it ends in one of the three dead ends
\* above.  None of them is passed through on the way to settling: the first is
\* left only when main moves, the others never.
IntentSettlesOrIsStranded ==
  \A a \in Actions :
    status[a] = "dispatch_intent" ~>
      status[a] \in Settled \/ Stranded(a) \/ OutOfRuns(a)
=============================================================================
