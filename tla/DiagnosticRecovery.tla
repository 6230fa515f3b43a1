------------------------- MODULE DiagnosticRecovery -------------------------
(***************************************************************************)
(* How Samuel recovers an action that failed twice in the same way.        *)
(*                                                                         *)
(* The action is suspended and a recovery is opened for it.  From then on  *)
(* the bootstrap runs dispatch bounded workers, each with its own intent   *)
(* and receipt inside the recovery: a diagnostic worker advances the       *)
(* recovery by one phase, an evidence worker looks the providers of the    *)
(* failed capability up, a corrective worker replays the plan through the  *)
(* provider chosen.  A verified correction resolves the recovery and gives *)
(* the action back to the queue.                                           *)
(*                                                                         *)
(* The steps of an ordinary dispatch are those of ActionDispatch: here an  *)
(* action is "in_flight" from its intent to its terminal artifact.  Of the *)
(* admission ledger there is only whether it asks for reasoning although   *)
(* an action is in flight.                                                 *)
(***************************************************************************)
EXTENDS Integers, FiniteSets, FiniteSetsExt

CONSTANTS
  Actions,      \* identities of the queued plans
  Providers,    \* provider names, numbered in alphabetical order
  Native,       \* "repository-native", the provider kernel failures name
  Registry,     \* the providers the capability registry lists for the
                \* capability of a plan; none when it is not bound there
  Kernels,      \* the sets of providers an execution kernel may register:
                \* that of "samuel execute" knows repository-native only
  Reliable,     \* providers that verify each correction, if they are registered
  Failures,     \* the kinds of FAILED result workers may report
  MaxFaults     \* bound: crashes, lost artifacts, pushes at a bad moment

FailureKind == {"kernel", "postcondition", "policy"}
NoProvider == 0

ASSUME ConstantsAssumption ==
  /\ Actions \subseteq Nat
  /\ Providers \subseteq Nat \ {NoProvider} /\ IsFiniteSet(Providers)
  /\ Native \in Providers
  /\ Registry \in [Actions -> SUBSET Providers]
  /\ Kernels \subseteq SUBSET Providers /\ Reliable \subseteq Providers
  /\ Failures \subseteq FailureKind
  /\ MaxFaults \in Nat

VARIABLES
  queue,     \* action_queue[a].status
  last,      \* the failure fingerprint of execution_results[a]
  rec,       \* diagnostic_recoveries[a], without its dispatches
  dispatch,  \* diagnostic_recoveries[a].{diagnostic,evidence,corrective}_dispatch
  run,       \* GitHub: the run of each of those dispatches
  tried,     \* GitHub: the providers a corrective run of a was dispatched for
  boot,      \* the bootstrap run in progress
  asked,     \* the ledger asks for reasoning while an action is in flight
  torn,      \* history: a run died between the two writes of a give-up
  registered,\* the providers of the worker's kernel, which never change
  faults

durable == <<queue, last, rec, dispatch>>
other == <<asked, torn, registered>>
vars == <<durable, run, tried, boot, other, faults>>

-----------------------------------------------------------------------------
Surface == {"diagnostic", "evidence", "corrective"}

QueueStatus ==
  {"absent", "pending", "in_flight", "complete", "rejected", "suspended"}

\* known: failure.details names a provider and an error type.  failed: that
\* provider and those of provider_failures.  wait.attempts is capped at the
\* two identical waits the code counts.
Recovery ==
  [status : {"none", "open", "needs_evidence", "resolved"},
   known : BOOLEAN, cause : BOOLEAN, correction : Providers \cup {NoProvider},
   failed : SUBSET Providers, available : SUBSET Providers,
   phase : {"none", "investigate_root_cause", "apply_corrective_action"},
   waits : 0..2]

NoRecovery ==
  [status |-> "none", known |-> FALSE, cause |-> FALSE,
   correction |-> NoProvider, failed |-> {}, available |-> {},
   phase |-> "none", waits |-> 0]

\* repeat: GitHub already lists a run with the same name and commit, older
\* than the intent.
Dispatch ==
  [status : {"none", "dispatch_intent", "dispatched"}, id : Recovery,
   repeat : BOOLEAN]
NoDispatch == [status |-> "none", id |-> NoRecovery, repeat |-> FALSE]

\* "foreign": the run executes another commit than the intent's.  "lost": it
\* ended without the artifact the controller needs.
RunState == {"none", "active", "foreign", "done", "lost"}

Idle == [pc |-> "idle", action |-> 0, surface |-> "diagnostic"]
Boot == [pc : {"idle", "command", "receipt"}, action : Actions \cup {0},
         surface : Surface]

TypeOK ==
  /\ queue \in [Actions -> QueueStatus]
  /\ last \in [Actions -> FailureKind \cup {"none"}]
  /\ rec \in [Actions -> Recovery]
  /\ dispatch \in [Actions -> [Surface -> Dispatch]]
  /\ run \in [Actions -> [Surface -> RunState]]
  /\ tried \in [Actions -> SUBSET Providers]
  /\ boot \in Boot
  /\ asked \in BOOLEAN /\ torn \in BOOLEAN
  /\ registered \in Kernels
  /\ faults \in 0..MaxFaults

Init ==
  /\ queue = [a \in Actions |-> "absent"]
  /\ last = [a \in Actions |-> "none"]
  /\ rec = [a \in Actions |-> NoRecovery]
  /\ dispatch = [a \in Actions |-> [s \in Surface |-> NoDispatch]]
  /\ run = [a \in Actions |-> [s \in Surface |-> "none"]]
  /\ tried = [a \in Actions |-> {}]
  /\ boot = Idle
  /\ asked = FALSE /\ torn = FALSE
  /\ registered \in Kernels
  /\ faults = 0

-----------------------------------------------------------------------------
(* What select_controller_work reads.                                       *)

Unresolved(a) == rec[a].status \in {"open", "needs_evidence"}

\* The status of a recovery in which a surface may be dispatched.
ServedIn(s) == IF s = "evidence" THEN "needs_evidence" ELSE "open"

\* The dispatches the selection counts: it looks at a surface only in the
\* status that serves it.
InFlight ==
  {w \in Actions \X Surface : /\ dispatch[w[1]][w[2]].status # "none"
                              /\ rec[w[1]].status = ServedIn(w[2])}
ActionsInFlight == {a \in Actions : queue[a] = "in_flight"}

Ready(a) ==
  /\ rec[a].status = "open" /\ rec[a].cause /\ rec[a].correction # NoProvider
  /\ dispatch[a]["corrective"] = NoDispatch
  /\ dispatch[a]["diagnostic"] = NoDispatch

Least(S) == {a \in S : \A b \in S : a <= b}

\* The new work: a correction that is ready first, then any open recovery,
\* then one that waits for evidence, each time the smallest action id.
Chosen(s) ==
  LET ready == {a \in Actions : Ready(a)}
      open == {a \in Actions : rec[a].status = "open"}
      needs == {a \in Actions : /\ rec[a].status = "needs_evidence"
                                /\ dispatch[a]["evidence"] = NoDispatch}
  IN CASE s = "corrective" -> Least(ready)
       [] s = "diagnostic" -> IF ready = {} THEN Least(open) ELSE {}
       [] s = "evidence" -> IF open = {} THEN Least(needs) ELSE {}

\* The *_dispatch_correlation_id of a surface: a hash of the whole recovery,
\* of the evidence request, or of the authorized correction.
Identity(a, s) ==
  CASE s = "diagnostic" -> rec[a]
    [] s = "evidence" -> [NoRecovery EXCEPT !.phase = rec[a].phase]
    [] s = "corrective" -> [NoRecovery EXCEPT !.correction = rec[a].correction]

-----------------------------------------------------------------------------
(* Ordinary actions.                                                        *)

\* Mutation: reasoning continues beside an open recovery.
PlanActionBesideRecovery(a) ==
  /\ boot = Idle
  /\ queue[a] = "absent"
  /\ \A b \in Actions :
       queue[b] \in {"absent", "complete", "rejected", "suspended"}
  /\ queue' = [queue EXCEPT ![a] = "in_flight"]
  /\ asked' = FALSE
  /\ UNCHANGED <<last, rec, dispatch, run, tried, boot, torn, registered, faults>>

\* Reasoning continues when nothing is queued or under recovery, or else when
\* the ledger asks for it: then the state is not looked at.
PlanAction(a) ==
  /\ boot = Idle
  /\ queue[a] = "absent"
  /\ \/ asked
     \/ \A b \in Actions :
          /\ queue[b] \in {"absent", "complete", "rejected", "suspended"}
          /\ ~Unresolved(b)
  /\ queue' = [queue EXCEPT ![a] = "in_flight"]
  /\ asked' = FALSE
  /\ UNCHANGED <<last, rec, dispatch, run, tried, boot, torn, registered, faults>>

\* Reasoning ends without a plan: blocked.
ReasoningBlocks ==
  /\ boot = Idle
  /\ asked
  /\ asked' = FALSE
  /\ UNCHANGED <<durable, run, tried, boot, torn, registered, faults>>

RetryAction(a) ==
  /\ boot = Idle
  /\ ActionsInFlight = {} /\ InFlight = {}
  /\ \A b \in Actions : ~Unresolved(b)
  /\ a \in Least({b \in Actions : queue[b] = "pending"})
  /\ queue' = [queue EXCEPT ![a] = "in_flight"]
  /\ UNCHANGED <<last, rec, dispatch, run, tried, boot, other, faults>>

\* The cycle looks at the one action in flight; it raises when there are more
\* workers than one, and it reasons instead while the ledger asks for that.
Observed(a) ==
  /\ boot = Idle /\ ~asked
  /\ ActionsInFlight = {a} /\ InFlight = {}

\* A terminal artifact, or the give-up of an intent that main overtook.
ActionSettles(a) ==
  /\ Observed(a)
  /\ \E status \in {"complete", "rejected"} :
       queue' = [queue EXCEPT ![a] = status]
  /\ UNCHANGED <<last, rec, dispatch, run, tried, boot, other, faults>>

\* The give-up writes the ledger, which asks for reasoning, and then the state;
\* this run dies between the two.
GiveUpTorn(a) ==
  /\ Observed(a)
  /\ faults < MaxFaults
  /\ faults' = faults + 1
  /\ asked' = TRUE /\ torn' = TRUE
  /\ UNCHANGED <<durable, run, tried, boot, registered>>

\* open_diagnostic_recovery replaces whatever recovery the action had.  Only
\* a kernel failure names its provider and an error type.
Opened(failure) ==
  [NoRecovery EXCEPT !.status = "open",
                     !.known = (failure = "kernel"),
                     !.failed = IF failure = "kernel" THEN {Native} ELSE {}]

\* Mutation: the recovery is opened, the action stays in the queue.
ActionFailsUnsuspended(a) ==
  /\ Observed(a)
  /\ \E failure \in Failures :
       /\ last' = [last EXCEPT ![a] = failure]
       /\ queue' = [queue EXCEPT ![a] = "pending"]
       /\ rec' = IF failure # "policy" /\ last[a] = failure
                   THEN [rec EXCEPT ![a] = Opened(failure)] ELSE rec
  /\ UNCHANGED <<dispatch, run, tried, boot, other, faults>>

\* apply_action_failure
ActionFails(a) ==
  /\ Observed(a)
  /\ \E failure \in Failures :
       /\ last' = [last EXCEPT ![a] = failure]
       /\ \/ /\ failure # "policy" /\ last[a] = failure
             /\ rec' = [rec EXCEPT ![a] = Opened(failure)]
             /\ queue' = [queue EXCEPT ![a] = "suspended"]
          \/ /\ failure # "policy" /\ last[a] # failure
             /\ queue' = [queue EXCEPT ![a] = "pending"]
             /\ UNCHANGED rec
          \/ /\ failure = "policy"
             /\ queue' = [queue EXCEPT ![a] = "suspended"]
             /\ UNCHANGED rec
  /\ UNCHANGED <<dispatch, run, tried, boot, other, faults>>

-----------------------------------------------------------------------------
(* A bootstrap run dispatches a recovery worker.                            *)

\* The intent is written before anything is sent to GitHub.
Select(a, s) ==
  /\ boot = Idle
  /\ ActionsInFlight = {} /\ InFlight = {}
  /\ a \in Chosen(s)
  /\ \E repeat \in BOOLEAN :
       /\ repeat => s = "corrective" /\ rec[a].correction \in tried[a]
       /\ dispatch' = [dispatch EXCEPT ![a][s] =
            [status |-> "dispatch_intent", id |-> Identity(a, s),
             repeat |-> repeat]]
  /\ boot' = [pc |-> "command", action |-> a, surface |-> s]
  /\ UNCHANGED <<queue, last, rec, run, tried, other, faults>>

\* The POST.  GitHub runs the worker at the commit main has at this moment.
Post(a, s) ==
  /\ boot = [pc |-> "command", action |-> a, surface |-> s]
  /\ \/ /\ run[a][s] = "none"
        /\ run' = [run EXCEPT ![a][s] = "active"]
        /\ UNCHANGED faults
     \/ /\ run[a][s] = "none" /\ faults < MaxFaults
        /\ run' = [run EXCEPT ![a][s] = "foreign"]
        /\ faults' = faults + 1
     \/ /\ run[a][s] = "foreign"
        /\ UNCHANGED <<run, faults>>
  /\ tried' = IF s = "corrective"
                THEN [tried EXCEPT ![a] = @ \cup {rec[a].correction}] ELSE tried
  /\ boot' = [boot EXCEPT !.pc = "receipt"]
  /\ UNCHANGED <<durable, other>>

Bind(a, s) ==
  /\ boot = [pc |-> "receipt", action |-> a, surface |-> s]
  /\ dispatch' = [dispatch EXCEPT ![a][s].status = "dispatched"]
  /\ boot' = Idle
  /\ UNCHANGED <<queue, last, rec, run, tried, other, faults>>

\* A later bootstrap run finds the intent.  It binds the run that matches; it
\* dispatches again when none does, except for evidence, which waits, and
\* except when only an older run of the same name is listed, which raises.
Reconcile(a, s) ==
  /\ boot = Idle
  /\ ActionsInFlight = {} /\ InFlight = {<<a, s>>}
  /\ dispatch[a][s].status = "dispatch_intent"
  /\ \/ /\ run[a][s] \in {"active", "done", "lost"}
        /\ s = "evidence" => run[a][s] # "lost"
        /\ boot' = [pc |-> "receipt", action |-> a, surface |-> s]
     \/ /\ run[a][s] \in {"none", "foreign"}
        /\ s # "evidence" /\ ~dispatch[a][s].repeat
        /\ boot' = [pc |-> "command", action |-> a, surface |-> s]
  /\ UNCHANGED <<durable, run, tried, other, faults>>

\* The bootstrap job dies; a receipt GitHub did not answer with is lost alike.
Crash ==
  /\ boot # Idle
  /\ faults < MaxFaults
  /\ boot' = Idle
  /\ faults' = faults + 1
  /\ UNCHANGED <<durable, run, tried, other>>

\* The evidence worker stops hard when the capability has no providers.
WorkerEnds(a, s) ==
  /\ run[a][s] = "active"
  /\ \/ /\ s = "evidence" => Registry[a] # {}
        /\ run' = [run EXCEPT ![a][s] = "done"]
        /\ UNCHANGED faults
     \/ /\ s = "evidence" /\ Registry[a] = {}
        /\ run' = [run EXCEPT ![a][s] = "lost"]
        /\ UNCHANGED faults
     \/ /\ faults < MaxFaults
        /\ run' = [run EXCEPT ![a][s] = "lost"]
        /\ faults' = faults + 1
  /\ UNCHANGED <<durable, tried, boot, other>>

-----------------------------------------------------------------------------
(* A bootstrap run ingests the artifact of a worker.                        *)

\* record_diagnostic_wait
Waiting(r, phase) ==
  LET waits == IF r.phase = phase THEN 2 ELSE 1
  IN [r EXCEPT !.phase = phase, !.waits = waits,
               !.status = IF waits >= 2 THEN "needs_evidence" ELSE @]

Eligible(r) == r.available \ r.failed

\* Mutation: only the provider of the original failure is excluded.
AdvancedForgetting(r) ==
  CASE ~r.cause /\ r.known -> [r EXCEPT !.cause = TRUE]
    [] ~r.cause /\ ~r.known -> Waiting(r, "investigate_root_cause")
    [] r.cause /\ r.available \ {Native} # {} ->
         [r EXCEPT !.correction = Min(r.available \ {Native})]
    [] OTHER -> Waiting(r, "apply_corrective_action")

\* The worker advances the recovery one phase, or records that it waits.
Advanced(r) ==
  CASE ~r.cause /\ r.known -> [r EXCEPT !.cause = TRUE]
    [] ~r.cause /\ ~r.known -> Waiting(r, "investigate_root_cause")
    [] r.cause /\ Eligible(r) # {} -> [r EXCEPT !.correction = Min(Eligible(r))]
    [] OTHER -> Waiting(r, "apply_corrective_action")

\* A dispatched run of this intent has ended and left its artifact, and the
\* recovery still has the identity it was dispatched for.
Terminal(a, s) ==
  /\ boot = Idle
  /\ ActionsInFlight = {} /\ InFlight = {<<a, s>>}
  /\ dispatch[a][s].status = "dispatched"
  /\ run[a][s] = "done"
  /\ dispatch[a][s].id = Identity(a, s)

Consume(a, s) ==
  /\ dispatch' = [dispatch EXCEPT ![a][s] = NoDispatch]
  /\ run' = [run EXCEPT ![a][s] = "none"]

\* apply_diagnostic_patch: the recovery of the artifact, without its dispatch.
DiagnosticIngested(a) ==
  /\ Terminal(a, "diagnostic")
  /\ rec' = [rec EXCEPT ![a] = Advanced(rec[a])]
  /\ Consume(a, "diagnostic")
  /\ UNCHANGED <<queue, last, tried, boot, other, faults>>

\* apply_evidence_patch: the failure's provider and error type stay as they
\* were, the wait counter too.
EvidenceIngested(a) ==
  /\ Terminal(a, "evidence")
  /\ rec' = [rec EXCEPT ![a].status = "open", ![a].available = Registry[a]]
  /\ Consume(a, "evidence")
  /\ UNCHANGED <<queue, last, tried, boot, other, faults>>

\* Mutation: a failed correction leaves no trace on the provider.
CorrectiveFailsSilently(a) ==
  /\ Terminal(a, "corrective")
  /\ rec[a].correction \notin registered \cap Reliable
  /\ rec' = [rec EXCEPT ![a].correction = NoProvider]
  /\ Consume(a, "corrective")
  /\ UNCHANGED <<queue, last, tried, boot, other, faults>>

\* PASS or NOOP with the postcondition read back: the recovery is resolved and
\* the action pending again, in one write.
CorrectiveVerified(a) ==
  /\ Terminal(a, "corrective")
  /\ rec[a].correction \in registered
  /\ rec' = [rec EXCEPT ![a].status = "resolved"]
  /\ queue' = [queue EXCEPT ![a] = "pending"]
  /\ Consume(a, "corrective")
  /\ UNCHANGED <<last, tried, boot, other, faults>>

\* Any other result is evidence against the provider.
CorrectiveFails(a) ==
  /\ Terminal(a, "corrective")
  /\ rec[a].correction \notin registered \cap Reliable
  /\ rec' = [rec EXCEPT ![a].failed = @ \cup {rec[a].correction},
                        ![a].correction = NoProvider]
  /\ Consume(a, "corrective")
  /\ UNCHANGED <<queue, last, tried, boot, other, faults>>

-----------------------------------------------------------------------------
Ordinary(a) ==
  \/ PlanAction(a) \/ RetryAction(a)
  \/ ActionSettles(a) \/ GiveUpTorn(a) \/ ActionFails(a)

Bootstrap(a, s) == Select(a, s) \/ Post(a, s) \/ Bind(a, s) \/ Reconcile(a, s)

Ingest(a) ==
  \/ DiagnosticIngested(a) \/ EvidenceIngested(a)
  \/ CorrectiveVerified(a) \/ CorrectiveFails(a)

Next ==
  \/ \E a \in Actions : Ordinary(a) \/ Ingest(a)
  \/ \E a \in Actions, s \in Surface : Bootstrap(a, s) \/ WorkerEnds(a, s)
  \/ ReasoningBlocks \/ Crash

Spec == Init /\ [][Next]_vars

\* Bootstrap runs keep being started while work is unfinished (the watchdog and
\* the wake after each ingestion) and workers end by their job timeout.
Fairness ==
  /\ WF_vars(\E a \in Actions, s \in Surface : Bootstrap(a, s))
  /\ WF_vars(\E a \in Actions : Ingest(a))
  /\ WF_vars(\E a \in Actions, s \in Surface : WorkerEnds(a, s))

FairSpec == Spec /\ Fairness

-----------------------------------------------------------------------------
(* Properties.                                                              *)

\* At most one recovery worker is in flight, over all actions and all three
\* surfaces and in whatever status the recovery is, and no action beside it:
\* the selection raises "multiple in-flight durable workflows" otherwise, at
\* every later cycle, and does not even see a dispatch left behind in another
\* status.  Of actions there are two in flight only after a run died between
\* the two writes of a give-up (ControllerCycle shows how that goes on).
OneInFlight ==
  /\ \A a, b \in Actions, s, t \in Surface :
       dispatch[a][s] # NoDispatch /\ dispatch[b][t] # NoDispatch =>
         a = b /\ s = t
  /\ \A a, b \in Actions, s \in Surface :
       queue[a] = "in_flight" => dispatch[b][s] = NoDispatch
  /\ \A a, b \in Actions :
       queue[a] = "in_flight" /\ queue[b] = "in_flight" => a = b \/ torn

\* A dispatch never loses its identity: from the intent to the ingestion the
\* recovery stays in the status that serves the surface and hashes to the
\* correlation id of the intent, so none of the resume_* functions raises.
IdentityKept ==
  \A a \in Actions, s \in Surface :
    dispatch[a][s] # NoDispatch =>
      /\ rec[a].status = ServedIn(s)
      /\ dispatch[a][s].id = Identity(a, s)

\* While the recovery of an action is unresolved the action is suspended, so
\* neither a retry nor a new cycle executes it beside its corrective run.
SuspendedWhileUnresolved ==
  \A a \in Actions :
    /\ Unresolved(a) => queue[a] = "suspended"
    /\ run[a]["corrective"] # "none" => Unresolved(a)

\* A provider that failed is never selected as the alternative, whatever
\* evidence is acquired in between: the failures of a recovery only grow.
NoProviderTwice ==
  [][\A a \in Actions :
       Unresolved(a) /\ rec'[a].status \in {"open", "needs_evidence"} =>
         /\ rec[a].failed \subseteq rec'[a].failed
         /\ rec'[a].correction \notin rec'[a].failed]_vars

\* The dead ends of a recovery, each for good: an evidence intent whose job
\* died before its POST (NO_MATCH is a WAIT, execution_gateway.py:628), a
\* corrective one that shares its name with an older run (STALE_ONLY), a run of
\* another commit, a run without the artifact it owes (:604).  A bootstrap run
\* that is about to POST is in none of them.
Stalled(a) ==
  \E s \in Surface :
    /\ dispatch[a][s] # NoDispatch
    /\ \/ run[a][s] \in {"foreign", "lost"}
       \/ /\ run[a][s] = "none"
          /\ s = "evidence" \/ dispatch[a][s].repeat
          /\ boot # [pc |-> "command", action |-> a, surface |-> s]

\* No provider the registry offers has been left out.
Exhausted(a) == Registry[a] # {} /\ Registry[a] \subseteq rec[a].failed

\* A recovery whose failure names its provider goes on through evidence and
\* correction until it is resolved or each provider of the registry has failed,
\* however often it is interrupted, unless it ends in a dead end.
Recovers ==
  \A a \in Actions :
    Unresolved(a) /\ rec[a].known ~>
      rec[a].status = "resolved" \/ Exhausted(a) \/ Stalled(a)

\* record_diagnostic_wait is there to "break identical diagnostic loops": an
\* unresolved recovery comes to rest, it does not go round between diagnosis
\* and the same evidence for ever.
LoopsBroken ==
  \A a \in Actions :
    <>[]Unresolved(a) =>
      <>[](rec[a].status = "open") \/ <>[](rec[a].status = "needs_evidence")
=============================================================================
