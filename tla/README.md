# Samuel in TLA+

Specifications of the Samuel controller (`src/chatgpt_operation`, run by the
workflows in `.github/workflows`), the TLC configurations that check them and
the theorems TLAPS proves about them.

Samuel is a controller without a server. Its memory is one JSON document in an
issue comment (the *state comment*, revision by revision), its process is the
workflow `samuel-bootstrap.yml`, one run at a time, and its hands are other
workflows (*workers*) that it dispatches and later asks for an artifact. A
bootstrap run reads the comment, selects one piece of work, writes what it is
going to do, does it, writes what came of it, and starts its successor. Any of
its steps may be its last; the next run has the comment and GitHub's list of
runs to go by, nothing else. What is hard about the program follows from that.
Around it the package has tools of the same kind, which also read, decide and
write in separate requests: the mutation engine, the lane that writes to a
foreign repository, the ledger of foreign issues, the matrix of governed cases,
and the guards a scheduled controller asks.

## Inventory

| part | state it keeps | operations | what makes it correct |
| --- | --- | --- | --- |
| action dispatch (`controller/diagnostic.py`, `durable_state.py`, `execution_gateway.py`, `terminal_ingestion.py`) | `action_queue`: status, dispatch intent, receipt, result, retired attempts | plan, record intent, dispatch, reconcile, record receipt, observe, ingest, retry, retire, suspend, reject, complete | one worker at a time per plan, however often the controller dies; a completion belongs to its own run; settled plans stay settled; every intent settles or is one of the dead ends there are |
| Actions observation (`github/actions_runtime.py`, `actions_observation.py`) | a dispatch receipt; GitHub's runs | dispatch, enumerate pages, evaluate, wait | the run found is the caller's own; a listed run is found; the wait ends |
| diagnostic recovery (`controller/diagnostic.py`, `execution.py`, diagnostic and evidence workers) | `diagnostic_recoveries`: root cause, correction, provider, wait, three dispatches | advance, wait, acquire evidence, correct, resolve | one worker in flight; a failed provider is not chosen again; a suspended action resumes only when resolved; no provider is passed over for ever |
| controller cycle (`runtime.py`, `bootstrap.py`, `state_persistence.py`, `task_watchdog.py`) | admission ledger, state comment | admit, reason, plan, close, retire, roll over, select, give a stale intent up | the slot changes hands only when nothing is hidden; the ledger stays unambiguous; a closed owner makes room |
| reasoning and admission (`issue_ingestion.py`, `issue_reasoning.py`, `preflight.py`, `predispatch_recovery.py`, `openai_reasoning_provider.py`) | status of each issue, queue and failures of one workload | select a criterion, ask, validate the answer, queue or record a failure, count evidence, close | criteria in order; one workload at a time; every issue is completed or waits for a person |
| trusted validation, merge recovery (`trusted_validation.py`, `merge_recovery.py`, `native_runtime.py`) | validation records, refused merges, replaced pull requests | observe, replace, dispatch, reconcile, publish a status, merge | only a tested head is merged; no head is validated twice; a replaced pull request stays out; every head gets evidence |
| blocker journal and gate (`repository/blocker_*.py`) | comments of one issue, a hash chain; an optional checkpoint | record a denial or a clearance, enrol work, migrate old denials, pass the gate | no write past a denial, nothing recorded twice, no denial washed away |
| mutation engine (`repository/mutation.py`, `branch_delete.py`) | none: a receipt per manifest | gate, read, decide, write, verify | no update is lost; a receipt is true |
| governed write (`codeqa_governed_write.py`) | a journal per run | branch, document, draft pull request, required workflow | a confirmation is about one commit; every effect is accounted for |
| cross-repository workflow (`controller/cross_repository_*.py`, `samuel_codeqa_foreign_cycle.py`) | ledger of a foreign issue | admit, acknowledge new facts, propose, review, dispatch, observe, verify CI | a plan is for the facts beside it; no stale plan runs; verified means evidence |
| governed matrix (`work/*`, `governed-matrix.yml`) | none: outputs and artifacts of one call | plan, prepare, run a case, aggregate | commands run at the requested commit; a green call has its evidence; every call ends |
| scheduled controller (`state_refresh.py`, `throughput.py`, `lifecycle.py`) | checkpoint of surfaces, completion candidate | refresh, select lanes, decide on completion | present readings only; lanes do not collide; completion neither early nor never |
| execution kernel, native executor (`github/execution_kernel.py`, `native_executor.py`) | provider failures | pass the gate, execute, verify | a worker's outcome, inside the modules above |
| attested evidence, scientific contract, documentation tools, command line | none | validate documents, print reports | pure functions |

How they interact: the workers never write the state comment, only the bootstrap
run does, so all interaction is by the comment (between bootstrap runs), by
workflow dispatches (bootstrap to worker) and by artifacts (worker to
bootstrap). A worker passes the blocker gate before it writes and writes through
the mutation engine. The behaviours that are hard are lost jobs between two
steps, lost dispatch answers, runs that GitHub lists late or on another page,
main moving between intent, dispatch and observation, results of earlier
attempts, retries of what may already have been done, facts that are read one
after the other while others write, and loops that must come to an end.
`PROJECT.json` lists them as hazards, each at its line.

## Modules

| module | models | run | theorems |
| --- | --- | --- | --- |
| `ActionDispatch` | one queued plan from its dispatch intent to a settled status | `moving_main` | `ActionDispatch_proofs` |
| `ActionsObservation` | how a dispatch finds its run in GitHub's listing | `wait` | `GitHubActions_proofs` |
| `DiagnosticRecovery` | the recovery of an action that failed twice in the same way | `recovery` | `Controller_proofs` |
| `ControllerCycle` | `run_cycle`: whose turn it is, and who owns the slot | `cycle` | `Controller_proofs` |
| `Workload` | one issue from admission to its close, criterion by criterion | `workload` | `WorkRecords_proofs` |
| `PullRequest` | validation, merge and replacement of a workload's pull requests | `pull_request` | `PullRequest_proofs` |
| `BlockerJournal` | the journal of denials and the gate before a write | `journal` | `WorkRecords_proofs` |
| `RepositoryMutation` | the requests of the mutation engine beside other writers | `mutation` | `GovernedWrite_proofs` |
| `GovernedWrite` (extends `RepositoryMutation`) | the lane that writes one document to a foreign repository | `governed_write` | `GovernedWrite_proofs` |
| `ForeignLedger` | what the ledger of a foreign issue promises | | |
| `ForeignCycle` (implements `ForeignLedger`) | the jobs that move that ledger, and the target meanwhile | `foreign` | `ForeignCycle_proofs` |
| `WorkMatrix` | one call of the governed matrix | `matrix` | `GitHubActions_proofs` |
| `ScheduledController` | a controller with its three guards | `scheduled` | `ScheduledController_proofs` |

The first six look at the same program at several distances. `ControllerCycle`
is the whole, with the life of a worker reduced to its outcomes; `Workload` is
what a sequence of undisturbed cycles does to the acceptance criteria of an
issue; `ActionDispatch` is what happens between "an intent is recorded" and "its
artifact is ingested", `DiagnosticRecovery` between "an action is suspended" and
"its recovery is resolved", `PullRequest` between "a pull request is open" and
"it is merged or replaced"; `ActionsObservation` looks inside the step of
`ActionDispatch` that asks GitHub. The last seven are what workers pass and use,
and the tools beside the controller. Each module's comment says which of the
others stands for what it leaves out. The `MC*` modules only define values for
the constants.

Four `_proofs` modules are about two components each and extend both, so the
second of each pair names its behaviours after itself: `WaitSpec`, `CycleSpec`,
`LoopSpec` (`Workload`), `EngineSpec` (`RepositoryMutation`) stand for what
`Spec` is elsewhere, and so do the initial predicates, the types and the tuples
of variables.

A definition whose comment begins with `Mutation` is a plausible bug of the
definition it names. No run uses them: `PROJECT.json` pairs each with the
property that would be lost with it.

### ActionDispatch

`durable` are the fields of one `action_queue` entry and of the records keyed by
the same action; `github` are the worker runs and what they did; `boot` is the
bootstrap run in progress, its program counter being the step of the workflow it
is about to take: `command` (execute-command), `receipt` (persist the gateway's
write), `wait` (the six-minute wait) and `ingest` (ingest-terminal and its
persist-state). One action models a step with the comment write it feeds, so
`Crash`, enabled between any two, is a job that is lost after a write or after a
dispatch. Times are kept as far as the code compares them: runs are numbered in
the order of creation, the visibility grace is one flag.

`Faults` names what the environment may do besides crashing. `slowListing` and
`wakeLag` are in the type and in the proofs, but in no run: under them two runs
of one intent are possible, which is why `OneRunPerIntent` and
`NoConcurrentRuns` claim something only without them (`PromptGitHub`). The other
three (`lostReceipt`, `lostArtifact`, `sameSecond`) are all in the run.

An intent may end in three dead ends, each of them for good: the retry whose job
died before its POST (`RetryNeverPosted`), the bound run stamped with the second
of its request (`BoundRunStaysStale`), the `repository_mutation` run that ended
on another commit or without its artifact (`CannotBeRetired`). They are defined
by what makes them final, not by the observation a bootstrap run makes of them:
a retry that is about to be posted, or a run that is still running, is in none.

### ActionsObservation

`pc` walks through `dispatch_workflow`, the page loop of
`enumerate_workflow_runs`, `evaluate_run_observations` and the wait. Between two
pages GitHub creates, lists and ends runs and the clock ticks. A caller is bound
to its run in one of three ways (`Modes`): by the run id the dispatch returned,
by a correlation id in the run's title, or by an input no title shows. `Second`
keeps GitHub's whole-second timestamps. Transport and artifact download are left
out: a failing request ends the step and is a `Crash` of `ActionDispatch`. A
bound run that GitHub answers with 404 is such a request.

### DiagnosticRecovery

`rec[a]` is `diagnostic_recoveries[a]`, `dispatch[a][s]` its three dispatch
records with the correlation id they were recorded with, `run[a][s]` the worker
behind it, `boot` whether a bootstrap run has selected, posted or bound a
dispatch. `Select`, `Post`, `Bind` and `Reconcile` are the steps of a bootstrap
run, `WorkerEnds` the workers (an evidence worker fails when the plan's
capability is not bound), `Ingest` the three ingestions. Identity by hash is
kept as the fields that are hashed. Providers are numbered in alphabetical
order, since `advance_diagnostic` takes the first eligible one; `Registry` is
`skills/capability-registry.json`, `Kernels` what the worker's kernel may
register (`cli.py:362`: `repository-native` alone; the run has a larger one
besides), `Reliable` those whose correction is verified whenever they are
registered. `asked` and `torn` are there for one path: a run that gives a stale
intent up and dies between ledger and state leaves an action in flight and a
ledger that asks for reasoning, and the next cycle plans before it selects
(`runtime.py:1821-1848`). So two actions get in flight, and from then on every
selection raises; `OneInFlight` says that this is the only way, and that no
recovery worker is ever beside another worker. Left out: an action is simply
`in_flight` between its intent and its artifact; a wait counter is capped at 2,
where the code compares it; the phase `verify_resolution` is unreachable because
the selection takes a recovery with a chosen correction as corrective work
first.

### ControllerCycle

`ledger` is the admission comment, `state` the state comment (`NoSlot` before
the first write; the slot is never emptied, only passed on), both of the control
issue #44. A cycle computes what it sees after the terminal rollover (`Current`,
`Work`), goes where the first applicable condition of `run_cycle` sends it
(`Route`), and writes the ledger first and the state second (`Write`): a run may
die between the two. A route that raises is a cycle without an effect. The plans
in a queue are the tasks semantic reasoning proposes and the three that
`run_cycle` proposes by itself: `merge` of a ready pull request, `branch` after
a rejected merge, `close` of a finished issue. `proven` tells a PASS, which
carries what the worker read back, from a NOOP, which does not: only the first
counts as evidence. In mode `external`, the one production uses, reasoning is a
comment the owner posts and may edit; in mode `provider` it is a call that may
fail, and its failures are kept in the state.

Abstractions: an issue has one acceptance criterion and one pull request
(`Workload` and `PullRequest` have several); a proposed `close` or `merge` of
the semantic reasoning itself is left out (the preflight demands the same
evidence in mode `provider`, a posted submission is the owner's word); `blocked`
and `revision_required` are one status, and so are the failures `escalated` and
`blocked`; an action that fails is retried or suspended at the choice of the
model, since two alternating failures are retried without bound; the recovery of
a suspended action ends in one step or goes on, perhaps for ever, and an intent
of the present commit is resumed or waits or raises, perhaps for ever (what
either does is in `DiagnosticRecovery` and `ActionDispatch`); an issue is not
reopened; the no-op cycle for a foreign snapshot and the texts of issues are
left out.

### Workload

`state` is the durable state of the workload that has the slot: its queue of
plans and its pre-dispatch failures; `status` is the admission ledger. One cycle
reads and decides in one step, but it writes the ledger and then the state
(`Persist`), two comments in two steps of the workflow
(`samuel-bootstrap.yml:209-234`), and the job may die between them. The next
cycle has what is left: it asks again for an issue that is planned without a
state (`HasTurn`, `runtime.py:1800-1816`), or raises when it cannot tell which
issue that is (`Ambiguous`). `Waits` is the cycle without an answer, which
writes the ledger alone. `Target` is the first acceptance criterion without
integrated evidence (`integrated_acceptance_evidence`, kept rule by rule in
`Counts`). `Plans`, `Stops` and `Fails` are what a reasoning call can end in: a
plan that passes `Complaint` (parser, repository target, preflight), an outcome
of the guard, or two attempts that did not validate. The text of a failure is
kept as far as two failures can differ by it, for that decides whether the
second is a repetition (escalated), or another one (after which the controller
raises). `Retire`, `CloseIssue`, `MergeReady` and `Reconcile` are the branches
of `run_cycle` that need no provider. `Plausible` restricts what the provider
proposes to plans GitHub would carry out; queued actions succeed. Failing
actions, other crashes and refused merges are the subject of the other modules.
An analysis without a plan, which ends the reasoning of a workload that only
observes, is left out, and so is what mode `external` does differently
(`ControllerCycle`).

Two dead ends follow from the two writes. `AnswerLost`: the ledger says that the
owner is planned, or stopped, and the state has neither the plan nor the failure
resolved, and nothing asks again. `Abandoned`: an issue was stopped and the
state that would own it was never written, so it waits beside the queue for
somebody to touch it. `Settles` excuses these two by name.

### PullRequest

`branch[0]` is the branch reasoning created, `branch[m]` the fresh one made from
commit `m` of main; `commit` holds the evidence about each head (ordinary CI,
the published status, whether the commit is sound), `validation`, `merge` and
`replaced` the durable records. `boot` is a bootstrap run: it observes pull
requests and evidence, then takes the first step that applies (`ReplaceBranch`,
`Validate`, `PlanMerge`), writes the intent before it dispatches, and dies where
it likes. `ValidationRuns` and the merge worker have steps of their own, between
which others push, CI ends and main moves. `Checked` are the commits ordinary CI
runs for, `Fallback` those whose blocked CI starts a validation without a
dispatch.

### BlockerJournal

`comments` are the journal entries of the issue; other comments are skipped by
every reader and are not there. An entry's hash stands for the history it
commits to, so `previous` is a sequence of payloads. `writer[p]` is a process in
`_append`, `register_work` or `reconcile_legacy_blockers`: `todo` what it still
has to append, `base` the reading its entry is made from. A step of it is what
it does up to its next request: read and check (`ReadFor`), POST (`Post`,
`PostTimesOut`, and `LatePost` for the request that arrives after its sender has
given up), read back (`Verify`). `GiveUp` is every error and the end of the
process, which leave the same thing behind. `engine[e]` is a mutation between
the two reads of the gate and its write; the policy, validation and provider
steps behind the gate can only end it (`EngineEnds`). What a mutation could have
known of, `known`, and what was acknowledged, `acked`, are not in the code: the
properties need them.

A deployment either has a checkpoint (`anchored`), and then one writer at a time
(`docs/mutation-blocker-recovery-v1.md` demands both together) and people who
may delete the last comment, or it has neither: the code says itself that
without a checkpoint the deletion of the tail cannot be seen. Other deletions
and edits are left out: they leave a journal that does not read, but for the
removal of one of two racing entries, which makes it readable again. An HTTP
denial is kept by the class of its status, a clearance with the head it was
verified on; the adapters' answer is that the evidence is genuine (`Genuine`)
and of the present head.

### RepositoryMutation and GovernedWrite

`pc[c]` is the next request of a client that carries a manifest out: two
listings for the validation gate, the read that decides, the conditional write,
the read that verifies, or the one that finds out why a creation was refused.
`commits` are all commits, a branch is one of them, a text is its blob sha.
Others push and delete between any two requests, answers get lost after their
effect, jobs die. `deleter` is `delete_branch`. `wrote` and `held` record what
the execution did and whether the desired state was there during it; only the
properties read them.

`GovernedWrite` extends the engine with the lane of `codeqa_governed_write.py`:
`lane` is its step, `journal` the JSON the workflow preserves, and the branch
and file manifests are executions of the engine's own actions. It has no gate
and is the engine's only client. Others move main, push, run the required
workflow and touch the pull request (close, merge, make ready, edit). `effects`
records what the run changed, for `Accounted`, and `carrier` the pull request as
the run last read it back, for `ConfirmedProof`.

### ForeignLedger and ForeignCycle

`ForeignLedger` is the abstract specification: one document with a phase, a
revision, the facts (issue text and base) it was admitted for, and a plan that
is written for these facts, reviewed before it is dispatched and never replaced.
`ForeignCycle` has the jobs: each reads the target's issue, its main and the
ledger in separate steps, computes the next ledger (`Admitted`, `Reconciled`,
`Proposals`, ...), compares what it read with the ledger as it is now, and
writes. `LedgerKept` is the refinement `Abstract!Spec` under the mapping `Work`,
checked by TLC and proved. The facts of the target change and change back: its
main is pushed from any commit to any other, its issue edited and restored, and
`having` are the commits with a file at the proposed path. The two policy files
are merged into one reviewed base. What stops a plan is a change that a job has
recorded. A change no job saw, or one that was undone in time, stops nothing:
the dispatch compares main alone (`cross_repository_execution_gateway.py:51`).

### WorkMatrix

One call of the reusable workflow: `job[j]` is a runner with the commit of its
own checkout; `outputs` is what later jobs read of the plan (the workflow
through `GITHUB_OUTPUT`, a caller through the JSON `cli.py:278` prints),
`uploaded` and `bundle` are the artifacts. No caller of the second kind is in
the repository; it is there because the first reads empty outputs (see
`PlanIsRead` below), so that all that follows the plan could not be checked
through it. `Manifest` keeps of a manifest what decides: base, identity, stages,
cases, `max_parallel`, aggregate; `MCWorkMatrix` has a good, a single-case, a
narrow and a refused one, and histories in which they replace one another. Jobs
succeed, fail, run out of time (they still upload) or lose their runner (they do
not). A re-run of failed jobs is left out.

### ScheduledController

The three guards are pure functions; `docs/operating_system` composes them in
every cycle, and so does the module: `refresh` (which surfaces must be read),
`probe`, `read` and `plan` (which tasks may run beside one another and beside a
validation), `act`, `scan` (`primary`, `confirmation`, `active` and `sentinel`,
one after the other) and the completion decision with its candidate token.
`stale` and `old` tell which surfaces no longer say what the checkpoint, or what
this cycle's reading, says. The snapshot of tasks and locks is collected and
selected from in one step, and a cycle that only prepares a write goes straight
to `plan`: the authoritative reads just before a mutation
(`skills/state-refresh/README.md`) are left out, so a surface that changes after
its probe is acted upon as it was read.

## What the runs show

`CHECK_DEADLOCK FALSE` everywhere: the system may come to rest when nothing is
left to do, and the bounds below may stop it earlier. Every run ends without an
error.

* `moving_main`: an action of either executor, after one that is complete, with
  all three kinds of failure, a move of main (intent, dispatch and observation
  may see different commits), lost receipts, lost artifacts, runs stamped with
  the second of the request, a crash and a corrective resume. Two runs of one
  action are never alive together, one run per intent, a completion belongs to
  its own run; and under fairness every intent settles or ends in one of the
  three dead ends (`IntentSettlesOrIsStranded`). None of them is passed through
  on the way to settling: the first is left only when main moves, the others
  never.
* `wait`: three binding modes, an older attempt with the same correlation id,
  and two foreign runs that push the listing across pages of one run while it is
  read. What is matched is the caller's; a listed run is never missed; the wait
  ends.
* `recovery`: two actions, one whose capability has three providers and one
  whose capability is not bound; three kinds of failure; the shipped kernel and
  one that knows a second, reliable provider; three faults, a torn give-up among
  them. One recovery worker at a time over all surfaces and no action beside it,
  a suspended action is not executed beside its recovery, no provider twice, and
  a recovery whose failure names its provider is resolved or has tried all that
  the registry offers, unless it ends in a dead end (`Stalled`: an evidence
  intent or a repeated correction whose job died before its POST, a run of
  another commit, a run without the artifact it owes). With the shipped kernel
  alone no recovery is ever resolved by its corrective run, since the provider
  it knows is the one that failed: such a recovery ends exhausted.
* `cycle`: two issues (the least number that compete), both reasoning modes, two
  errors of reasoning, a task each, two deaths between two writes. The slot
  passes only from a state without anything in flight, pending, recovering or
  failed, whatever dies; the ledger never becomes ambiguous; a `close` is
  planned by Samuel only when the pull request is merged in the repository; and
  a closed owner makes room for runnable work, unless an execution or a recovery
  never ends (`Executing`) or a failure of reasoning keeps the slot
  (`FailureKeepsSlot`, which names the three ways). A death between the writes
  is no excuse by itself.
* `workload`: an issue with two criteria and one with a single one, one branch,
  one recorded failure that may recur, main moving, issues closed by hand, two
  jobs that die between ledger and state. A criterion is worked on only when
  those before it are integrated; at most one issue waits for an answer or has a
  plan, and the slot is its own or free, whichever write was lost; and every
  admitted issue is completed, reaches a point that waits for a person, or is
  one of the two dead ends above.
* `pull_request`: the branch and its replacement, two pushed commits each of
  which may fail its tests, one checked by ordinary CI and one by the fallback,
  main moving, a bootstrap run that dies. What is merged passed its tests
  itself; a head is validated by dispatch once; a replaced pull request is not
  merged as well; every head of an open pull request gets evidence.
* `journal`: two writers, two denials (one that must be escalated, one of CI),
  their clearances, a plain enrolment and a migration, three entries, a late
  POST, two heads, one deletion, one mutation. Nothing is in a readable journal
  twice, although no reader looks for repetitions; a write begins only past
  denials that are cleared for its head, deletions included; migrated work is
  enrolled last; an escalation is never washed away. (Symmetry of the writers:
  nothing tells them apart.)
* `mutation`: two clients, one behind the validation gate, every kind of
  manifest, a push and a deletion of the branch, lost answers. A write replaces
  only what its manifest expects, and a receipt is true. (Symmetry of the two
  texts.)
* `governed_write`: two runs of the lane, one push, one deletion, one touch of
  the pull request or main, two runs of the required workflow per commit. A
  confirmation is about one commit that has exactly the document, a passed
  workflow and the run's own draft pull request as it was read back; the journal
  accounts for every effect, also after a kill.
* `foreign`: every kind of job, two commits that the target's main goes to and
  back from, two texts of its issue, one execution, two heads. The ledger
  implements `ForeignLedger`; `ci_verified` rests on an execution of the plan
  and the workflows of its head; once a ledger says that its facts changed
  nothing runs, and if it has a plan the ledger stays as it is, though the facts
  change back. (With one execution a second run of a plan, or one that makes a
  green head red, does not occur.)
* `matrix`: three, two and one cases, eight refused manifests, a floating base
  that moves between checkouts, timeouts, lost runners, an expired bundle.
  Commands run at the requested commit only; a call without a failed job has all
  its evidence; every call ends.
* `scheduled`: three tasks on one mutable and one pinned surface, two lanes,
  both kinds of lock, two scopes, failed probes and cut enumerations, cycles
  that die, two changes by others. What was out of date when a cycle began has
  been read before that cycle decides by it; its lanes do not collide; it
  declares completion only after an earlier cycle found the same scope clear,
  and only if nothing was open all through the scans of this one (an issue
  opened after its scan does not stop it); and when all work is done it does so
  in the end.

### Disagreements met

What follows is false of the code, each with a small instance whose
counterexample shows it (`tlc -config <file>.cfg <module>`). These instances are
kept beside the runs; they are not among the runs of `PROJECT.json`, whose
properties all hold.

| instance | property | what happens |
| --- | --- | --- |
| `MCActionDispatch_stuck_retry` | `IntentSettles` | a crash between the intent of a retry and its dispatch leaves the intent for ever: the earlier attempt has the same correlation id and commit and reads as `STALE_ONLY`, at which the gateway raises (`execution_gateway.py:293`) |
| `MCActionDispatch_rejected_live` | `RejectedHasNoEffect` | an intent is given up as undispatched because main moved, without a look for its run (`runtime.py:1906`); after a crash before the receipt the rejected plan is being executed |
| `MCDiagnosticRecovery_livelock` | `LoopsBroken` | with the shipped registry and kernel, a recovery alternates between diagnosis and the same evidence for ever (`diagnostic.py:512`, against 496) |
| `MCControllerCycle_two_in_flight` | `OneIntent` | a run that gives up a stale intent dies between ledger and state; the next cycle reasons first and records a second intent, and from then on every selection raises |
| `MCControllerCycle_incomplete_listing` | `ClosureObserved` | the terminal rollover does not ask whether the list of open issues is complete, as the retirement does (`docs/operating_system/STATE_RETIREMENT.md:16`): a finished owner beyond the first page is marked complete while open |
| `MCBlockerJournal_ambiguous` | `StaysReadable` | one writer and no failure; two denials with one evidence reference, then a clearance that cites it: the append asks for a matching denial, the read for exactly one (`blocker_journal.py:209`), and the journal is unreadable from then on |
| `MCPullRequest_replaced` | `ReplacedOnce` | main moves after a refused merge, and its branch is replaced again (`merge_recovery.py:104`), which the instructions to the provider in `runtime.py` exclude: a replacement "solely because `repository_context.observed_head_sha` changed" |
| `MCRepositoryMutation_unguarded_delete` | `DeleteGuarded` | a push between read and DELETE is deleted with the branch (`branch_delete.py:65`), which calls itself an exact-SHA guarded deletion (line 1) |
| `MCWorkload_stale_branch` | `IntegratedOnMain` | work that was pushed to a branch after its pull request was merged counts as integrated (`preflight.py:187`, against 115), and the issue is closed without it |
| `MCWorkload_two_failures` | `OneActiveFailure` | two different retryable failures of one target are both active, and the controller raises in every cycle (`predispatch_recovery.py:98`, against 89) |
| `MCWorkMatrix_outputs` | `PlanIsRead` | the plan writes a literal `\n` between its outputs (`cli.py:273-276`), so `GITHUB_OUTPUT` holds one line and the later jobs read empty outputs |

Others were met without an instance. `observed_at` is read after the last page
(`actions_runtime.py:399`), so an enumeration begun inside the visibility grace
may say `NO_MATCH`, which `skills/github-actions-observation/README.md:46`
excludes. `reconcile_legacy_blockers` calls its replay idempotent
(`blocker_migration.py:66`); once its own enrolment has landed, the replay is
refused (lines 87 to 90). A deterministic close that was rejected is planned
again in each cycle and refused as a duplicate. A foreign ledger stays in
`ci_pending` when its pull request is reopened with another head
(`cross_repository_workflow.py:402`), and never leaves `revision_required` of an
approved plan by itself (line 202). The validation gate lists queued runs and
then running ones, and misses a run that starts in between (`mutation.py:349`).
A second run of the governed write after a partial one cannot confirm, since the
branch is no longer at the base it compares with. A merge is refused for good
when GitHub has not yet computed `mergeable`. The aggregate of a matrix may be
given a timeout longer than its job's limit.

## Bounds

| bound | value | why it is enough |
| --- | --- | --- |
| `Actions` (dispatch) | 2 | one that is complete and one of either executor; no two actions are in flight together except as `two_in_flight` shows, and the properties are about the runs of one; the proofs are for any number |
| `MaxRuns`, `MaxHead` (dispatch) | 4, 2 | the run of the complete action, first attempt and retry of the other and one more while main moves; intent and observation on different commits |
| `MaxCrashes` | 1, cycle and workload 2 | one crash between two steps (two comment writes, two dispatches); a second one while the next cycle makes up for the first |
| `MaxResumes` | 1 | a suspended action that is executed again |
| `MaxRuns`, `PageSize`, `MaxPages` (observation) | 3, 1, 3 | every run on a page of its own; a listing longer than it was |
| `MaxTime`, `Second`, `Grace`, `Timeout` | 4, 2, 1 or 2, 2 or 3 | ticks inside a second, before and after the grace and the deadline |
| `MaxFaults` (recovery) | 3 | a loss, another one while it is recovered from, and a torn give-up before them |
| `MaxEntries`, `MaxDeletions` (journal) | 3, 1 | a denial, what ends it or enrols the work, and an entry that should not be there; the tail is gone and another entry takes its place |
| `Works`, `Tasks`, `Errors` (cycle) | 2, 1, 2 | owner and competitor; a proposed task beside the three of `run_cycle` itself; one failure that recurs, and two that are active together. Two proposed tasks are in `two_in_flight` |
| `Issues`, `CriteriaOf`, `Branches`, `MaxFailures` (workload) | 2, 2 and 1, 1, 1 | a handover, an order of criteria, a failure that recurs (a second, different one of the same target is in `two_failures`); with one branch no two pull requests of a workload are ready together |
| `MaxMain`, `MaxCommits`, `MaxRuns` (pull request) | 2, 2, 4 | a replacement, a push to each branch or two to one, two validations of each commit |
| `MaxMain`, `MaxEdits`, `MaxChanges`, `MaxRevision`, `MaxRuns`, `MaxCommits` (foreign) | 2, 2, 2, 5, 1, 2 | a fact that changes and changes back, or two that change; the longest way to `ci_verified`; an execution and a later head |
| `MaxAttempts`, `MaxPushes`, `MaxDeletions` (mutation) | 1 each, 2 clients | a client, its competitor and an outsider between any two requests; the proofs have no bound |
| `MaxRuns`, `MaxCI`, `MaxTouches` (governed write) | 2, 2, 1 | a run after a partial one; a failed and a passed workflow of one commit; one change of the pull request or main between two checks |
| `Cases`, `MaxMoves` (matrix) | 3, 1 | more cases than lanes, with one that fails and one that is lost; the branch at another commit |
| `Tasks`, `MaxLanes`, `MaxChanges`, `Scopes` (scheduled) | 3, 2, 2, 2 | two lanes that compete and one that does not; a change and its return |

## Fairness

A bootstrap run that is started runs its steps (weak fairness of each). Workers
end: their jobs have a timeout. GitHub lists a run in the end, the clock
advances. Bootstrap runs are started after every worker
(`samuel-worker-completion-wake.yml`), by issue events and by the hourly
watchdog. The watchdog wakes only while an open, opted-in issue is runnable, so
`ControllerCycle` assumes fairness of a cycle only then (`Runnable`,
`decide_task_wake`), and then only of a cycle whose progress is the controller's
own (`Advances`): not of a worker's report, of an intent the gateway waits
about, nor of a recovery, each of which may go on for ever. The one strong
assumption is there too: if workers fail again and again, one also succeeds
again and again. `ActionDispatch` starts its liveness from a second action
(`SecondActionSpec` of the instance), with the fairness of `FairSpec`.
`Workload` has the same assumption about the provider: asked again and again, it
answers with an acceptable plan some time (`Plans`); it does not assume that CI
ends. `PullRequest` assumes the bootstrap runs, the merge worker and the
validation runs, not ordinary CI. `WorkMatrix` assumes of every job that it gets
a runner and that no step lasts for ever (each has a timeout in the workflow).
`ScheduledController` assumes that the scheduler runs the cycles; `RestsAtLast`
claims something only once nothing changes and every read succeeds (`quiet`).
`ForeignCycle`, `BlockerJournal`, `RepositoryMutation` and `GovernedWrite`
assume nothing. People owe nothing: no issue, submission, merge or review is
ever assumed to come.

## Proofs

For every value of the constants that satisfies the named `ASSUME` of the module
(`ConstantsAssumption`, `WaitAssumption`, `CycleAssumption`, `LoopAssumption`,
in `WorkMatrix` also `HistoriesAssumption`: types of the constants, that
criteria and tasks are told apart, and nothing about the program), TLAPS proves
the following: every invariant and every action property that a run checks, for
every component. The `_proofs` module of a component holds its inductive
invariant, one lemma per part of it, and the theorems. Each component's type
invariant is proved as well (`TypeCorrect`, `WaitTypeCorrect`, ...). TLC checked
every inductive invariant on the instance of the component's run before it was
proved.

* `ActionDispatch_proofs`: `TypeCorrect`; `CompletionIsOwned` (a completed
  action owes its completion to a run of its own that ended in success, on the
  commit of its intent, and its postcondition holds); `FinalIsFinal`;
  `DispatchStandsBehindIntent`. All hold under all `Faults`, including those no
  run has. The completion theorem needs the invariant `Ownership`: for each
  action, what the durable entry names is its own (`Owned`: the receipt's run of
  a dispatched action is its own and newer than the intent, every retired run is
  older than the intent, a completion names a run of its own that was not
  retired and ended in success), a run in the memory of the bootstrap run is the
  action's own when its receipt is written and has ended when its result is
  (`BootOwned`), and a run that reported success left its effect behind
  (`SuccessHasEffect`). `CompletionOwned` alone is not inductive: the step that
  completes an action trusts what an earlier step put into the bootstrap run.
  `IntentHasOneRun` and `OneWorkerAtATime` need a second invariant, `OneWorker`,
  which is preserved as long as GitHub is prompt: an action in flight has at
  most one run made for its intent, none of them on an older commit; no two runs
  of one action are live, and its entry knows the live one (`Attempts`); a
  bootstrap run about to dispatch for a new intent is the first to, and one
  about to reconcile finds every run made for it (`Informed`); and no run is of
  a commit main has not reached (`RunsPast`).
* `Controller_proofs`, on `DiagnosticRecovery`: `TypeCorrect`, `SingleWorker`,
  `DispatchIdentity`, `RecoveryExcludesExecution`, `NoProviderRetried`. The
  first four are parts of one inductive `Invariant`, which adds `Bookkeeping`: a
  dispatch that is there has a status, a run belongs to a dispatch, a corrective
  dispatch to a chosen correction, a bootstrap run that is not idle works on a
  dispatch intent, and reasoning asked for beside an action in flight is the
  mark of a torn give-up. None is inductive by itself: that nothing is selected
  beside a dispatch in flight needs that a dispatch is never left behind in a
  status that does not serve it, which is its identity. `NoProviderRetried` is
  an action property: a step-by-step lemma says what each action does to the set
  of failed providers (`ProviderSteps`), and the invariant that the chosen
  correction is not among them (`Unblamed`) does the rest.
* `Controller_proofs`, on `ControllerCycle`: `CycleTypeCorrect`,
  `CloseFollowsMerge`, `SlotYieldsOpenly`, `TurnsAreUnambiguous`. A cycle is
  about one issue, the owner of the slot it sees or the one whose turn it is
  (`CycleStep`), and `Outcome` says what it may leave behind, whichever of its
  two writes a crash prevents. The invariant says of the slot, and of every slot
  a cycle may write, that its evidence is GitHub's (`Good`: a merge that counts
  is a merged pull request, a retired slot is of a closed issue), and of the
  ledger that at most one issue has a turn, and that it is the owner's until the
  slot can be given up (`OneTurn`). The last is preserved only while every open
  issue is observed, which `TurnsAreUnambiguous` therefore has as a hypothesis:
  with `Truncated` and a crash TLC finds two turns.
* `WorkRecords_proofs`, on `BlockerJournal`: `TypeCorrect`,
  `EventsAreRecordedOnce`, `MigrationEnrolsLast`, `EscalationsStick`,
  `DenialsStopWrites`: every property of the run `journal`. The `Invariant` says
  that every entry, also one that is still under way, is made after the history
  it commits to (`WellMade`: it is not in there, and if it ends a migration,
  what was migrated is); that whoever will enrol migrated work has the missing
  denials still before him (`EnrolsBehind`); that what was acknowledged is on
  record; and that what a mutation knows of is in the history its gate will read
  (`GoodEngine`). None of the five follows from itself: two entries are equal
  only if the later one was posted from a reading that lacked the earlier, and
  the chain that shows this is what `Readable` says. `DenialsStopWrites` is
  about a step: the gate's journal read is the only one that lets a write begin.
* `WorkRecords_proofs`, on `Workload`: `LoopTypeCorrect`, `CriteriaInOrder`,
  `OneIssueAtATime`. The invariant says that the queue holds plans that can be
  carried out, each about a criterion that was due, with all that comes before
  it integrated (`Good`), that a pull request is from a branch there is
  (`GitHubOK`), and `OneWorkload` itself. A plan is due when it is queued, since
  it is about the first criterion that is left (`TargetForm`), and stays due
  because evidence is never taken back: what a later view of the workload and of
  the pull requests counts includes what an earlier one did (`IntegratedGrows`).
  `OneIssueAtATime` must hold after either write, so the invariant says what the
  first may be left with: an issue nobody labelled has no workload (`Listed`),
  and whoever is reasoned about has the slot, or nobody has it and then no other
  issue is busy (`WorkerAlone`).
* `PullRequest_proofs`: `OnlyTestedIsMerged`, `DispatchedOnce`, `ReplacedIsOut`.
  A merge trusts evidence that was observed some steps ago, so the `Invariant`
  says that every commit anyone names was pushed to the branch it is named for
  (`Known`), that evidence is true wherever it lies (`Evidenced`), that the
  merge worker acts for the one dispatched merge and at its head (`Merging`),
  and what of an observation still holds when the bootstrap run decides
  (`Seen`). With it, a replaced pull request is open at a rejected head for good
  (`Replaced`), and a validation on record is of the newest head ever validated
  on its branch (`Validating`), without which a head could return after another
  one.
* `ForeignCycle_proofs`: `VerifiedHasEvidence`, `StalePlanNeverRuns`, and the
  refinement `LedgerImplementsForeignLedger`: every step of the jobs is a step
  of `ForeignLedger` or leaves its variables alone. The invariant says of the
  ledger, and of every ledger a job is about to write, that it is readable and
  has its evidence at the target (`Sound`), and that a job computed it from the
  ledger that is still there (`JobInv`), in a step that never moves a ledger
  whose plan is stale (`Step`): what a job writes late is then no way round
  `StalePlanNeverRuns` either (`StaleIsLeft`). The second part is why the write
  of a job that read three things one after the other is one abstract step.
* `GovernedWrite_proofs`, on `RepositoryMutation`: `ReceiptsAreTrue`,
  `NothingIsLost`, of `EngineSpec`. The strengthening `Program` says that a
  client about to write carries in `seen` exactly what its manifest expects, and
  that its place in the program says whether it has changed the branch. That a
  write replaces nothing else then follows from the condition GitHub checks.
* `GovernedWrite_proofs`, on `GovernedWrite`: `LaneTypeCorrect`,
  `ConfirmationIsProof`, `EffectsAreAccounted`. Where a run of the lane is tells
  what its journal has (`JournalOK`); the engine works for it in two steps only,
  and what it has changed there is still its own to report (`EngineOK`); and the
  commit that was compared, and then tested, has exactly the document
  (`HeadOK`); and the pull request last read back is the run's own, and at that
  commit from then on (`CarrierOK`). The engine's `Program` and `ReceiptHonest`
  are part of the invariant: the lane believes its receipts.
* `GitHubActions_proofs`, on `WorkMatrix`: `CommandsArePinned`, `GreenIsWhole`.
  The invariant says where a job that runs has been checked out (`Located`) and
  which jobs ended before it (`InOrder`), what a successful plan and prepare
  leave behind (`Planned`, `Prepared`), what a command and a successful case
  rest on (`RanBehind`, `Recorded`), and that a skipped job may not run
  (`RightlySkipped`). `GreenIsWhole` needs the last: a call without a failed job
  is whole only because nothing is skipped that should have run.
* `GitHubActions_proofs`, on `ActionsObservation`: `WaitTypeCorrect`,
  `MatchedIsMine`, `ListedIsFound`. Only this request and earlier attempts show
  its correlation id, and the earlier ones are older (`RunsOK`); a caller bound
  to a run looks at that one only (`BoundOK`); a run that was visible has been
  collected or is on a page still to come (`EnumerationOK`). The place of a run
  in the listing is its rank, the number of listed runs above it. New runs make
  it grow, never shrink (`RankGrows`), and a page shows the ranks it should
  (`PageForm`), so no run slips from a page to come to one already read.
* `ScheduledController_proofs`: `ActsOnPresentReadings`, `LanesKeepApart`,
  `CompletionIsEarned`. The invariant relates the readings to what has changed
  and what had changed before the cycle began (`GroundOK`), the scans to what
  was open while they ran (`ScansOK`), and the candidate to the cycle that found
  it (`CandidateOK`): four scans, one after the other, say something of one
  moment only because what they did not find has not been open since they began.
  What the lanes have taken is a recursive function of the tasks before
  (`Selected`); `LanesKeepApart` argues from the first task that would collide,
  which exists since the order of the numbers is well-founded. That no two tasks
  have one id, which `throughput.py` raises on, is assumed of the constants.

The lemmas on steps (`BootStep`, `DispatchForm`, `WaitingForm`, `AdvancedForm`,
`IngestStep`, `JobMoves`, `OneMoves`, `RefreshStep`, ...) say once what a
handler does to a record, so that the invariance proofs never look into one. No
run repeats the type theorems, `FinalIsFinal`, `DispatchStandsBehindIntent` or
`DispatchIdentity`.

Only model-checked are the liveness properties: `IntentSettlesOrIsStranded`,
`WaitEnds`, `Recovers`, `ClosedOwnerYields`, `Settles`, `EvidenceArrives`,
`Ends` and `RestsAtLast`. Liveness under fairness is out of the prover's reach.

## Not modelled

`PROJECT.json` lists each component with its reason. Left out are:

* the HTTP and `gh` transport (a failing request ends the step it belongs to),
  and the encodings of the comments, markers and artifacts;
* prompts, and the payloads a provider returns beyond what decides the next
  step;
* pure checks of one document: attested evidence (DEA), the scientific contract
  and its planning, the centralization and qualification gates, the scientific
  discriminator, the branch preflights. Nothing happens between two of their
  lines, and tests reach what they compute;
* documentation tools, reports, argument parsing;
* a re-run of the failed jobs of a matrix, issue comments and labels the native
  executor writes, the hour the watchdog waits (`Runnable` is its decision).

## Plan

Done: the thirteen modules above with their runs, and proofs about all of them.
Left, the most useful first:

1. `DurableLedger`: an abstract register of revisions, and the read, validate,
   write, read-back protocol of `state_persistence.py` that is to implement it,
   with two comments and with a second writer.
2. Refinements inside the controller: `ActionDispatch` implements the action of
   `ControllerCycle` and of `DiagnosticRecovery` (`in_flight` as one step).
3. A liveness property for open issues, which the deterministic close violates.
4. The authoritative reads before a mutation in `ScheduledController`, and a
   snapshot of tasks and locks that is read piece by piece.
