------------------------- MODULE ScheduledController -------------------------
(***************************************************************************)
(* A scheduled controller and the three guards it asks in every cycle:     *)
(* state-refresh (what has to be read before its checkpoint may be used),  *)
(* throughput (which tasks may run now, beside each other and beside a     *)
(* validation), and lifecycle (whether it may switch itself off).          *)
(*                                                                         *)
(* The guards are functions of a snapshot.  The probes of the surfaces and *)
(* the scans of lifecycle are separate reads here, while surfaces change,  *)
(* issues and pull requests are opened and closed, validations start and   *)
(* end, and reads fail or are cut short; the snapshot of throughput is     *)
(* taken in the step that chooses by it, and acted on later.  A            *)
(* fingerprint is known here by whether it is that of the surface's        *)
(* present content, and a cycle by its place before or after the next one; *)
(* only what others change has a bound.                                    *)
(***************************************************************************)
EXTENDS Naturals, Sequences, SequencesExt, FiniteSets

CONSTANTS
  Mutable,    \* surfaces whose content changes: issues, branches, checks
  Pins,       \* surfaces pinned to an exact commit
  Critical,   \* those the controller decides by
  Tasks,      \* <<[id, mutates, resources]>>: the governed work, in its order
  Locks,      \* [scope, resources]: what a validation may lock
  Scopes,     \* scope ids of the terminal policy
  MaxLanes,   \* lanes of a burst
  MaxChanges, \* bound: what others change
  None

Surfaces == Mutable \cup Pins

ASSUME ConstantsAssumption ==
  /\ Mutable \cap Pins = {} /\ Critical \subseteq Surfaces
  /\ Len(Tasks) \in Nat /\ DOMAIN Tasks = 1..Len(Tasks)
  /\ \A i \in DOMAIN Tasks : Tasks[i].mutates \in BOOLEAN /\ Tasks[i].resources \subseteq Mutable
  /\ \A i, j \in DOMAIN Tasks : Tasks[i].id = Tasks[j].id => i = j
  /\ \A k \in Locks : k.scope \in {"SCOPED", "GLOBAL"} /\ k.resources \subseteq Mutable
  /\ MaxLanes \in 1..4 /\ MaxChanges \in Nat
  /\ None \notin Locks /\ None \notin Scopes /\ None \notin {"paused", "complete"}

VARIABLES
  stale,       \* surfaces whose content is no longer that of the checkpoint
  issues, prs, \* open work, and work with an open pull request
  terminal,    \* the sentinel
  validation,  \* the exact-head run: its state and its lock
  authority,   \* the authority asked for, and the durable one
  scope,       \* the scope of the terminal policy
  quiet,       \* nothing changes and every read succeeds from now on
  trusted,     \* checkpoint: "yes" if no trigger of a full refresh is known
  verified,    \* checkpoint: pins that were verified
  candidate,   \* checkpoint: the terminal candidate
  off,         \* None, or why the controller was switched off
  step,        \* of the cycle
  planned,     \* cycle: targets it plans to mutate
  probe,       \* cycle: the probe of every surface, and what it found
  todo,        \* cycle: surfaces to probe or to read, lanes to run
  scans,       \* cycle: the evidence for the lifecycle guard
  old,         \* history: surfaces known only as of before this cycle
  cleared,     \* history: for every scope, when it was found all clear first
  held,        \* history: what has been open since the scans began
  locked,      \* history: the lock, active since the lanes were chosen
  changes

world == <<stale, issues, prs, terminal, validation, authority, scope, quiet>>
saved == <<trusted, verified, candidate, off>>
cycle == <<step, planned, probe, todo, scans>>
history == <<old, cleared, held, locked>>
vars == <<world, saved, cycle, history, changes>>

TaskIds == {Tasks[i].id : i \in DOMAIN Tasks}
Task(id) == CHOOSE t \in ToSet(Tasks) : t.id = id

\* What is open, each by itself: an issue may be closed while its pull request is not.
OpenWork == (issues \X {"issue"}) \cup (prs \X {"pr"})

MutatingIds == {id \in TaskIds : Task(id).mutates}

Validations == [state : {"none", "expected", "active", "ended"}, lock : Locks \cup {None}]
Probes == [state : {"NOT_RUN", "OK", "ERROR"}, differs : BOOLEAN]
NotRun == [state |-> "NOT_RUN", differs |-> FALSE]

ScanOrder == <<"primary", "confirmation", "active", "sentinel">>
Scan == [complete : BOOLEAN, count : Nat]

-----------------------------------------------------------------------------
(* state-refresh.                                                           *)

Relevant(s) == s \in Critical \cup planned

\* Verified pins and what no decision is about are not read at all.
Skipped(s) == s \in verified \/ ~Relevant(s)
InState(state) == {s \in Surfaces : ~Skipped(s) /\ probe[s].state = state}

\* Mutation of Blocked: a probe that failed is passed over.
BlockedNever == {}
Blocked == InState("ERROR")
Unprobed == InState("NOT_RUN")
Changed == {s \in InState("OK") : probe[s].differs}

RefreshStatus ==
  IF trusted # "yes" THEN "FULL_REFRESH_REQUIRED"
  ELSE CASE Blocked # {} -> "PROBE_BLOCKED"
         [] Blocked = {} /\ Unprobed # {} -> "PROBE_REQUIRED"
         [] Blocked = {} /\ Unprobed = {} /\ Changed # {} -> "DELTA_REFRESH"
         [] OTHER -> IF planned # {} THEN "PREWRITE_ONLY" ELSE "CHECKPOINT_CURRENT"

-----------------------------------------------------------------------------
(* throughput.                                                              *)

Active == validation.state = "active"
Missing == validation.state = "expected"

\* A task that changes something waits for the lock on what it changes.
BehindLock(t) ==
  /\ t.mutates /\ Active /\ validation.lock.scope = "SCOPED"
  /\ t.resources \cap validation.lock.resources # {}

\* Mutation of Choose: the resources of a lane are not taken.
ChooseFree(chosen, t) ==
  IF t.id \in issues /\ ~BehindLock(t) /\ Cardinality(chosen) < MaxLanes
  THEN chosen \cup {t.id} ELSE chosen
\* Tasks in their order, as long as there are lanes, none beside another that
\* changes what it changes.
Choose(chosen, t) ==
  LET taken == UNION {Task(id).resources : id \in {k \in chosen : Task(k).mutates}} IN
  IF /\ t.id \in issues /\ ~BehindLock(t) /\ Cardinality(chosen) < MaxLanes
     /\ t.mutates => t.resources \cap taken = {}
  THEN chosen \cup {t.id} ELSE chosen

Chosen[n \in 0..Len(Tasks)] == IF n = 0 THEN {} ELSE Choose(Chosen[n - 1], Tasks[n])
Selected == Chosen[Len(Tasks)]

ThroughputStatus ==
  CASE authority.desired = "PAUSED" -> "PAUSED"
    [] authority.desired = "ACTIVE" /\ authority.durable # "ACTIVE" -> "SYNC_AUTHORITY"
    [] OTHER ->
         IF Missing THEN "MISSING_VALIDATION_ROUTE"
         ELSE IF Active /\ validation.lock.scope = "GLOBAL" THEN "WAIT_EXTERNAL"
         ELSE IF Selected # {} THEN "ADVANCE"
         ELSE IF Active THEN "WAIT_EXTERNAL" ELSE "IDLE"

-----------------------------------------------------------------------------
(* lifecycle.                                                               *)

AllComplete == \A i \in DOMAIN ScanOrder : scans[i].complete
AllClear == \A i \in DOMAIN ScanOrder : scans[i].count = 0

\* Mutation of SameToken: the token is made of the observation as well.
SameTokenOfCycle == candidate.scope = scope /\ candidate.now
\* The token is that of the controller and its scope.
SameToken == candidate.scope = scope

\* Mutation of Later: the cycle that found the candidate may confirm it.
LaterAny == TRUE
\* The candidate is that of an earlier observation.
Later == ~candidate.now

LifecycleStatus ==
  CASE authority.desired = "PAUSED" -> "PAUSED"
    [] authority.desired # "PAUSED" /\ ~AllComplete -> "WAIT"
    [] OTHER ->
         IF scans[1].count # scans[2].count THEN "WAIT"
         ELSE IF ~AllClear THEN "ACTIVE"
         ELSE IF candidate = None THEN "TERMINAL_CANDIDATE"
         ELSE IF SameToken /\ Later THEN "VERIFIED_COMPLETE" ELSE "TERMINAL_CANDIDATE"

-----------------------------------------------------------------------------
(* The controller.                                                          *)

NoProbes == [s \in Surfaces |-> NotRun]

Goto(next) == step' = next /\ UNCHANGED <<planned, probe, scans>>

\* What the cycle has collected is thrown away with it.
EndCycle ==
  /\ step' = "idle" /\ planned' = {} /\ probe' = NoProbes /\ todo' = {} /\ scans' = <<>>
  /\ old' = {} /\ held' = {} /\ locked' = None

\* The burst is over, and the scans begin.
BeginScans ==
  /\ step' = "scan" /\ planned' = {} /\ probe' = NoProbes /\ todo' = {} /\ scans' = <<>>
  /\ old' = {} /\ held' = OpenWork' /\ locked' = None

\* The next cycle: a candidate it finds is that of an earlier one.
Wake ==
  /\ step = "idle" /\ off = None
  /\ planned' \in SUBSET Mutable
  /\ step' = "refresh"
  /\ candidate' = IF candidate = None THEN None ELSE [candidate EXCEPT !.now = FALSE]
  /\ old' = stale
  /\ cleared' = [s \in Scopes |-> IF cleared[s] = "now" THEN "before" ELSE cleared[s]]
  /\ UNCHANGED <<world, trusted, verified, off, probe, todo, scans, held, locked>>

Refresh ==
  /\ step = "refresh"
  /\ CASE RefreshStatus = "FULL_REFRESH_REQUIRED" ->
            Goto("read") /\ todo' = Surfaces /\ trusted' = "reading" /\ UNCHANGED history
       [] RefreshStatus = "PROBE_BLOCKED" ->
            \* repaired, or held until the next cycle
            /\ \/ /\ probe' = [s \in Surfaces |-> IF s \in Blocked THEN NotRun ELSE probe[s]]
                  /\ UNCHANGED <<step, planned, todo, scans, history>>
               \/ ~quiet /\ EndCycle /\ UNCHANGED cleared
            /\ UNCHANGED trusted
       [] RefreshStatus = "PROBE_REQUIRED" ->
            Goto("probe") /\ todo' = Unprobed /\ UNCHANGED <<trusted, history>>
       [] RefreshStatus = "DELTA_REFRESH" ->
            Goto("read") /\ todo' = Changed /\ UNCHANGED <<trusted, history>>
       [] OTHER ->
            \* PREWRITE_ONLY too: what is read again just before a write is left out
            /\ step' = "plan" /\ probe' = NoProbes
            /\ UNCHANGED <<planned, todo, scans, trusted, history>>
  /\ UNCHANGED <<world, verified, candidate, off>>

Probe ==
  /\ step = "probe"
  /\ \E s \in todo, state \in {"OK", "ERROR"} :
       /\ quiet => state = "OK"
       /\ probe' = [probe EXCEPT ![s] = [state |-> state, differs |-> s \in stale]]
       /\ todo' = todo \ {s}
       /\ verified' = IF s \in Pins \ stale /\ state = "OK" THEN verified \cup {s} ELSE verified
  /\ step' = IF todo' = {} THEN "refresh" ELSE "probe"
  /\ UNCHANGED <<world, trusted, candidate, off, planned, scans, history>>

\* What is read in detail is the checkpoint from now on.
ReadDetail ==
  /\ step = "read"
  /\ \E s \in todo :
       /\ stale' = stale \ {s} /\ old' = old \ {s}
       /\ todo' = todo \ {s}
       /\ probe' = [probe EXCEPT ![s] = [state |-> "OK", differs |-> FALSE]]
  /\ step' = IF todo' = {} THEN "refresh" ELSE "read"
  /\ trusted' = IF todo' = {} /\ trusted = "reading" THEN "yes" ELSE trusted
  /\ UNCHANGED <<issues, prs, terminal, validation, authority, scope, quiet>>
  /\ UNCHANGED <<verified, candidate, off, planned, scans, cleared, held, locked>>

Throughput ==
  /\ step = "plan"
  /\ UNCHANGED <<stale, issues, prs, terminal, scope, quiet, saved>>
  /\ CASE ThroughputStatus = "SYNC_AUTHORITY" ->
            /\ authority' = [authority EXCEPT !.durable = authority.desired]
            /\ UNCHANGED <<validation, cycle, history>>
       [] ThroughputStatus = "MISSING_VALIDATION_ROUTE" ->
            /\ validation' = [validation EXCEPT !.state = "active"]
            /\ UNCHANGED <<authority, cycle, history>>
       [] ThroughputStatus = "ADVANCE" ->
            /\ Goto("act") /\ todo' = Selected
            /\ locked' = IF Active THEN validation.lock ELSE None
            /\ UNCHANGED <<authority, validation, old, cleared, held>>
       [] OTHER -> BeginScans /\ UNCHANGED <<authority, validation, cleared>>

\* A lane ends: its issue and its pull request are open or not, and a change may
\* call for a validation of the new head, with a lock of its own.
RunLane ==
  /\ step = "act"
  /\ \E t \in ToSet(Tasks) :
       LET left == todo \ {t.id} IN
       /\ t.id \in todo
       /\ issues' \in {issues, issues \ {t.id}}
       /\ prs' \in IF t.mutates /\ ~quiet THEN {prs \cup {t.id}, prs \ {t.id}} ELSE {prs}
       /\ stale' = IF t.mutates THEN stale \cup t.resources ELSE stale
       /\ \/ UNCHANGED validation
          \/ /\ t.mutates /\ ~Active
             /\ \E k \in Locks : validation' = [state |-> "expected", lock |-> k]
       /\ \/ /\ step' = IF left = {} THEN "plan" ELSE "act"
             /\ todo' = left
             /\ UNCHANGED <<planned, probe, scans, old, held, locked>>
          \/ left = {} /\ BeginScans
  /\ UNCHANGED <<terminal, authority, scope, quiet, saved, cleared>>

\* An enumeration that is cut short counts at most what there is.
CountOf(name) ==
  CASE name \in {"primary", "confirmation"} -> Cardinality(issues)
    [] name = "active" -> Cardinality(prs)
    [] OTHER -> IF terminal THEN 0 ELSE 1

ReadScan ==
  /\ step = "scan" /\ Len(scans) < Len(ScanOrder)
  /\ \/ scans' = Append(scans, [complete |-> TRUE, count |-> CountOf(ScanOrder[Len(scans) + 1])])
     \/ ~quiet /\ scans' = Append(scans, [complete |-> FALSE, count |-> 0])
  /\ UNCHANGED <<world, saved, step, planned, probe, todo, history>>

Lifecycle ==
  /\ step = "scan" /\ Len(scans) = Len(ScanOrder)
  /\ UNCHANGED <<world, trusted, verified>>
  /\ IF LifecycleStatus = "TERMINAL_CANDIDATE"
     THEN \* persisted, and looked at once more in the same cycle or in the next
          /\ candidate' = [scope |-> scope, now |-> TRUE]
          /\ EndCycle \/ (~quiet /\ BeginScans)
          /\ UNCHANGED off
     ELSE /\ off' = CASE LifecycleStatus = "PAUSED" -> "paused"
                      [] LifecycleStatus = "VERIFIED_COMPLETE" -> "complete"
                      [] OTHER -> None
          /\ EndCycle /\ UNCHANGED candidate
  /\ cleared' = IF AllComplete /\ AllClear /\ cleared[scope] = "never"
                THEN [cleared EXCEPT ![scope] = "now"] ELSE cleared

\* The cycle ends here: the invocation is over, or it died.
CycleDies ==
  /\ step # "idle" /\ ~quiet /\ EndCycle
  /\ UNCHANGED <<world, saved, cleared>>

Controller ==
  Wake \/ Refresh \/ Probe \/ ReadDetail \/ Throughput \/ RunLane \/ ReadScan \/ Lifecycle

-----------------------------------------------------------------------------
(* Everybody else.                                                          *)

SurfaceChanges ==
  /\ \E s \in Mutable : stale' = stale \cup {s}
  /\ UNCHANGED <<issues, prs, terminal, validation, authority, scope, trusted>>

WorkChanges ==
  /\ \/ \E id \in TaskIds : issues' \in {issues \cup {id}, issues \ {id}} /\ UNCHANGED <<prs, terminal>>
     \/ \E id \in MutatingIds : prs' \in {prs \cup {id}, prs \ {id}} /\ UNCHANGED <<issues, terminal>>
     \/ terminal' = ~terminal /\ UNCHANGED <<issues, prs>>
  /\ UNCHANGED <<stale, validation, authority, scope, trusted>>

AuthorityChanges ==
  /\ \E a \in {"ACTIVE", "PAUSED"} : authority' = [authority EXCEPT !.desired = a]
  /\ UNCHANGED <<stale, issues, prs, terminal, validation, scope, trusted>>

\* Another scope, phase or rule revision: the checkpoint is not to be used.
ScopeChanges ==
  /\ scope' \in Scopes /\ trusted' = "no"
  /\ UNCHANGED <<stale, issues, prs, terminal, validation, authority>>

ValidationMoves ==
  /\ \/ validation.state = "expected" /\ validation' = [validation EXCEPT !.state = "active"]
     \/ validation.state = "active" /\ validation' = [validation EXCEPT !.state = "ended"]
  /\ UNCHANGED <<stale, issues, prs, terminal, authority, scope, trusted>>

\* All work is done, and the world stays as it is.
GoesQuiet ==
  /\ issues' = {} /\ prs' = {} /\ terminal' = TRUE /\ quiet' = TRUE
  /\ UNCHANGED <<stale, validation, authority, scope, trusted>>

\* A lock is watched until its run ends, and work until it is closed.
Environment ==
  /\ ~quiet
  /\ \/ /\ changes < MaxChanges /\ changes' = changes + 1
        /\ SurfaceChanges \/ WorkChanges \/ AuthorityChanges \/ ScopeChanges \/ ValidationMoves
        /\ UNCHANGED quiet
     \/ GoesQuiet /\ UNCHANGED changes
  /\ held' = held \cap OpenWork'
  /\ locked' = IF validation'.state = "active" THEN locked ELSE None
  /\ UNCHANGED <<verified, candidate, off, cycle, old, cleared>>

-----------------------------------------------------------------------------
Init ==
  /\ stale = Surfaces
  /\ issues = TaskIds /\ prs = {} /\ terminal = FALSE
  /\ validation = [state |-> "none", lock |-> None]
  /\ authority = [desired |-> "ACTIVE", durable |-> "PAUSED"]
  /\ scope \in Scopes
  /\ quiet = FALSE
  /\ trusted = "no" /\ verified = {} /\ candidate = None /\ off = None
  /\ step = "idle" /\ planned = {} /\ todo = {} /\ scans = <<>>
  /\ probe = NoProbes
  /\ old = {} /\ cleared = [s \in Scopes |-> "never"] /\ held = {} /\ locked = None /\ changes = 0

Steps == Controller \/ CycleDies

Next == (Steps /\ UNCHANGED changes) \/ Environment

Spec == Init /\ [][Next]_vars
\* The schedule goes on waking the controller, and it goes on with its cycle.
FairSpec == Spec /\ WF_vars(Controller /\ UNCHANGED changes)

-----------------------------------------------------------------------------
(* Properties.                                                              *)

TypeOK ==
  /\ stale \subseteq Surfaces /\ old \subseteq Surfaces
  /\ issues \subseteq TaskIds /\ prs \subseteq TaskIds /\ held \subseteq TaskIds \X {"issue", "pr"}
  /\ terminal \in BOOLEAN /\ quiet \in BOOLEAN
  /\ validation \in Validations /\ locked \in Locks \cup {None}
  /\ authority \in [desired : {"ACTIVE", "PAUSED"}, durable : {"ACTIVE", "PAUSED"}]
  /\ scope \in Scopes /\ candidate \in [scope : Scopes, now : BOOLEAN] \cup {None}
  /\ trusted \in {"no", "reading", "yes"} /\ verified \subseteq Pins
  /\ off \in {None, "paused", "complete"}
  /\ step \in {"idle", "refresh", "probe", "read", "plan", "act", "scan"}
  /\ planned \subseteq Mutable /\ probe \in [Surfaces -> Probes]
  /\ (step # "act" => todo \subseteq Surfaces) /\ scans \in Seq(Scan)
  /\ changes \in Nat
  /\ cleared \in [Scopes -> {"never", "now", "before"}]

\* A cycle does not plan, nor change anything, while what it knows of a surface it
\* decides by, or is about to change, was out of date when the cycle began: such a
\* surface it has read in between.  A failed probe, a cycle that died while it read,
\* or a change of rules never brings it past that (state_refresh.py:220).  What
\* changes after its probe is for the reads before the write, which are left out.
KnowsItsGround ==
  step \in {"plan", "act"} => old \cap (Critical \cup planned) = {}

\* Lanes of one burst change nothing that another of them changes, and nothing
\* that is locked by a validation which has been going on since they were
\* chosen, whatever became of the others meanwhile (throughput.py:160-178).
LanesApart ==
  step = "act" =>
    /\ \A a, b \in todo : a # b /\ Task(a).mutates /\ Task(b).mutates =>
         Task(a).resources \cap Task(b).resources = {}
    /\ \A a \in todo : locked # None /\ Task(a).mutates =>
         /\ locked.scope # "GLOBAL"
         /\ Task(a).resources \cap locked.resources = {}

\* The controller switches itself off as complete only when an earlier cycle
\* has found the same scope all clear, and no issue and no pull request has been
\* open all the time since its last scans began, however both came and went between
\* the reads (lifecycle.py:128-210).  The four scans are not one moment: work may
\* be opened after the scan that would have shown it.
CompletionEarned ==
  [][off = None /\ off' = "complete" => cleared[scope] = "before" /\ held = {}]_vars

\* When all work is done and nothing changes any more, the controller comes to
\* switch itself off, from whatever checkpoint and in the middle of whatever
\* cycle that happens (lifecycle.py:168-210).
RestsAtLast == quiet ~> off # None
=============================================================================
