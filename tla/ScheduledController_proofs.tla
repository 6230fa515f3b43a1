--------------------- MODULE ScheduledController_proofs ---------------------
(***************************************************************************)
(* Proofs about ScheduledController, for any surfaces, tasks, locks and    *)
(* bounds: types, that the controller acts on present readings, that the   *)
(* lanes keep apart, and that its completion is earned.                    *)
(*                                                                         *)
(* What is known of a surface is told by two sets: those whose content has *)
(* changed (stale), and those of them that had changed before the cycle    *)
(* began (old).  The invariant relates the readings to them (GroundOK),    *)
(* the scans to what was open meanwhile (ScansOK), and the candidate to    *)
(* the cycle that found it (CandidateOK).                                  *)
(***************************************************************************)
EXTENDS ScheduledController, FiniteSetTheorems, WellFoundedInduction, TLAPS

\* What is old has changed, a verified pin never does, and a surface that was
\* found unchanged in this cycle is not old.
GroundOK ==
  /\ old \subseteq stale
  /\ verified \cap stale = {}
  /\ step = "idle" => probe = NoProbes
  /\ step \in {"refresh", "probe", "read"} =>
       \A s \in Surfaces : probe[s].state = "OK" /\ ~probe[s].differs => s \notin old

\* Nothing that a complete scan has not found has been open since they began.
ScansOK ==
  /\ held \subseteq OpenWork
  /\ step # "scan" => held = {}
  /\ Len(scans) >= 1 /\ scans[1].complete /\ scans[1].count = 0 =>
       \A id \in TaskIds : <<id, "issue">> \notin held
  /\ Len(scans) >= 3 /\ scans[3].complete /\ scans[3].count = 0 =>
       \A id \in TaskIds : <<id, "pr">> \notin held

\* The cycle that found the candidate has found its scope clear.
CandidateOK ==
  candidate # None =>
    /\ cleared[candidate.scope] # "never"
    /\ ~candidate.now => cleared[candidate.scope] = "before"

Invariant == TypeOK /\ GroundOK /\ KnowsItsGround /\ ScansOK /\ CandidateOK

-----------------------------------------------------------------------------
(* The guards.                                                              *)

LEMMA TaskIdsFinite == IsFiniteSet(TaskIds)
<1> DEFINE f == [i \in 1..Len(Tasks) |-> Tasks[i].id]
<1>1. Len(Tasks) \in Nat /\ DOMAIN Tasks = 1..Len(Tasks)
  BY ConstantsAssumption
<1>2. IsFiniteSet(1..Len(Tasks))
  BY <1>1, FS_Interval
<1>3. f \in Surjection(1..Len(Tasks), TaskIds)
  BY <1>1 DEF Surjection, TaskIds
<1> QED BY <1>2, <1>3, FS_Surjection

\* A set of tasks has no members if it is counted as none.
LEMMA CountedAsNone ==
  ASSUME NEW S \in SUBSET TaskIds, Cardinality(S) = 0
  PROVE  S = {}
BY TaskIdsFinite, FS_Subset, FS_EmptySet

LEMMA CountsAreNumbers ==
  ASSUME NEW S \in SUBSET TaskIds
  PROVE  Cardinality(S) \in Nat
BY TaskIdsFinite, FS_Subset, FS_CardinalityType

\* What a task changes is a mutable surface.
LEMMA TaskResources ==
  ASSUME NEW t \in ToSet(Tasks)
  PROVE  t.id \in TaskIds /\ t.resources \subseteq Mutable
BY ConstantsAssumption DEF ToSet, TaskIds

\* The refresh guard lets a cycle plan only when everything it decides by and does
\* not know for good was probed, and found as it is in the checkpoint.
LEMMA ReadyToPlan ==
  ASSUME TypeOK,
         RefreshStatus \in {"PREWRITE_ONLY", "CHECKPOINT_CURRENT"}
  PROVE  \A s \in Critical \cup planned : s \notin verified =>
           probe[s].state = "OK" /\ ~probe[s].differs
<1>1. trusted = "yes" /\ Blocked = {} /\ Unprobed = {} /\ Changed = {}
  BY DEF RefreshStatus
<1>2. SUFFICES ASSUME NEW s \in Critical \cup planned, s \notin verified
               PROVE  probe[s].state = "OK" /\ ~probe[s].differs
  OBVIOUS
<1>3. s \in Surfaces /\ ~Skipped(s)
  BY <1>2, ConstantsAssumption DEF TypeOK, Surfaces, Skipped, Relevant
<1>4. probe[s].state \in {"NOT_RUN", "OK", "ERROR"} /\ probe[s].differs \in BOOLEAN
  BY <1>3 DEF TypeOK, Probes
<1>5. probe[s].state # "NOT_RUN" /\ probe[s].state # "ERROR"
  BY <1>1, <1>3 DEF Blocked, Unprobed, InState
<1>6. ~probe[s].differs
  BY <1>1, <1>3, <1>4, <1>5 DEF Changed, InState
<1> QED BY <1>4, <1>5, <1>6

-----------------------------------------------------------------------------
(* What a step of the controller does, told apart by what its guard said.   *)

LEMMA RefreshStep ==
  ASSUME TypeOK, Refresh
  PROVE  /\ UNCHANGED <<world, verified, candidate, off, cleared>>
         /\ step = "refresh" /\ trusted' \in {trusted, "reading"}
         /\ \/ /\ step' \in {"read", "probe"} /\ todo' \subseteq Surfaces
               /\ UNCHANGED <<planned, probe, scans, old, held, locked>>
            \/ /\ probe' = [s \in Surfaces |-> IF s \in Blocked THEN NotRun ELSE probe[s]]
               /\ UNCHANGED <<step, planned, todo, scans, old, held, locked>>
            \/ EndCycle
            \/ /\ RefreshStatus \in {"PREWRITE_ONLY", "CHECKPOINT_CURRENT"}
               /\ step' = "plan" /\ probe' = NoProbes
               /\ UNCHANGED <<planned, todo, scans, old, held, locked>>
<1>1. RefreshStatus \in {"FULL_REFRESH_REQUIRED", "PROBE_BLOCKED", "PROBE_REQUIRED",
                         "DELTA_REFRESH", "PREWRITE_ONLY", "CHECKPOINT_CURRENT"}
  BY DEF RefreshStatus
<1>2. Unprobed \subseteq Surfaces /\ Changed \subseteq Surfaces
  BY DEF Unprobed, Changed, InState
<1>3. UNCHANGED <<world, verified, candidate, off>> /\ step = "refresh"
  BY DEF Refresh
<1>4. CASE RefreshStatus = "FULL_REFRESH_REQUIRED"
  BY <1>3, <1>4 DEF Refresh, Goto, history
<1>5. CASE RefreshStatus = "PROBE_BLOCKED"
  BY <1>3, <1>5 DEF Refresh, history
<1>6. CASE RefreshStatus = "PROBE_REQUIRED"
  BY <1>2, <1>3, <1>6 DEF Refresh, Goto, history
<1>7. CASE RefreshStatus = "DELTA_REFRESH"
  BY <1>2, <1>3, <1>7 DEF Refresh, Goto, history
<1>8. CASE RefreshStatus \in {"PREWRITE_ONLY", "CHECKPOINT_CURRENT"}
  BY <1>3, <1>8 DEF Refresh, history
<1> QED BY <1>1, <1>4, <1>5, <1>6, <1>7, <1>8

LEMMA ThroughputStep ==
  ASSUME TypeOK, Throughput
  PROVE  /\ UNCHANGED <<stale, issues, prs, terminal, scope, quiet, saved, cleared>>
         /\ step = "plan"
         /\ authority' \in [desired : {"ACTIVE", "PAUSED"}, durable : {"ACTIVE", "PAUSED"}]
         /\ validation' \in Validations
         /\ \/ UNCHANGED <<cycle, old, held, locked>>
            \/ /\ step' = "act" /\ locked' \in Locks \cup {None}
               /\ UNCHANGED <<planned, probe, scans, old, held>>
            \/ BeginScans
<1>1. UNCHANGED <<stale, issues, prs, terminal, scope, quiet, saved>> /\ step = "plan"
  BY DEF Throughput
<1>2. CASE ThroughputStatus = "SYNC_AUTHORITY"
  BY <1>1, <1>2 DEF Throughput, TypeOK, history
<1>3. CASE ThroughputStatus = "MISSING_VALIDATION_ROUTE"
  BY <1>1, <1>3 DEF Throughput, TypeOK, Validations, history
<1>4. CASE ThroughputStatus = "ADVANCE"
  BY <1>1, <1>4 DEF Throughput, TypeOK, Validations, Goto
<1>5. CASE ThroughputStatus \notin {"SYNC_AUTHORITY", "MISSING_VALIDATION_ROUTE", "ADVANCE"}
  BY <1>1, <1>5 DEF Throughput, TypeOK
<1> QED BY <1>2, <1>3, <1>4, <1>5

\* The lifecycle guard has a candidate, or confirms one, only when every scan was
\* complete and found nothing.
LEMMA LifecycleStep ==
  ASSUME TypeOK, Lifecycle
  PROVE  /\ UNCHANGED <<world, trusted, verified>> /\ step = "scan" /\ Len(scans) = 4
         /\ EndCycle \/ BeginScans
         /\ cleared' = IF AllComplete /\ AllClear /\ cleared[scope] = "never"
                       THEN [cleared EXCEPT ![scope] = "now"] ELSE cleared
         /\ \/ /\ AllComplete /\ AllClear
               /\ candidate' = [scope |-> scope, now |-> TRUE] /\ UNCHANGED off
            \/ /\ AllComplete /\ AllClear /\ candidate # None /\ SameToken /\ Later
               /\ off' = "complete" /\ UNCHANGED candidate
            \/ off' \in {None, "paused"} /\ UNCHANGED candidate
<1>1. /\ UNCHANGED <<world, trusted, verified>> /\ step = "scan" /\ Len(scans) = 4
      /\ cleared' = IF AllComplete /\ AllClear /\ cleared[scope] = "never"
                    THEN [cleared EXCEPT ![scope] = "now"] ELSE cleared
  BY DEF Lifecycle, ScanOrder
<1>2. CASE LifecycleStatus = "TERMINAL_CANDIDATE"
  <2>1. AllComplete /\ AllClear
    BY <1>2 DEF LifecycleStatus
  <2> QED BY <1>1, <1>2, <2>1 DEF Lifecycle
<1>3. CASE LifecycleStatus = "VERIFIED_COMPLETE"
  <2>1. AllComplete /\ AllClear /\ candidate # None /\ SameToken /\ Later
    BY <1>3 DEF LifecycleStatus
  <2> QED BY <1>1, <1>3, <2>1 DEF Lifecycle
<1>4. CASE LifecycleStatus \notin {"TERMINAL_CANDIDATE", "VERIFIED_COMPLETE"}
  BY <1>1, <1>4 DEF Lifecycle
<1> QED BY <1>2, <1>3, <1>4

-----------------------------------------------------------------------------
(* Types.                                                                   *)

LEMMA NoProbesType == NoProbes \in [Surfaces -> Probes]
BY DEF NoProbes, NotRun, Probes

LEMMA TypeInit == Init => TypeOK
<1> SUFFICES ASSUME Init PROVE TypeOK
  OBVIOUS
<1>1. /\ probe \in [Surfaces -> Probes] /\ validation \in Validations
      /\ cleared \in [Scopes -> {"never", "now", "before"}] /\ scans \in Seq(Scan)
  BY NoProbesType DEF Init, Validations
<1>2. /\ authority \in [desired : {"ACTIVE", "PAUSED"}, durable : {"ACTIVE", "PAUSED"}]
      /\ scope \in Scopes /\ candidate = None /\ locked = None
  BY DEF Init
<1> QED BY <1>1, <1>2 DEF Init, TypeOK

LEMMA EndCycleType ==
  ASSUME TypeOK, EndCycle
  PROVE  /\ step' = "idle" /\ planned' \subseteq Mutable /\ probe' \in [Surfaces -> Probes]
         /\ todo' \subseteq Surfaces /\ scans' \in Seq(Scan) /\ old' = {} /\ held' = {}
         /\ locked' = None
BY NoProbesType DEF EndCycle

LEMMA BeginScansType ==
  ASSUME TypeOK, BeginScans, issues' \subseteq TaskIds, prs' \subseteq TaskIds
  PROVE  /\ step' = "scan" /\ planned' \subseteq Mutable /\ probe' \in [Surfaces -> Probes]
         /\ todo' \subseteq Surfaces /\ scans' \in Seq(Scan) /\ old' = {}
         /\ held' \subseteq TaskIds \X {"issue", "pr"}
         /\ locked' = None
BY NoProbesType DEF BeginScans, OpenWork

LEMMA TypeStep == TypeOK /\ [Next]_vars => TypeOK'
<1> SUFFICES ASSUME TypeOK, [Next]_vars
             PROVE  TypeOK'
  OBVIOUS
<1>1. CASE Wake /\ UNCHANGED changes
  <2>1. candidate' \in [scope : Scopes, now : BOOLEAN] \cup {None}
    BY <1>1 DEF Wake, TypeOK
  <2>2. cleared' \in [Scopes -> {"never", "now", "before"}]
    BY <1>1 DEF Wake, TypeOK
  <2> QED BY <1>1, <2>1, <2>2 DEF Wake, TypeOK, world
<1>2. CASE Refresh /\ UNCHANGED changes
  <2>1. [s \in Surfaces |-> IF s \in Blocked THEN NotRun ELSE probe[s]] \in [Surfaces -> Probes]
    BY DEF TypeOK, NotRun, Probes
  <2>2. CASE EndCycle
    BY <1>2, <2>2, RefreshStep, EndCycleType DEF TypeOK, world
  <2>3. CASE ~EndCycle
    <3>1. /\ probe' \in [Surfaces -> Probes] /\ todo' \subseteq Surfaces
          /\ step' \in {"read", "probe", "refresh", "plan"}
          /\ trusted' \in {"no", "reading", "yes"}
          /\ UNCHANGED <<planned, scans, old, held, locked>>
      BY <1>2, <2>1, <2>3, RefreshStep, NoProbesType DEF TypeOK
    <3> QED BY <1>2, <3>1, RefreshStep DEF TypeOK, world
  <2> QED BY <2>2, <2>3
<1>3. CASE Probe /\ UNCHANGED changes
  <2>1. PICK s \in todo, state \in {"OK", "ERROR"} :
          /\ probe' = [probe EXCEPT ![s] = [state |-> state, differs |-> s \in stale]]
          /\ todo' = todo \ {s}
          /\ verified' = IF s \in Pins \ stale /\ state = "OK" THEN verified \cup {s} ELSE verified
    BY <1>3 DEF Probe
  <2>2. probe' \in [Surfaces -> Probes] /\ verified' \subseteq Pins
    <3>1. step = "probe" /\ s \in Surfaces /\ probe \in [Surfaces -> Probes]
      BY <1>3 DEF Probe, TypeOK
    <3>2. [state |-> state, differs |-> s \in stale] \in Probes
      BY DEF Probes
    <3> QED BY <2>1, <3>1, <3>2 DEF TypeOK
  <2>3. step' \in {"refresh", "probe"} /\ todo' \subseteq Surfaces
    BY <1>3, <2>1 DEF Probe, TypeOK
  <2> QED BY <1>3, <2>2, <2>3 DEF Probe, TypeOK, world, history
<1>4. CASE ReadDetail /\ UNCHANGED changes
  <2>1. PICK s \in todo :
          /\ stale' = stale \ {s} /\ old' = old \ {s} /\ todo' = todo \ {s}
          /\ probe' = [probe EXCEPT ![s] = [state |-> "OK", differs |-> FALSE]]
    BY <1>4 DEF ReadDetail
  <2>2. probe' \in [Surfaces -> Probes]
    BY <2>1 DEF TypeOK, Probes
  <2>3. step' \in {"refresh", "read"} /\ todo' \subseteq Surfaces /\ trusted' \in {trusted, "yes"}
    BY <1>4, <2>1 DEF ReadDetail, TypeOK
  <2> QED BY <1>4, <2>1, <2>2, <2>3 DEF ReadDetail, TypeOK
<1>5. CASE Throughput /\ UNCHANGED changes
  <2>1. CASE BeginScans
    BY <1>5, <2>1, ThroughputStep, BeginScansType DEF TypeOK, saved
  <2>2. CASE ~BeginScans
    BY <1>5, <2>2, ThroughputStep DEF TypeOK, saved, cycle
  <2> QED BY <2>1, <2>2
<1>6. CASE RunLane /\ UNCHANGED changes
  <2>1. PICK t \in ToSet(Tasks) :
          /\ issues' \in {issues, issues \ {t.id}}
          /\ prs' \in IF t.mutates /\ ~quiet THEN {prs \cup {t.id}, prs \ {t.id}} ELSE {prs}
          /\ stale' = IF t.mutates THEN stale \cup t.resources ELSE stale
          /\ \/ UNCHANGED validation
             \/ \E k \in Locks : validation' = [state |-> "expected", lock |-> k]
          /\ \/ /\ step' = IF todo \ {t.id} = {} THEN "plan" ELSE "act"
                /\ todo' = todo \ {t.id}
                /\ UNCHANGED <<planned, probe, scans, old, held, locked>>
             \/ BeginScans
    BY <1>6 DEF RunLane
  <2>2. issues' \subseteq TaskIds /\ prs' \subseteq TaskIds /\ stale' \subseteq Surfaces
    BY <2>1, TaskResources DEF TypeOK, Surfaces
  <2>3. validation' \in Validations
    BY <2>1 DEF TypeOK, Validations
  <2>4. CASE BeginScans
    BY <1>6, <2>2, <2>3, <2>4, BeginScansType DEF RunLane, TypeOK, saved
  <2>5. CASE ~BeginScans
    BY <1>6, <2>1, <2>2, <2>3, <2>5 DEF RunLane, TypeOK, saved
  <2> QED BY <2>4, <2>5
<1>7. CASE ReadScan /\ UNCHANGED changes
  <2>1. \A name : CountOf(name) \in Nat
    BY CountsAreNumbers DEF CountOf, TypeOK
  <2>2. PICK entry : scans' = Append(scans, entry)
                     /\ \/ \E name : entry = [complete |-> TRUE, count |-> CountOf(name)]
                        \/ entry = [complete |-> FALSE, count |-> 0]
    BY <1>7 DEF ReadScan
  <2>3. entry \in Scan
    <3>1. \A n \in Nat, b \in BOOLEAN : [complete |-> b, count |-> n] \in Scan
      BY DEF Scan
    <3> QED BY <2>1, <2>2, <3>1
  <2>4. scans' \in Seq(Scan)
    BY <2>2, <2>3 DEF TypeOK
  <2> QED BY <1>7, <2>4 DEF ReadScan, TypeOK, world, saved, history
<1>8. CASE Lifecycle /\ UNCHANGED changes
  <2>1. candidate' \in [scope : Scopes, now : BOOLEAN] \cup {None} /\ off' \in {None, "paused", "complete"}
    <3>1. scope \in Scopes /\ [scope |-> scope, now |-> TRUE] \in [scope : Scopes, now : BOOLEAN]
      BY DEF TypeOK
    <3> HIDE DEF AllComplete, AllClear, SameToken, Later
    <3> QED BY <1>8, <3>1, LifecycleStep DEF TypeOK
  <2>2. cleared' \in [Scopes -> {"never", "now", "before"}]
    BY <1>8, LifecycleStep DEF TypeOK
  <2>3. UNCHANGED world /\ UNCHANGED <<trusted, verified>> /\ (EndCycle \/ BeginScans)
    BY <1>8, LifecycleStep
  <2>4. CASE EndCycle
    BY <1>8, <2>1, <2>2, <2>3, <2>4, EndCycleType DEF TypeOK, world
  <2>5. CASE BeginScans
    BY <1>8, <2>1, <2>2, <2>3, <2>5, BeginScansType DEF TypeOK, world
  <2> QED BY <2>3, <2>4, <2>5
<1>9. CASE CycleDies /\ UNCHANGED changes
  BY <1>9, EndCycleType DEF CycleDies, TypeOK, world, saved
<1>10. CASE Environment
  <2>1. stale' \subseteq Surfaces /\ issues' \subseteq TaskIds /\ prs' \subseteq TaskIds /\ terminal' \in BOOLEAN
    BY <1>10 DEF Environment, SurfaceChanges, WorkChanges, AuthorityChanges, ScopeChanges,
                 ValidationMoves, GoesQuiet, TypeOK, Surfaces, MutatingIds
  <2>2. validation' \in Validations
    BY <1>10 DEF Environment, SurfaceChanges, WorkChanges, AuthorityChanges, ScopeChanges,
                 ValidationMoves, GoesQuiet, TypeOK, Validations
  <2>3. authority' \in [desired : {"ACTIVE", "PAUSED"}, durable : {"ACTIVE", "PAUSED"}]
    <3>1. \/ UNCHANGED authority
          \/ \E a \in {"ACTIVE", "PAUSED"} : authority' = [authority EXCEPT !.desired = a]
      BY <1>10 DEF Environment, SurfaceChanges, WorkChanges, AuthorityChanges, ScopeChanges,
                   ValidationMoves, GoesQuiet
    <3> QED BY <3>1 DEF TypeOK
  <2>4. scope' \in Scopes /\ trusted' \in {"no", "reading", "yes"}
    BY <1>10 DEF Environment, SurfaceChanges, WorkChanges, AuthorityChanges, ScopeChanges,
                 ValidationMoves, GoesQuiet, TypeOK
  <2>5. quiet' \in BOOLEAN /\ changes' \in Nat
    <3>1. quiet' \in BOOLEAN
      BY <1>10, Zenon DEF Environment, GoesQuiet, TypeOK
    <3>2. changes' = changes \/ changes' = changes + 1
      BY <1>10 DEF Environment
    <3> QED BY <3>1, <3>2 DEF TypeOK
  <2>6. held' \subseteq held /\ locked' \in {locked, None}
    BY <1>10 DEF Environment
  <2> QED BY <1>10, <2>1, <2>2, <2>3, <2>4, <2>5, <2>6 DEF Environment, TypeOK, cycle
<1>11. CASE UNCHANGED vars
  BY <1>11 DEF TypeOK, vars, world, saved, cycle, history
<1> QED
  BY <1>1, <1>2, <1>3, <1>4, <1>5, <1>6, <1>7, <1>8, <1>9, <1>10, <1>11
     DEF Next, Steps, Controller

-----------------------------------------------------------------------------
(* What the controller knows of the surfaces.                               *)

Ground == GroundOK /\ KnowsItsGround

\* A cycle that is thrown away, or has come to its scans, relies on nothing.
LEMMA NothingOld ==
  ASSUME Ground, EndCycle \/ BeginScans, stale' = stale, verified' = verified
  PROVE  Ground'
BY DEF Ground, GroundOK, KnowsItsGround, EndCycle, BeginScans, NoProbes

\* What changes is mutable, and what is pinned stays verified.
LEMMA ChangesStayOffPins ==
  ASSUME TypeOK, Ground, UNCHANGED <<old, verified, step, probe, planned>>,
         stale \subseteq stale', stale' \subseteq stale \cup Mutable
  PROVE  Ground'
BY ConstantsAssumption DEF TypeOK, Ground, GroundOK, KnowsItsGround

LEMMA GroundStep == TypeOK /\ Ground /\ [Next]_vars => Ground'
<1> SUFFICES ASSUME TypeOK, Ground, [Next]_vars
             PROVE  Ground'
  OBVIOUS
<1>1. CASE Wake /\ UNCHANGED changes
  <2>1. step' = "refresh" /\ old' = stale /\ UNCHANGED <<stale, verified, probe>> /\ probe = NoProbes
    BY <1>1 DEF Wake, world, Ground, GroundOK
  <2> QED BY <2>1 DEF Ground, GroundOK, KnowsItsGround, NoProbes, NotRun
<1>2. CASE Refresh /\ UNCHANGED changes
  <2>1. step = "refresh" /\ stale' = stale /\ verified' = verified
    BY <1>2, RefreshStep DEF world
  <2>2. CASE EndCycle
    BY <2>1, <2>2, NothingOld
  <2>3. CASE /\ step' \in {"read", "probe"}
             /\ UNCHANGED <<planned, probe, scans, old, held, locked>>
    BY <2>1, <2>3 DEF Ground, GroundOK, KnowsItsGround
  <2>4. CASE /\ probe' = [s \in Surfaces |-> IF s \in Blocked THEN NotRun ELSE probe[s]]
             /\ UNCHANGED <<step, planned, todo, scans, old, held, locked>>
    BY <2>1, <2>4 DEF Ground, GroundOK, KnowsItsGround, NotRun
  <2>5. CASE /\ RefreshStatus \in {"PREWRITE_ONLY", "CHECKPOINT_CURRENT"}
             /\ step' = "plan" /\ probe' = NoProbes
             /\ UNCHANGED <<planned, todo, scans, old, held, locked>>
    <3>1. \A s \in Critical \cup planned : s \in verified \/ s \notin old
      BY <2>1, <2>5, ReadyToPlan, ConstantsAssumption
         DEF Ground, GroundOK, TypeOK, Surfaces
    <3>2. old \cap (Critical \cup planned) = {}
      BY <3>1 DEF Ground, GroundOK
    <3> QED BY <2>1, <2>5, <3>2 DEF Ground, GroundOK, KnowsItsGround
  <2> QED BY <1>2, <2>2, <2>3, <2>4, <2>5, RefreshStep
<1>3. CASE Probe /\ UNCHANGED changes
  <2>1. PICK s \in todo, state \in {"OK", "ERROR"} :
          /\ probe' = [probe EXCEPT ![s] = [state |-> state, differs |-> s \in stale]]
          /\ verified' = IF s \in Pins \ stale /\ state = "OK" THEN verified \cup {s} ELSE verified
    BY <1>3 DEF Probe
  <2>2. step' \in {"refresh", "probe"} /\ step = "probe" /\ UNCHANGED <<stale, old>>
    BY <1>3 DEF Probe, world, history
  <2>3. probe \in [Surfaces -> Probes] /\ \A r \in Surfaces \ {s} : probe'[r] = probe[r]
    BY <2>1 DEF TypeOK
  <2>4. s \in Surfaces => (~probe'[s].differs => s \notin stale)
    BY <2>1, <2>3
  <2> QED BY <2>1, <2>2, <2>3, <2>4 DEF Ground, GroundOK, KnowsItsGround
<1>4. CASE ReadDetail /\ UNCHANGED changes
  <2>1. PICK s \in todo :
          /\ stale' = stale \ {s} /\ old' = old \ {s}
          /\ probe' = [probe EXCEPT ![s] = [state |-> "OK", differs |-> FALSE]]
    BY <1>4 DEF ReadDetail
  <2>2. step' \in {"refresh", "read"} /\ step = "read" /\ verified' = verified
    BY <1>4 DEF ReadDetail
  <2>3. \A r \in Surfaces \ {s} : probe'[r] = probe[r]
    BY <2>1 DEF TypeOK
  <2> QED BY <2>1, <2>2, <2>3 DEF Ground, GroundOK, KnowsItsGround
<1>5. CASE Throughput /\ UNCHANGED changes
  <2>1. CASE BeginScans
    BY <1>5, <2>1, ThroughputStep, NothingOld DEF saved
  <2>2. CASE ~BeginScans
    BY <1>5, <2>2, ThroughputStep DEF Ground, GroundOK, KnowsItsGround, saved, cycle
  <2> QED BY <2>1, <2>2
<1>6. CASE RunLane /\ UNCHANGED changes
  <2>1. PICK t \in ToSet(Tasks) :
          /\ stale' = IF t.mutates THEN stale \cup t.resources ELSE stale
          /\ \/ /\ step' \in {"plan", "act"}
                /\ UNCHANGED <<planned, probe, old>>
             \/ BeginScans
    BY <1>6 DEF RunLane
  <2>2. stale \subseteq stale' /\ stale' \subseteq stale \cup Mutable
    BY <2>1, TaskResources
  <2>3. verified' = verified /\ step = "act" /\ verified \cap stale' = {}
    BY <1>6, <2>2, ConstantsAssumption DEF RunLane, saved, TypeOK, Ground, GroundOK
  <2>4. CASE BeginScans
    BY <2>2, <2>3, <2>4 DEF Ground, GroundOK, KnowsItsGround, BeginScans
  <2>5. CASE ~BeginScans
    BY <2>1, <2>2, <2>3, <2>5 DEF Ground, GroundOK, KnowsItsGround
  <2> QED BY <2>4, <2>5
<1>7. CASE ReadScan /\ UNCHANGED changes
  BY <1>7 DEF ReadScan, world, saved, history, Ground, GroundOK, KnowsItsGround
<1>8. CASE Lifecycle /\ UNCHANGED changes
  BY <1>8, LifecycleStep, NothingOld DEF world
<1>9. CASE CycleDies /\ UNCHANGED changes
  BY <1>9, NothingOld DEF CycleDies, world, saved
<1>10. CASE Environment
  <2>1. stale \subseteq stale' /\ stale' \subseteq stale \cup Mutable
    BY <1>10 DEF Environment, SurfaceChanges, WorkChanges, AuthorityChanges, ScopeChanges,
                 ValidationMoves, GoesQuiet
  <2> QED BY <1>10, <2>1, ChangesStayOffPins DEF Environment, cycle
<1>11. CASE UNCHANGED vars
  BY <1>11 DEF vars, world, saved, cycle, history, Ground, GroundOK, KnowsItsGround
<1> QED
  BY <1>1, <1>2, <1>3, <1>4, <1>5, <1>6, <1>7, <1>8, <1>9, <1>10, <1>11
     DEF Next, Steps, Controller

-----------------------------------------------------------------------------
(* What the scans have seen.                                                *)

\* Scans that are thrown away, or begin, have seen nothing.
LEMMA NothingScanned ==
  ASSUME EndCycle \/ BeginScans
  PROVE  ScansOK'
BY DEF ScansOK, EndCycle, BeginScans

\* As time goes by, less of what was open has been open all the time.
LEMMA HeldShrinks ==
  ASSUME ScansOK, held' \subseteq held, held' \subseteq OpenWork', UNCHANGED <<step, scans>>
  PROVE  ScansOK'
BY DEF ScansOK

\* Before and after a step of the cycle that has nothing to do with the scans.
LEMMA NoScanning ==
  ASSUME ScansOK, UNCHANGED <<held, scans>>, step # "scan"
  PROVE  ScansOK'
BY DEF ScansOK

LEMMA WhatIsOpen ==
  \A id : /\ <<id, "issue">> \in OpenWork <=> id \in issues
          /\ <<id, "pr">> \in OpenWork <=> id \in prs
BY DEF OpenWork

LEMMA ScansStep == TypeOK /\ ScansOK /\ [Next]_vars => ScansOK'
<1> SUFFICES ASSUME TypeOK, ScansOK, [Next]_vars
             PROVE  ScansOK'
  OBVIOUS
<1>1. CASE Wake /\ UNCHANGED changes
  BY <1>1, NoScanning DEF Wake
<1>2. CASE Refresh /\ UNCHANGED changes
  BY <1>2, RefreshStep, NoScanning, NothingScanned
<1>3. CASE Probe /\ UNCHANGED changes
  BY <1>3, NoScanning DEF Probe, history
<1>4. CASE ReadDetail /\ UNCHANGED changes
  BY <1>4, NoScanning DEF ReadDetail
<1>5. CASE Throughput /\ UNCHANGED changes
  BY <1>5, ThroughputStep, NoScanning, NothingScanned DEF cycle
<1>6. CASE RunLane /\ UNCHANGED changes
  <2>1. BeginScans \/ UNCHANGED <<held, scans>>
    BY <1>6 DEF RunLane
  <2> QED BY <1>6, <2>1, NoScanning, NothingScanned DEF RunLane
<1>7. CASE ReadScan /\ UNCHANGED changes
  <2>1. /\ step = "scan" /\ step' = "scan" /\ held' = held
        /\ issues' = issues /\ prs' = prs /\ Len(scans) < 4
    BY <1>7 DEF ReadScan, ScanOrder, world, history
  <2>2. OpenWork' = OpenWork
    BY <2>1 DEF OpenWork
  <2>3. PICK entry :
          /\ scans' = Append(scans, entry)
          /\ entry.complete => entry.count = CountOf(ScanOrder[Len(scans) + 1])
    BY <1>7 DEF ReadScan
  <2>4. scans \in Seq(Scan) /\ Len(scans) \in Nat
    BY DEF TypeOK
  <2>5. /\ Len(scans') = Len(scans) + 1 /\ scans'[Len(scans) + 1] = entry
        /\ \A i \in 1..Len(scans) : scans'[i] = scans[i]
    BY <2>3, <2>4
  <2>6. ASSUME Len(scans') >= 1, scans'[1].complete, scans'[1].count = 0
        PROVE  \A id \in TaskIds : <<id, "issue">> \notin held'
    <3>1. CASE Len(scans) = 0
      <4>1. CountOf(ScanOrder[1]) = Cardinality(issues)
        BY DEF CountOf, ScanOrder
      <4>2. issues = {}
        BY <2>3, <2>5, <2>6, <3>1, <4>1, CountedAsNone DEF TypeOK
      <4>3. held \subseteq OpenWork
        BY DEF ScansOK
      <4> QED BY <2>1, <4>2, <4>3, WhatIsOpen
    <3>2. CASE Len(scans) >= 1
      <4>1. scans[1] = scans'[1]
        BY <2>4, <2>5, <3>2
      <4>2. scans[1].complete /\ scans[1].count = 0
        BY <2>6, <4>1
      <4> QED BY <2>1, <3>2, <4>2, Zenon DEF ScansOK
    <3>3. Len(scans) = 0 \/ Len(scans) >= 1
      BY <2>4
    <3> QED BY <3>1, <3>2, <3>3, Zenon
  <2>7. ASSUME Len(scans') >= 3, scans'[3].complete, scans'[3].count = 0
        PROVE  \A id \in TaskIds : <<id, "pr">> \notin held'
    <3>1. CASE Len(scans) = 2
      <4>1. CountOf(ScanOrder[3]) = Cardinality(prs)
        BY DEF CountOf, ScanOrder
      <4>2. prs = {}
        BY <2>3, <2>5, <2>7, <3>1, <4>1, CountedAsNone DEF TypeOK
      <4>3. held \subseteq OpenWork
        BY DEF ScansOK
      <4> QED BY <2>1, <4>2, <4>3, WhatIsOpen
    <3>2. CASE Len(scans) >= 3
      <4>1. scans[3] = scans'[3]
        BY <2>4, <2>5, <3>2
      <4>2. scans[3].complete /\ scans[3].count = 0
        BY <2>7, <4>1
      <4> QED BY <2>1, <3>2, <4>2, Zenon DEF ScansOK
    <3>3. Len(scans) = 2 \/ Len(scans) >= 3
      <4>1. Len(scans') >= 3
        BY <2>7, Zenon
      <4>2. Len(scans') = Len(scans) + 1
        BY <2>5, Zenon
      <4>3. \A n \in Nat : n + 1 >= 3 => n = 2 \/ n >= 3
        OBVIOUS
      <4>4. Len(scans) \in Nat
        BY <2>4
      <4>5. Len(scans) + 1 >= 3
        BY <4>1, <4>2, Zenon
      <4> QED BY <4>3, <4>4, <4>5, Zenon
    <3> QED BY <3>1, <3>2, <3>3, Zenon
  <2> QED BY <2>1, <2>2, <2>6, <2>7 DEF ScansOK
<1>8. CASE Lifecycle /\ UNCHANGED changes
  BY <1>8, LifecycleStep, NothingScanned
<1>9. CASE CycleDies /\ UNCHANGED changes
  BY <1>9, NothingScanned DEF CycleDies
<1>10. CASE Environment
  BY <1>10, HeldShrinks DEF Environment, cycle
<1>11. CASE UNCHANGED vars
  BY <1>11, HeldShrinks DEF vars, world, cycle, history, ScansOK, OpenWork
<1> QED
  BY <1>1, <1>2, <1>3, <1>4, <1>5, <1>6, <1>7, <1>8, <1>9, <1>10, <1>11
     DEF Next, Steps, Controller

-----------------------------------------------------------------------------
(* The candidate.                                                           *)

LEMMA CandidateStep == TypeOK /\ CandidateOK /\ [Next]_vars => CandidateOK'
<1> SUFFICES ASSUME TypeOK, CandidateOK, [Next]_vars
             PROVE  CandidateOK'
  OBVIOUS
<1>1. candidate # None => candidate \in [scope : Scopes, now : BOOLEAN]
  BY DEF TypeOK
<1>2. CASE UNCHANGED <<candidate, cleared>>
  BY <1>2 DEF CandidateOK
<1>3. CASE Wake /\ UNCHANGED changes
  <2>1. cleared' = [s \in Scopes |-> IF cleared[s] = "now" THEN "before" ELSE cleared[s]]
    BY <1>3 DEF Wake
  <2>2. cleared \in [Scopes -> {"never", "now", "before"}]
    BY DEF TypeOK
  <2>3. CASE candidate = None
    BY <1>3, <2>3 DEF Wake, CandidateOK
  <2>4. CASE candidate # None
    <3>1. candidate' = [candidate EXCEPT !.now = FALSE]
      BY <1>3, <2>4 DEF Wake
    <3>2. candidate'.scope = candidate.scope /\ candidate.scope \in Scopes
      BY <1>1, <2>4, <3>1
    <3>3. cleared[candidate.scope] \in {"now", "before"}
      BY <2>2, <2>4, <3>2 DEF CandidateOK
    <3> QED BY <2>1, <3>2, <3>3 DEF CandidateOK
  <2> QED BY <2>3, <2>4
<1>4. CASE Lifecycle /\ UNCHANGED changes
  <2>1. cleared \in [Scopes -> {"never", "now", "before"}] /\ scope \in Scopes
    BY DEF TypeOK
  <2>2. cleared' = IF AllComplete /\ AllClear /\ cleared[scope] = "never"
                   THEN [cleared EXCEPT ![scope] = "now"] ELSE cleared
    BY <1>4, LifecycleStep
  <2>3. CASE AllComplete /\ AllClear /\ candidate' = [scope |-> scope, now |-> TRUE]
    <3>1. cleared'[scope] # "never"
      BY <2>1, <2>2, <2>3
    <3>2. candidate'.scope = scope /\ candidate'.now
      BY <2>3
    <3> QED BY <3>1, <3>2 DEF CandidateOK
  <2>4. CASE UNCHANGED candidate
    <3>1. \A s \in Scopes : cleared[s] # "never" => cleared'[s] = cleared[s]
      BY <2>1, <2>2
    <3>2. candidate # None => candidate.scope \in Scopes
      BY <1>1
    <3> QED BY <2>4, <3>1, <3>2 DEF CandidateOK
  <2> QED BY <1>4, <2>3, <2>4, LifecycleStep
<1>5. CASE Refresh /\ UNCHANGED changes
  BY <1>2, <1>5, RefreshStep
<1>6. CASE Throughput /\ UNCHANGED changes
  BY <1>2, <1>6, ThroughputStep DEF saved
<1>7. CASE (Probe \/ ReadDetail \/ RunLane \/ ReadScan \/ CycleDies) /\ UNCHANGED changes
  BY <1>2, <1>7 DEF Probe, ReadDetail, RunLane, ReadScan, CycleDies, saved, history
<1>8. CASE Environment
  BY <1>2, <1>8 DEF Environment
<1>9. CASE UNCHANGED vars
  BY <1>2, <1>9 DEF vars, saved, history
<1> QED
  BY <1>3, <1>4, <1>5, <1>6, <1>7, <1>8, <1>9 DEF Next, Steps, Controller

-----------------------------------------------------------------------------
(* The lanes of a burst.                                                    *)

\* Lanes that may run beside each other and beside the validation.
Apart(lanes) ==
  /\ lanes \subseteq TaskIds
  /\ \A a, b \in lanes : a # b /\ Task(a).mutates /\ Task(b).mutates =>
       Task(a).resources \cap Task(b).resources = {}
  /\ \A a \in lanes : ~BehindLock(Task(a))

\* A set of numbers has a least member.
LEMMA Least ==
  ASSUME NEW S, S \subseteq Nat, S # {}
  PROVE  \E n \in S : \A m \in S : n <= m
<1>1. PICK n \in S : \A m \in S : ~(<<m, n>> \in OpToRel(<, Nat))
  BY NatLessThanWellFounded, WFMin
<1>2. \A m \in S : ~(m < n)
  BY <1>1 DEF OpToRel
<1> QED BY <1>2

LEMMA TasksCounted == Len(Tasks) \in Nat /\ DOMAIN Tasks = 1..Len(Tasks)
BY ConstantsAssumption

\* No two tasks have one id, so that a task is found by its own.
LEMMA TaskOfItsId ==
  ASSUME NEW i \in 1..Len(Tasks)
  PROVE  Tasks[i].id \in TaskIds /\ Task(Tasks[i].id) = Tasks[i]
<1>1. Tasks[i] \in ToSet(Tasks)
  BY TasksCounted DEF ToSet
<1>2. \A t \in ToSet(Tasks) : t.id = Tasks[i].id => t = Tasks[i]
  BY TasksCounted, ConstantsAssumption DEF ToSet
<1>3. Tasks[i].id \in TaskIds
  BY TasksCounted DEF TaskIds
<1> QED BY <1>1, <1>2, <1>3 DEF Task

\* The choice among the first n tasks is made from that among those before.
LEMMA ChosenEquation ==
  Chosen = [n \in 0..Len(Tasks) |-> IF n = 0 THEN {} ELSE Choose(Chosen[n - 1], Tasks[n])]
<1> DEFINE Has(k) == \E f :
             f = [n \in 0..k |-> IF n = 0 THEN {} ELSE Choose(f[n - 1], Tasks[n])]
           Lacking == {k \in Nat : ~Has(k)}
<1>1. Lacking = {}
  <2> SUFFICES ASSUME Lacking # {} PROVE FALSE
    OBVIOUS
  <2>1. PICK k \in Lacking : \A m \in Lacking : k <= m
    <3>1. Lacking \subseteq Nat
      OBVIOUS
    <3> HIDE DEF Lacking
    <3> QED BY <3>1, Least
  <2>2. k \in Nat /\ ~Has(k)
    BY <2>1
  <2>3. k # 0
    <3>1. [n \in 0..0 |-> {}] =
            [n \in 0..0 |-> IF n = 0 THEN {} ELSE Choose([m \in 0..0 |-> {}][n - 1], Tasks[n])]
      OBVIOUS
    <3>2. Has(0)
      BY <3>1
    <3> QED BY <2>2, <3>2
  <2>4. Has(k - 1)
    <3>1. k - 1 \in Nat /\ ~(k <= k - 1)
      BY <2>2, <2>3
    <3>2. k - 1 \notin Lacking
      BY <2>1, <3>1
    <3> QED BY <3>1, <3>2
  <2>5. PICK g : g = [n \in 0..(k - 1) |-> IF n = 0 THEN {} ELSE Choose(g[n - 1], Tasks[n])]
    BY <2>4
  <2> DEFINE f == [n \in 0..k |-> IF n = k THEN Choose(g[k - 1], Tasks[k]) ELSE g[n]]
             h == [n \in 0..k |-> IF n = 0 THEN {} ELSE Choose(f[n - 1], Tasks[n])]
  <2>6. ASSUME NEW n \in 0..k PROVE f[n] = h[n]
    <3>1. CASE n = k
      <4>1. k - 1 \in 0..k /\ k - 1 # k
        BY <2>2, <2>3
      <4> QED BY <2>2, <2>3, <3>1, <4>1
    <3>2. CASE n # k /\ n # 0
      <4>1. n \in 0..(k - 1) /\ n - 1 \in 0..k /\ n - 1 # k
        BY <2>2, <3>2
      <4>2. g[n] = Choose(g[n - 1], Tasks[n])
        BY <2>5, <3>2, <4>1
      <4>3. f[n] = g[n] /\ f[n - 1] = g[n - 1]
        BY <3>2, <4>1
      <4> QED BY <3>2, <4>2, <4>3
    <3>3. CASE n # k /\ n = 0
      <4>1. 0 \in 0..(k - 1)
        BY <2>2, <2>3
      <4>2. g[0] = {}
        BY <2>5, <4>1
      <4> QED BY <3>3, <4>2
    <3> QED BY <3>1, <3>2, <3>3
  <2>7. f = h
    BY <2>6
  <2>8. Has(k)
    <3> HIDE DEF f
    <3> QED BY <2>7
  <2> QED BY <2>2, <2>8
<1>2. Has(Len(Tasks))
  BY <1>1, TasksCounted
<1> QED BY <1>2 DEF Chosen

\* One more task leaves the lanes apart.
LEMMA ChooseApart ==
  ASSUME NEW lanes, Apart(lanes), NEW i \in 1..Len(Tasks)
  PROVE  Apart(Choose(lanes, Tasks[i]))
<1> DEFINE t == Tasks[i]
<1>1. CASE Choose(lanes, t) = lanes
  BY <1>1
<1>2. CASE Choose(lanes, t) # lanes
  <2>1. /\ Choose(lanes, t) = lanes \cup {t.id} /\ ~BehindLock(t)
        /\ t.mutates => \A a \in lanes : Task(a).mutates => t.resources \cap Task(a).resources = {}
    BY <1>2 DEF Choose
  <2>2. t.id \in TaskIds /\ Task(t.id) = t
    BY TaskOfItsId
  <2> QED BY <2>1, <2>2 DEF Apart
<1> QED BY <1>1, <1>2

\* Among however many tasks, those that are selected are apart.
LEMMA SelectedApart == Apart(Selected)
<1> DEFINE Failing == {n \in Nat : n <= Len(Tasks) /\ ~Apart(Chosen[n])}
<1>1. Failing = {}
  <2> SUFFICES ASSUME Failing # {} PROVE FALSE
    OBVIOUS
  <2>1. PICK n \in Failing : \A m \in Failing : n <= m
    <3>1. Failing \subseteq Nat
      OBVIOUS
    <3> HIDE DEF Failing
    <3> QED BY <3>1, Least
  <2>2. n \in Nat /\ n \in 0..Len(Tasks) /\ ~Apart(Chosen[n])
    BY <2>1, TasksCounted
  <2>3. n # 0
    <3>1. Chosen[0] = {}
      BY ChosenEquation, TasksCounted
    <3> QED BY <2>2, <3>1 DEF Apart
  <2>4. Apart(Chosen[n - 1])
    <3>1. n - 1 \in Nat /\ n - 1 <= Len(Tasks) /\ ~(n <= n - 1)
      BY <2>2, <2>3, TasksCounted
    <3> QED BY <2>1, <3>1
  <2>5. n \in 1..Len(Tasks) /\ Chosen[n] = Choose(Chosen[n - 1], Tasks[n])
    <3>1. n \in 1..Len(Tasks)
      BY <2>2, <2>3, TasksCounted
    <3>2. Chosen[n] = IF n = 0 THEN {} ELSE Choose(Chosen[n - 1], Tasks[n])
      <4> HIDE DEF Failing
      <4> QED BY <2>2, ChosenEquation, Zenon
    <3> QED BY <2>3, <3>1, <3>2
  <2> QED BY <2>2, <2>4, <2>5, ChooseApart
<1> QED BY <1>1, TasksCounted DEF Selected

\* Where the lanes have been begun, they were chosen beside what has been locked
\* since then.
LEMMA BurstBegins ==
  ASSUME TypeOK, ThroughputStatus = "ADVANCE", todo' = Selected,
         locked' = IF Active THEN validation.lock ELSE None
  PROVE  LanesApart'
<1>1. ~(Active /\ validation.lock.scope = "GLOBAL")
  BY DEF ThroughputStatus
<1>2. validation.lock \in Locks \cup {None}
  BY DEF TypeOK, Validations
<1>3. ASSUME NEW a \in Selected, locked' # None, Task(a).mutates
      PROVE  locked'.scope # "GLOBAL" /\ Task(a).resources \cap locked'.resources = {}
  <2>1. Active /\ locked' = validation.lock /\ validation.lock \in Locks
    BY <1>2, <1>3
  <2>2. validation.lock.scope = "SCOPED"
    BY <1>1, <2>1, ConstantsAssumption
  <2>3. ~BehindLock(Task(a))
    BY <1>3, SelectedApart DEF Apart
  <2> QED BY <1>3, <2>1, <2>2, <2>3 DEF BehindLock
<1> QED BY <1>3, SelectedApart DEF LanesApart, Apart

LEMMA LanesFewer ==
  ASSUME LanesApart, step = "act", todo' \subseteq todo, locked' \in {locked, None}
  PROVE  LanesApart'
BY DEF LanesApart

LEMMA LanesStep == TypeOK /\ LanesApart /\ [Next]_vars => LanesApart'
<1> SUFFICES ASSUME TypeOK, LanesApart, [Next]_vars
             PROVE  LanesApart'
  OBVIOUS
<1>1. CASE step' # "act"
  BY <1>1 DEF LanesApart
<1>2. CASE Throughput /\ UNCHANGED changes
  <2>1. CASE ThroughputStatus = "ADVANCE"
    <3>1. todo' = Selected /\ locked' = IF Active THEN validation.lock ELSE None
      BY <1>2, <2>1 DEF Throughput
    <3> QED BY <2>1, <3>1, BurstBegins
  <2>2. CASE ThroughputStatus # "ADVANCE"
    <3>1. step = "plan" /\ (BeginScans \/ UNCHANGED cycle)
      BY <1>2, <2>2 DEF Throughput
    <3>2. step' # "act"
      BY <3>1 DEF BeginScans, cycle
    <3> QED BY <1>1, <3>2
  <2> QED BY <2>1, <2>2
<1>3. CASE RunLane /\ UNCHANGED changes
  <2>1. step = "act" /\ (BeginScans \/ (todo' \subseteq todo /\ locked' = locked))
    BY <1>3 DEF RunLane
  <2> QED BY <1>1, <2>1, LanesFewer DEF BeginScans
<1>4. CASE Environment
  <2>1. step' = step /\ todo' = todo /\ locked' \in {locked, None}
    BY <1>4 DEF Environment, cycle
  <2> QED BY <1>1, <2>1, LanesFewer
<1>5. CASE UNCHANGED vars
  BY <1>5 DEF vars, cycle, history, LanesApart
<1>6. CASE (Wake \/ Probe \/ ReadDetail \/ ReadScan \/ CycleDies) /\ UNCHANGED changes
  BY <1>1, <1>6 DEF Wake, Probe, ReadDetail, ReadScan, CycleDies, EndCycle
<1>7. CASE Refresh /\ UNCHANGED changes
  <2>1. step' # "act"
    BY <1>7, RefreshStep DEF EndCycle
  <2> QED BY <1>1, <2>1
<1>8. CASE Lifecycle /\ UNCHANGED changes
  BY <1>1, <1>8, LifecycleStep DEF EndCycle, BeginScans
<1> QED
  BY <1>2, <1>3, <1>4, <1>5, <1>6, <1>7, <1>8 DEF Next, Steps, Controller

-----------------------------------------------------------------------------
(* Theorems.                                                                *)

LEMMA InvariantInit == Init => Invariant
<1> SUFFICES ASSUME Init PROVE Invariant
  OBVIOUS
<1>1. TypeOK
  BY TypeInit
<1>2. GroundOK /\ KnowsItsGround
  BY DEF Init, GroundOK, KnowsItsGround
<1>3. ScansOK /\ CandidateOK
  BY DEF Init, ScansOK, CandidateOK
<1> QED BY <1>1, <1>2, <1>3 DEF Invariant

LEMMA InvariantStep == Invariant /\ [Next]_vars => Invariant'
BY TypeStep, GroundStep, ScansStep, CandidateStep DEF Invariant, Ground

\* The whole invariant holds in every state.
THEOREM AlwaysInvariant == Spec => []Invariant
BY InvariantInit, InvariantStep, PTL DEF Spec

\* The variables keep their types, for any surfaces, tasks and locks.
THEOREM TypeCorrect == Spec => []TypeOK
BY AlwaysInvariant, PTL DEF Invariant

\* However probes fail, cycles die and surfaces change, a cycle that plans or acts has
\* read every surface that was out of date when it began and that it decides by or
\* is about to change.
THEOREM ActsOnPresentReadings == Spec => []KnowsItsGround
BY AlwaysInvariant, PTL DEF Invariant

\* However many tasks there are and however they overlap, the lanes of a burst keep
\* apart from each other and from the validation they were chosen beside.
THEOREM LanesKeepApart == Spec => []LanesApart
<1>1. Init => LanesApart
  BY DEF Init, LanesApart
<1>2. Invariant /\ LanesApart /\ [Next]_vars => LanesApart'
  BY LanesStep DEF Invariant
<1> QED BY <1>1, <1>2, AlwaysInvariant, PTL DEF Spec

\* A completion is confirmed by an earlier cycle, and nothing was open all the time
\* its scans took.
LEMMA EarnedStep ==
  Invariant /\ [Next]_vars =>
    [off = None /\ off' = "complete" => cleared[scope] = "before" /\ held = {}]_vars
<1> SUFFICES ASSUME Invariant, Next, off = None, off' = "complete"
             PROVE  cleared[scope] = "before" /\ held = {}
  BY Zenon
<1>1. None # "complete" /\ None # "paused"
  BY ConstantsAssumption
<1>2. off' # off
  BY <1>1
<1>3. Lifecycle
  <2>1. CASE Environment
    BY <1>2, <2>1 DEF Environment
  <2>2. CASE Refresh
    BY <1>2, <2>2, RefreshStep DEF Invariant
  <2>3. CASE Throughput
    BY <1>2, <2>3, ThroughputStep DEF Invariant, saved
  <2>4. CASE Wake \/ Probe \/ ReadDetail \/ RunLane \/ ReadScan \/ CycleDies
    BY <1>2, <2>4 DEF Wake, Probe, ReadDetail, RunLane, ReadScan, CycleDies, saved
  <2> QED BY <2>1, <2>2, <2>3, <2>4 DEF Next, Steps, Controller
<1>4. AllComplete /\ AllClear /\ candidate # None /\ SameToken /\ Later /\ Len(scans) = 4
  <2>1. TypeOK
    BY DEF Invariant
  <2> QED BY <1>1, <1>2, <1>3, <2>1, LifecycleStep
<1>5. cleared[scope] = "before"
  BY <1>4 DEF SameToken, Later, Invariant, CandidateOK
<1>6. held = {}
  <2>1. scans[1].complete /\ scans[1].count = 0 /\ scans[3].complete /\ scans[3].count = 0
    BY <1>4 DEF AllComplete, AllClear, ScanOrder
  <2>2. \A id \in TaskIds : <<id, "issue">> \notin held /\ <<id, "pr">> \notin held
    <3>1. Len(scans) >= 1 /\ Len(scans) >= 3
      BY <1>4
    <3> QED BY <2>1, <3>1, Zenon DEF Invariant, ScansOK
  <2>3. held \subseteq TaskIds \X {"issue", "pr"}
    BY DEF Invariant, TypeOK
  <2>4. ASSUME NEW x \in held PROVE FALSE
    <3>1. PICK id \in TaskIds, kind \in {"issue", "pr"} : x = <<id, kind>>
      BY <2>3, <2>4
    <3> QED BY <2>2, <2>4, <3>1, Zenon
  <2> QED BY <2>4
<1> QED BY <1>5, <1>6

\* The controller switches itself off as complete only when an earlier cycle found the
\* same scope all clear, and no issue or pull request was open throughout its scans.
THEOREM CompletionIsEarned == Spec => CompletionEarned
BY AlwaysInvariant, EarnedStep, PTL DEF Spec, CompletionEarned
=============================================================================
