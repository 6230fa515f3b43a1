-------------------------- MODULE Controller_proofs --------------------------
(***************************************************************************)
(* Proofs about two parts of the controller, for every value of their      *)
(* constants: DiagnosticRecovery, the recovery of an action that failed    *)
(* twice in the same way, and, from `The controller cycle' on,             *)
(* ControllerCycle, the routing of a bootstrap run.                        *)
(*                                                                         *)
(* The two share no name, so one module extends both.                      *)
(***************************************************************************)
EXTENDS DiagnosticRecovery, ControllerCycle, TLAPS, FiniteSetTheorems, WellFoundedInduction

-----------------------------------------------------------------------------
(* Data.                                                                    *)

\* A selection among providers returns one of them.
LEMMA MinIsMember ==
  ASSUME NEW S \in SUBSET Providers, S # {}
  PROVE  Min(S) \in S
<1>1. S \subseteq Nat
  BY ConstantsAssumption
<1>. DEFINE Less == {ss \in Nat \X Nat : ss[1] < ss[2]}
<1>2. IsWellFoundedOn(Less, Nat)
  BY NatLessThanWellFounded DEF OpToRel
<1>3. \A x, y \in S : y < x => <<y, x>> \in Less
  BY <1>1
<1>. HIDE DEF Less
<1>4. PICK x \in S : \A y \in S : ~(<<y, x>> \in Less)
  BY <1>1, <1>2, WFMin
<1>5. \A y \in S : x =< y
  <2>1. ASSUME NEW y \in S PROVE x =< y
    <3>1. x \in Nat /\ y \in Nat /\ ~(y < x)
      BY <1>1, <1>3, <1>4
    <3>. QED
      BY <3>1
  <2>. QED
    BY <2>1
<1>. QED
  BY <1>5 DEF Min

\* A nested table with one entry replaced.
LEMMA Override ==
  ASSUME NEW T, NEW f \in [Actions -> [Surface -> T]],
         NEW a \in Actions, NEW s \in Surface, NEW v \in T
  PROVE  /\ [f EXCEPT ![a][s] = v] \in [Actions -> [Surface -> T]]
         /\ [f EXCEPT ![a][s] = v][a][s] = v
         /\ \A b \in Actions, t \in Surface :
              b # a \/ t # s => [f EXCEPT ![a][s] = v][b][t] = f[b][t]
  OBVIOUS

\* The constants among the recoveries and dispatches are well formed.
LEMMA Constants ==
  /\ NoRecovery \in Recovery /\ NoDispatch \in Dispatch
  /\ \A failure \in FailureKind : /\ Opened(failure) \in Recovery
                                  /\ Opened(failure).status = "open"
<1>1. NoRecovery \in Recovery
  BY DEF NoRecovery, Recovery
<1>2. NoDispatch \in Dispatch
  BY <1>1 DEF NoDispatch, Dispatch
<1>3. ASSUME NEW failure \in FailureKind
      PROVE  Opened(failure) \in Recovery /\ Opened(failure).status = "open"
  <2>. DEFINE named == failure = "kernel"
              failed == IF failure = "kernel" THEN {Native} ELSE {}
  <2>1. named \in BOOLEAN /\ failed \in SUBSET Providers
    BY ConstantsAssumption
  <2>2. Opened(failure) = [NoRecovery EXCEPT !.status = "open",
                             !.known = named, !.failed = failed]
    BY DEF Opened
  <2>. HIDE DEF named, failed
  <2>3. Opened(failure) \in Recovery
    BY <1>1, <2>1, <2>2 DEF Recovery
  <2>4. Opened(failure).status = "open"
    BY <2>2 DEF NoRecovery
  <2>. QED
    BY <2>3, <2>4
<1>. QED
  BY <1>1, <1>2, <1>3

\* A wait leaves a recovery unresolved and its providers as they were.
LEMMA WaitingForm ==
  ASSUME NEW r \in Recovery, r.status = "open",
         NEW phase \in {"investigate_root_cause", "apply_corrective_action"}
  PROVE  /\ Waiting(r, phase) \in Recovery
         /\ Waiting(r, phase).status \in {"open", "needs_evidence"}
         /\ Waiting(r, phase).failed = r.failed
         /\ Waiting(r, phase).correction = r.correction
<1>. DEFINE n == IF r.phase = phase THEN 2 ELSE 1
            status == IF n >= 2 THEN "needs_evidence" ELSE "open"
<1>1. Waiting(r, phase) =
        [r EXCEPT !.phase = phase, !.waits = n, !.status = status]
  BY DEF Waiting
<1>2. n \in 0..2 /\ status \in {"open", "needs_evidence"}
  OBVIOUS
<1>. HIDE DEF n, status
<1>. QED
  BY <1>1, <1>2 DEF Recovery

\* A diagnostic phase leaves a recovery unresolved, and what it selects is
\* none of the providers that failed.
LEMMA AdvancedForm ==
  ASSUME NEW r \in Recovery, r.status = "open"
  PROVE  /\ Advanced(r) \in Recovery
         /\ Advanced(r).status \in {"open", "needs_evidence"}
         /\ Advanced(r).failed = r.failed
         /\ \/ Advanced(r).correction = r.correction
            \/ Advanced(r).correction \in Providers \ r.failed
<1>1. CASE ~r.cause /\ r.known
  <2>1. Advanced(r) = [r EXCEPT !.cause = TRUE]
    BY <1>1 DEF Advanced
  <2>. QED
    BY <2>1 DEF Recovery
<1>2. CASE ~r.cause /\ ~r.known
  BY <1>2, WaitingForm DEF Advanced
<1>3. CASE r.cause /\ Eligible(r) # {}
  <2>1. Advanced(r) = [r EXCEPT !.correction = Min(Eligible(r))]
    BY <1>3 DEF Advanced
  <2>2. Eligible(r) \in SUBSET Providers /\ Eligible(r) \cap r.failed = {}
    BY DEF Eligible, Recovery
  <2>3. Min(Eligible(r)) \in Eligible(r)
    BY <1>3, <2>2, MinIsMember
  <2>4. Min(Eligible(r)) \in Providers \ r.failed
    BY <2>2, <2>3
  <2>. QED
    BY <2>1, <2>4 DEF Recovery
<1>4. CASE r.cause /\ Eligible(r) = {}
  BY <1>4, WaitingForm DEF Advanced
<1>5. r.cause \in BOOLEAN /\ r.known \in BOOLEAN
  BY DEF Recovery
<1>. QED
  BY <1>1, <1>2, <1>3, <1>4, <1>5

-----------------------------------------------------------------------------
(* The inductive invariant.                                                 *)

\* What the comment and GitHub hold besides: a dispatch that is there has a
\* status, a run belongs to a dispatch, a correction being applied names its
\* provider, a bootstrap run works on an intent, and reasoning asked for beside
\* an action in flight is the mark of a torn give-up.
Bookkeeping ==
  /\ \A a \in Actions, s \in Surface :
       /\ dispatch[a][s] # NoDispatch => dispatch[a][s].status # "none"
       /\ run[a][s] # "none" => dispatch[a][s] # NoDispatch
  /\ \A a \in Actions :
       dispatch[a]["corrective"] # NoDispatch => rec[a].correction # NoProvider
  /\ boot.pc # "idle" =>
       /\ boot.action \in Actions
       /\ dispatch[boot.action][boot.surface].status = "dispatch_intent"
  /\ asked => torn /\ \E a \in Actions : queue[a] = "in_flight"

Invariant ==
  /\ TypeOK /\ OneInFlight /\ IdentityKept /\ SuspendedWhileUnresolved
  /\ Bookkeeping

\* The empty comment satisfies it.
LEMMA InitInvariant == Init => Invariant
<1>. SUFFICES ASSUME Init PROVE Invariant
  OBVIOUS
<1>. USE DEF Init
<1>1. TypeOK
  <2>1. boot \in Boot /\ faults \in 0..MaxFaults
    BY ConstantsAssumption DEF Idle, Boot, Surface
  <2>2. /\ queue \in [Actions -> QueueStatus] /\ rec \in [Actions -> Recovery]
        /\ last \in [Actions -> FailureKind \cup {"none"}]
        /\ tried \in [Actions -> SUBSET Providers]
    BY Constants DEF QueueStatus
  <2>3. /\ dispatch \in [Actions -> [Surface -> Dispatch]]
        /\ run \in [Actions -> [Surface -> RunState]]
    BY Constants DEF RunState
  <2>4. asked \in BOOLEAN /\ torn \in BOOLEAN /\ registered \in Kernels
    OBVIOUS
  <2>. QED
    BY <2>1, <2>2, <2>3, <2>4 DEF TypeOK
<1>2. OneInFlight /\ IdentityKept
  BY DEF OneInFlight, IdentityKept
<1>3. SuspendedWhileUnresolved
  BY DEF SuspendedWhileUnresolved, Unresolved, NoRecovery, Surface
<1>4. Bookkeeping
  BY DEF Bookkeeping, Idle, Surface
<1>. QED
  BY <1>1, <1>2, <1>3, <1>4 DEF Invariant

\* When the selection counts nothing there is no dispatch at all, in whatever
\* status a recovery is.
LEMMA NothingInFlight ==
  ASSUME Invariant, InFlight = {}
  PROVE  \A a \in Actions, s \in Surface : dispatch[a][s] = NoDispatch
<1>. SUFFICES ASSUME NEW a \in Actions, NEW s \in Surface,
                     dispatch[a][s] # NoDispatch
              PROVE  FALSE
  OBVIOUS
<1>1. dispatch[a][s].status # "none" /\ rec[a].status = ServedIn(s)
  BY DEF Invariant, IdentityKept, Bookkeeping
<1>2. <<a, s>> \in InFlight
  BY <1>1 DEF InFlight
<1>. QED
  BY <1>2

\* What the selection counts is there.
LEMMA InFlightIsThere ==
  ASSUME NEW a \in Actions, NEW s \in Surface, InFlight = {<<a, s>>}
  PROVE  dispatch[a][s] # NoDispatch
<1>1. <<a, s>> \in InFlight
  OBVIOUS
<1>2. dispatch[a][s].status # "none"
  BY <1>1 DEF InFlight
<1>. QED
  BY <1>2 DEF NoDispatch

\* An action that is neither queued for execution nor under recovery has no
\* dispatch.
LEMMA NoDispatchOutsideRecovery ==
  ASSUME Invariant, NEW a \in Actions, ~Unresolved(a)
  PROVE  \A s \in Surface : dispatch[a][s] = NoDispatch
  BY DEF Invariant, IdentityKept, Unresolved, ServedIn

-----------------------------------------------------------------------------
(* The forms of the steps.                                                  *)

\* A step that touches the queue and the recoveries while nothing is
\* dispatched keeps the invariant, if after it at most one action is in flight,
\* or a give-up was torn, and every unresolved action is suspended.
LEMMA OrdinaryStep ==
  ASSUME Invariant, TypeOK',
         UNCHANGED <<dispatch, run, tried, boot>>,
         \A a \in Actions, s \in Surface : dispatch[a][s] = NoDispatch,
         \A a, b \in Actions :
           queue'[a] = "in_flight" /\ queue'[b] = "in_flight" => a = b \/ torn',
         asked' => torn' /\ \E a \in Actions : queue'[a] = "in_flight",
         \A a \in Actions :
           rec'[a].status \in {"open", "needs_evidence"} =>
             queue'[a] = "suspended"
  PROVE  Invariant'
<1>1. OneInFlight'
  BY DEF OneInFlight
<1>2. IdentityKept'
  BY DEF IdentityKept
<1>3. \A a \in Actions, s \in Surface : run[a][s] = "none"
  BY DEF Invariant, Bookkeeping
<1>4. SuspendedWhileUnresolved'
  BY <1>3 DEF SuspendedWhileUnresolved, Unresolved, Surface
<1>5. Bookkeeping'
  BY <1>3 DEF Invariant, Bookkeeping, Surface
<1>. QED
  BY <1>1, <1>2, <1>4, <1>5 DEF Invariant

\* The ingestion of an artifact drops the one dispatch there is.  It keeps
\* the invariant if the recovery stays unresolved, or is resolved in the
\* write that gives the action back to the queue.
LEMMA IngestStep ==
  ASSUME Invariant, NEW a \in Actions, NEW s \in Surface, Terminal(a, s),
         Consume(a, s), UNCHANGED <<last, tried, boot, other, faults>>,
         NEW new \in Recovery, rec' = [rec EXCEPT ![a] = new],
         \/ new.status \in {"open", "needs_evidence"} /\ queue' = queue
         \/ /\ new.status = "resolved"
            /\ queue' = [queue EXCEPT ![a] = "pending"]
  PROVE  Invariant'
<1>. USE DEF Consume, other
<1>1. dispatch' = [dispatch EXCEPT ![a][s] = NoDispatch]
      /\ run' = [run EXCEPT ![a][s] = "none"]
  OBVIOUS
<1>2. dispatch \in [Actions -> [Surface -> Dispatch]]
      /\ run \in [Actions -> [Surface -> RunState]]
  BY DEF Invariant, TypeOK
<1>3. /\ dispatch' \in [Actions -> [Surface -> Dispatch]]
      /\ run' \in [Actions -> [Surface -> RunState]]
      /\ dispatch'[a][s] = NoDispatch /\ run'[a][s] = "none"
      /\ \A b \in Actions, t \in Surface :
           b # a \/ t # s => /\ dispatch'[b][t] = dispatch[b][t]
                             /\ run'[b][t] = run[b][t]
  <2>1. NoDispatch \in Dispatch /\ "none" \in RunState
    BY Constants DEF RunState
  <2>. QED
    BY <1>1, <1>2, <2>1, Override
<1>4. InFlight = {<<a, s>>} /\ ActionsInFlight = {} /\ boot.pc = "idle"
  BY DEF Terminal, Idle
<1>5. \A b \in Actions, t \in Surface :
        b # a \/ t # s => dispatch[b][t] = NoDispatch /\ run[b][t] = "none"
  BY <1>4, InFlightIsThere DEF Invariant, OneInFlight, Bookkeeping
<1>6. \A b \in Actions, t \in Surface :
        dispatch'[b][t] = NoDispatch /\ run'[b][t] = "none"
  BY <1>3, <1>5
<1>7. queue' \in [Actions -> QueueStatus] /\ rec' \in [Actions -> Recovery]
      /\ rec'[a] = new /\ \A b \in Actions \ {a} : rec'[b] = rec[b]
  BY DEF Invariant, TypeOK, QueueStatus
<1>8. TypeOK'
  BY <1>3, <1>7 DEF Invariant, TypeOK
<1>9. \A b \in Actions : queue'[b] # "in_flight"
  BY <1>4 DEF ActionsInFlight, Invariant, TypeOK
<1>10. OneInFlight'
  BY <1>6, <1>9 DEF OneInFlight
<1>11. IdentityKept'
  BY <1>6 DEF IdentityKept
<1>12. queue[a] = "suspended"
  <2>1. dispatch[a][s] # NoDispatch
    BY <1>4, InFlightIsThere
  <2>. QED
    BY <2>1 DEF Invariant, IdentityKept, SuspendedWhileUnresolved,
                Unresolved, ServedIn
<1>13. SuspendedWhileUnresolved'
  <2>1. ASSUME NEW b \in Actions, rec'[b].status \in {"open", "needs_evidence"}
        PROVE  queue'[b] = "suspended"
    <3>1. CASE b = a
      BY <1>7, <1>12, <2>1, <3>1
    <3>2. CASE b # a
      BY <1>7, <2>1, <3>2
      DEF Invariant, SuspendedWhileUnresolved, Unresolved, TypeOK
    <3>. QED
      BY <3>1, <3>2
  <2>. QED
    BY <1>6, <2>1 DEF SuspendedWhileUnresolved, Unresolved, Surface
<1>14. Bookkeeping'
  <2>1. ~asked
    BY <1>4 DEF ActionsInFlight, Invariant, Bookkeeping
  <2>. QED
    BY <1>4, <1>6, <2>1 DEF Bookkeeping, Surface
<1>. QED
  BY <1>8, <1>10, <1>11, <1>13, <1>14 DEF Invariant

\* A step of GitHub or of a bootstrap run that changes no more than the run
\* of a dispatch that is there, and leaves the bootstrap run on an intent.
LEMMA RunStep ==
  ASSUME Invariant, NEW a \in Actions, NEW s \in Surface, NEW new \in RunState,
         dispatch[a][s] # NoDispatch, run' = [run EXCEPT ![a][s] = new],
         UNCHANGED <<durable, other>>, tried' \in [Actions -> SUBSET Providers],
         faults' \in 0..MaxFaults, boot' \in Boot,
         boot'.pc # "idle" =>
           /\ boot'.action \in Actions
           /\ dispatch[boot'.action][boot'.surface].status = "dispatch_intent"
  PROVE  Invariant'
<1>. USE DEF durable, other
<1>1. run \in [Actions -> [Surface -> RunState]]
  BY DEF Invariant, TypeOK
<1>2. /\ run' \in [Actions -> [Surface -> RunState]]
      /\ \A b \in Actions, t \in Surface :
           b # a \/ t # s => run'[b][t] = run[b][t]
  BY <1>1, Override
<1>3. \A b \in Actions, t \in Surface :
        run'[b][t] # "none" => dispatch[b][t] # NoDispatch
  BY <1>2 DEF Invariant, Bookkeeping
<1>4. TypeOK'
  BY <1>2 DEF Invariant, TypeOK
<1>5. OneInFlight'
  BY DEF Invariant, OneInFlight
<1>6. IdentityKept'
  BY DEF Invariant, IdentityKept, Identity
<1>7. SuspendedWhileUnresolved'
  <2>1. ASSUME NEW b \in Actions, run'[b]["corrective"] # "none"
        PROVE  Unresolved(b)
    BY <1>3, <2>1
    DEF Surface, Invariant, IdentityKept, ServedIn, Unresolved
  <2>. QED
    BY <2>1 DEF Invariant, SuspendedWhileUnresolved, Unresolved
<1>8. Bookkeeping'
  BY <1>3 DEF Invariant, Bookkeeping
<1>. QED
  BY <1>4, <1>5, <1>6, <1>7, <1>8 DEF Invariant

\* A step that writes one dispatch, with the identity the recovery has, into
\* a comment that holds no other.
LEMMA DispatchStep ==
  ASSUME Invariant, NEW a \in Actions, NEW s \in Surface, NEW new \in Dispatch,
         dispatch' = [dispatch EXCEPT ![a][s] = new],
         new.status # "none", new.id = Identity(a, s),
         rec[a].status = ServedIn(s),
         s = "corrective" => rec[a].correction # NoProvider,
         \A b \in Actions : queue[b] # "in_flight",
         \A b \in Actions, t \in Surface :
           b # a \/ t # s => dispatch[b][t] = NoDispatch,
         UNCHANGED <<queue, last, rec, run, tried, other, faults>>, boot' \in Boot,
         boot'.pc # "idle" => /\ boot'.action = a /\ boot'.surface = s
                              /\ new.status = "dispatch_intent"
  PROVE  Invariant'
<1>. USE DEF other
<1>1. dispatch \in [Actions -> [Surface -> Dispatch]]
  BY DEF Invariant, TypeOK
<1>2. /\ dispatch' \in [Actions -> [Surface -> Dispatch]]
      /\ dispatch'[a][s] = new
      /\ \A b \in Actions, t \in Surface :
           b # a \/ t # s => dispatch'[b][t] = NoDispatch
  BY <1>1, Override
<1>3. new # NoDispatch
  BY DEF NoDispatch
<1>4. TypeOK'
  BY <1>2 DEF Invariant, TypeOK
<1>5. OneInFlight'
  BY <1>2 DEF OneInFlight
<1>6. Identity(a, s)' = Identity(a, s)
  BY DEF Identity
<1>7. IdentityKept'
  BY <1>2, <1>6 DEF IdentityKept
<1>8. SuspendedWhileUnresolved'
  BY DEF Invariant, SuspendedWhileUnresolved, Unresolved
<1>9. Bookkeeping'
  <2>1. ASSUME NEW b \in Actions, NEW t \in Surface
        PROVE  /\ dispatch'[b][t] # NoDispatch => dispatch'[b][t].status # "none"
               /\ run'[b][t] # "none" => dispatch'[b][t] # NoDispatch
    BY <1>2, <1>3 DEF Invariant, Bookkeeping
  <2>2. ASSUME NEW b \in Actions, dispatch'[b]["corrective"] # NoDispatch
        PROVE  rec'[b].correction # NoProvider
    BY <1>2, <2>2 DEF Surface
  <2>3. boot'.pc # "idle" =>
          /\ boot'.action \in Actions
          /\ dispatch'[boot'.action][boot'.surface].status = "dispatch_intent"
    BY <1>2
  <2>4. ~asked'
    BY DEF Invariant, Bookkeeping
  <2>. QED
    BY <2>1, <2>2, <2>3, <2>4 DEF Bookkeeping
<1>. QED
  BY <1>4, <1>5, <1>7, <1>8, <1>9 DEF Invariant

-----------------------------------------------------------------------------
(* Every step.                                                              *)

\* The queue and the recoveries change only between executions.
LEMMA OrdinaryKeeps ==
  ASSUME Invariant, NEW a \in Actions, Ordinary(a)
  PROVE  Invariant'
<1>. USE DEF Invariant, TypeOK, other
<1>1. /\ UNCHANGED <<dispatch, run, tried, boot>>
      /\ queue' \in [Actions -> QueueStatus]
      /\ last' \in [Actions -> FailureKind \cup {"none"}]
      /\ asked' \in BOOLEAN /\ torn' \in BOOLEAN /\ registered' \in Kernels
      /\ faults' \in 0..MaxFaults
  <2>1. CASE PlanAction(a)
    BY <2>1 DEF PlanAction, QueueStatus
  <2>2. CASE RetryAction(a)
    BY <2>2 DEF RetryAction, QueueStatus
  <2>3. CASE ActionSettles(a)
    BY <2>3 DEF ActionSettles, QueueStatus
  <2>4. CASE GiveUpTorn(a)
    BY <2>4, ConstantsAssumption DEF GiveUpTorn, durable
  <2>5. CASE ActionFails(a)
    BY <2>5, ConstantsAssumption DEF ActionFails, QueueStatus
  <2>. QED
    BY <2>1, <2>2, <2>3, <2>4, <2>5 DEF Ordinary
<1>2. CASE (PlanAction(a) /\ ~asked) \/ RetryAction(a)
  <2>1. \A b \in Actions : ~Unresolved(b)
    BY <1>2 DEF PlanAction, RetryAction
  <2>2. \A b \in Actions, s \in Surface : dispatch[b][s] = NoDispatch
    <3>. HIDE DEF Invariant
    <3>. QED
      BY <2>1, NoDispatchOutsideRecovery
  <2>3. \A b \in Actions : queue[b] # "in_flight"
    BY <1>2 DEF PlanAction, RetryAction, ActionsInFlight
  <2>4. queue' = [queue EXCEPT ![a] = "in_flight"] /\ UNCHANGED <<last, rec>>
    BY <1>2 DEF PlanAction, RetryAction
  <2>5. \A b, c \in Actions :
          queue'[b] = "in_flight" /\ queue'[c] = "in_flight" => b = c
    BY <2>3, <2>4
  <2>6. \A b \in Actions : rec'[b].status \notin {"open", "needs_evidence"}
    BY <2>1, <2>4 DEF Unresolved
  <2>7. TypeOK'
    BY <1>1, <2>4
  <2>8. ~asked'
    BY <1>2, <2>3 DEF PlanAction, RetryAction, Bookkeeping
  <2>. HIDE DEF Invariant, TypeOK
  <2>. QED
    BY <1>1, <2>2, <2>5, <2>6, <2>7, <2>8, OrdinaryStep
<1>3. CASE PlanAction(a) /\ asked
  <2>1. /\ queue' = [queue EXCEPT ![a] = "in_flight"] /\ UNCHANGED <<last, rec>>
        /\ queue[a] = "absent" /\ ~asked' /\ torn' = torn
    BY <1>3 DEF PlanAction
  <2>2. torn /\ \E b \in Actions : queue[b] = "in_flight"
    BY <1>3 DEF Bookkeeping
  <2>3. \A b \in Actions, s \in Surface : dispatch[b][s] = NoDispatch
    BY <2>2 DEF OneInFlight
  <2>4. \A b \in Actions : rec'[b].status \in {"open", "needs_evidence"} =>
                             queue'[b] = "suspended"
    BY <2>1 DEF SuspendedWhileUnresolved, Unresolved
  <2>5. TypeOK'
    BY <1>1, <2>1
  <2>. HIDE DEF Invariant, TypeOK
  <2>. QED
    BY <1>1, <2>1, <2>2, <2>3, <2>4, <2>5, OrdinaryStep
<1>4. CASE ActionSettles(a) \/ GiveUpTorn(a) \/ ActionFails(a)
  <2>1. Observed(a)
    BY <1>4 DEF ActionSettles, GiveUpTorn, ActionFails
  <2>2. \A b \in Actions, s \in Surface : dispatch[b][s] = NoDispatch
    <3>. HIDE DEF Invariant
    <3>. QED
      BY <2>1, NothingInFlight DEF Observed
  <2>3. queue[a] = "in_flight" /\ \A b \in Actions : b # a => queue[b] # "in_flight"
    <3>1. ActionsInFlight = {a}
      BY <2>1 DEF Observed
    <3>2. a \in ActionsInFlight /\ \A b \in Actions : b # a => b \notin ActionsInFlight
      BY <3>1
    <3>. QED
      BY <3>2 DEF ActionsInFlight
  <2>4. ~Unresolved(a)
    BY <2>3 DEF SuspendedWhileUnresolved
  <2>5. /\ \A b \in Actions : b # a => queue'[b] = queue[b] /\ rec'[b] = rec[b]
        /\ rec' \in [Actions -> Recovery]
        /\ rec'[a] = rec[a] \/ queue'[a] = "suspended"
    <3>1. CASE ActionSettles(a) \/ GiveUpTorn(a)
      BY <3>1 DEF ActionSettles, GiveUpTorn, durable
    <3>2. CASE ActionFails(a)
      <4>. HIDE DEF Invariant
      <4>1. PICK failure \in Failures :
              \/ /\ rec' = [rec EXCEPT ![a] = Opened(failure)]
                 /\ queue' = [queue EXCEPT ![a] = "suspended"]
              \/ rec' = rec /\ queue' = [queue EXCEPT ![a] = "pending"]
              \/ rec' = rec /\ queue' = [queue EXCEPT ![a] = "suspended"]
        BY <3>2 DEF ActionFails
      <4>2. Opened(failure) \in Recovery
        BY Constants, ConstantsAssumption
      <4>3. queue \in [Actions -> QueueStatus] /\ rec \in [Actions -> Recovery]
        BY DEF Invariant
      <4>. QED
        BY ONLY <4>1, <4>2, <4>3, a \in Actions
    <3>. QED
      BY <1>4, <3>1, <3>2
  <2>6. \A b, c \in Actions :
          queue'[b] = "in_flight" /\ queue'[c] = "in_flight" => b = c
    BY <2>3, <2>5
  <2>7. \A b \in Actions : rec'[b].status \in {"open", "needs_evidence"} =>
                             queue'[b] = "suspended"
    BY <2>4, <2>5 DEF SuspendedWhileUnresolved, Unresolved
  <2>8. TypeOK'
    BY <1>1, <2>5
  <2>9. asked' => torn' /\ queue'[a] = "in_flight"
    <3>1. CASE GiveUpTorn(a)
      BY <2>3, <3>1 DEF GiveUpTorn, durable
    <3>2. CASE ActionSettles(a) \/ ActionFails(a)
      BY <2>1, <3>2 DEF ActionSettles, ActionFails, Observed
    <3>. QED
      BY <1>4, <3>1, <3>2
  <2>. HIDE DEF Invariant, TypeOK
  <2>. QED
    BY <1>1, <2>2, <2>6, <2>7, <2>8, <2>9, OrdinaryStep
<1>. QED
  BY <1>2, <1>3, <1>4 DEF Ordinary

\* Reasoning without a plan changes nothing but that it is no longer asked for.
LEMMA ReasoningKeeps ==
  ASSUME Invariant, ReasoningBlocks
  PROVE  Invariant'
<1>. USE DEF Invariant, ReasoningBlocks, durable
<1>1. TypeOK'
  BY DEF TypeOK
<1>2. OneInFlight' /\ SuspendedWhileUnresolved'
  BY DEF OneInFlight, SuspendedWhileUnresolved, Unresolved
<1>3. IdentityKept'
  BY DEF IdentityKept, Identity
<1>4. Bookkeeping'
  BY DEF Bookkeeping
<1>. QED
  BY <1>1, <1>2, <1>3, <1>4

\* A bootstrap run writes an intent only into a comment without any, and binds
\* only the run of its own intent.
LEMMA BootstrapKeeps ==
  ASSUME Invariant, NEW a \in Actions, NEW s \in Surface, Bootstrap(a, s)
  PROVE  Invariant'
<1>. USE DEF Invariant
<1>1. CASE Select(a, s)
  <2>1. PICK repeat \in BOOLEAN :
          dispatch' = [dispatch EXCEPT ![a][s] =
            [status |-> "dispatch_intent", id |-> Identity(a, s),
             repeat |-> repeat]]
    BY <1>1 DEF Select
  <2>. DEFINE new == [status |-> "dispatch_intent", id |-> Identity(a, s),
                      repeat |-> repeat]
  <2>2. Identity(a, s) \in Recovery
    BY Constants DEF TypeOK, Identity, NoRecovery, Recovery, Surface
  <2>3. new \in Dispatch /\ new.status = "dispatch_intent"
        /\ new.id = Identity(a, s)
    BY <2>2 DEF Dispatch
  <2>4. InFlight = {} /\ ActionsInFlight = {} /\ a \in Chosen(s)
    BY <1>1 DEF Select
  <2>5. /\ rec[a].status = ServedIn(s)
        /\ s = "corrective" => rec[a].correction # NoProvider
    BY <2>4 DEF Chosen, Least, Ready, ServedIn, Surface
  <2>6. \A b \in Actions, t \in Surface : dispatch[b][t] = NoDispatch
    BY <2>4, NothingInFlight
  <2>7. \A b \in Actions : queue[b] # "in_flight"
    BY <2>4 DEF ActionsInFlight
  <2>8. /\ boot' \in Boot /\ boot'.action = a /\ boot'.surface = s
        /\ UNCHANGED <<queue, last, rec, run, tried, other, faults>>
    BY <1>1 DEF Select, Boot
  <2>9. dispatch' = [dispatch EXCEPT ![a][s] = new]
    BY <2>1
  <2>. HIDE DEF new, Invariant
  <2>. QED
    BY <2>3, <2>5, <2>6, <2>7, <2>8, <2>9, DispatchStep
<1>2. CASE Post(a, s)
  <2>1. /\ boot = [pc |-> "command", action |-> a, surface |-> s]
        /\ boot' = [boot EXCEPT !.pc = "receipt"] /\ UNCHANGED <<durable, other>>
    BY <1>2 DEF Post
  <2>2. dispatch[a][s].status = "dispatch_intent"
    BY <2>1 DEF Bookkeeping
  <2>3. dispatch[a][s] # NoDispatch
    BY <2>2 DEF NoDispatch
  <2>4. PICK new \in RunState : run' = [run EXCEPT ![a][s] = new]
    <3>1. CASE run' = [run EXCEPT ![a][s] = "active"]
      BY <3>1 DEF RunState
    <3>2. CASE run' = [run EXCEPT ![a][s] = "foreign"]
      BY <3>2 DEF RunState
    <3>3. CASE run' = run
      <4>1. run \in [Actions -> [Surface -> RunState]]
        BY DEF TypeOK
      <4>2. run[a][s] \in RunState /\ run = [run EXCEPT ![a][s] = run[a][s]]
        BY <4>1
      <4>. QED
        BY <3>3, <4>2
    <3>. QED
      BY <1>2, <3>1, <3>2, <3>3 DEF Post
  <2>5. tried' \in [Actions -> SUBSET Providers]
    <3>1. s = "corrective" => rec[a].correction \in Providers
      BY <2>3 DEF Bookkeeping, TypeOK, Recovery
    <3>. QED
      BY <1>2, <3>1 DEF Post, TypeOK
  <2>6. faults' \in 0..MaxFaults
    BY <1>2, ConstantsAssumption DEF Post, TypeOK
  <2>7. boot' \in Boot /\ boot'.action = a /\ boot'.surface = s
    BY <2>1 DEF Boot
  <2>. HIDE DEF Invariant
  <2>. QED
    BY <2>1, <2>2, <2>3, <2>4, <2>5, <2>6, <2>7, RunStep
<1>3. CASE Bind(a, s)
  <2>. DEFINE new == [dispatch[a][s] EXCEPT !.status = "dispatched"]
  <2>1. /\ boot = [pc |-> "receipt", action |-> a, surface |-> s]
        /\ dispatch' = [dispatch EXCEPT ![a][s] = new]
        /\ boot' = Idle /\ UNCHANGED <<queue, last, rec, run, tried, other, faults>>
    BY <1>3 DEF Bind
  <2>2. dispatch[a][s].status = "dispatch_intent"
    BY <2>1 DEF Bookkeeping
  <2>3. dispatch[a][s] # NoDispatch
    BY <2>2 DEF NoDispatch
  <2>4. /\ rec[a].status = ServedIn(s) /\ dispatch[a][s].id = Identity(a, s)
        /\ s = "corrective" => rec[a].correction # NoProvider
    BY <2>3 DEF IdentityKept, Bookkeeping
  <2>5. dispatch[a][s] \in Dispatch
    BY DEF TypeOK
  <2>6. new \in Dispatch /\ new.status = "dispatched"
        /\ new.id = Identity(a, s)
    BY <2>4, <2>5 DEF Dispatch
  <2>7. /\ \A b \in Actions : queue[b] # "in_flight"
        /\ \A b \in Actions, t \in Surface :
             b # a \/ t # s => dispatch[b][t] = NoDispatch
    BY <2>3 DEF OneInFlight
  <2>8. boot' \in Boot /\ boot'.pc = "idle"
    BY <2>1 DEF Idle, Boot, Surface
  <2>. HIDE DEF new, Invariant
  <2>. QED
    BY <2>1, <2>4, <2>6, <2>7, <2>8, DispatchStep
<1>4. CASE Reconcile(a, s)
  <2>1. /\ boot' \in Boot /\ boot'.action = a /\ boot'.surface = s
        /\ dispatch[a][s].status = "dispatch_intent"
        /\ UNCHANGED <<durable, run, tried, other, faults>>
    BY <1>4 DEF Reconcile, Boot
  <2>2. dispatch[a][s] # NoDispatch
    BY <2>1 DEF NoDispatch
  <2>3. run \in [Actions -> [Surface -> RunState]]
        /\ tried \in [Actions -> SUBSET Providers] /\ faults \in 0..MaxFaults
    BY DEF TypeOK
  <2>4. PICK new \in RunState : run' = [run EXCEPT ![a][s] = new]
    <3>1. run[a][s] \in RunState /\ run = [run EXCEPT ![a][s] = run[a][s]]
      BY <2>3
    <3>. QED
      BY <2>1, <3>1
  <2>5. /\ UNCHANGED <<durable, other>> /\ tried' \in [Actions -> SUBSET Providers]
        /\ faults' \in 0..MaxFaults /\ boot' \in Boot
        /\ boot'.pc # "idle" =>
             /\ boot'.action \in Actions
             /\ dispatch[boot'.action][boot'.surface].status = "dispatch_intent"
    BY <2>1, <2>3
  <2>. HIDE DEF Invariant
  <2>. QED
    BY <2>2, <2>4, <2>5, RunStep
<1>. QED
  BY <1>1, <1>2, <1>3, <1>4 DEF Bootstrap

\* A worker ends only where it was dispatched, and writes nothing.
LEMMA WorkerKeeps ==
  ASSUME Invariant, NEW a \in Actions, NEW s \in Surface, WorkerEnds(a, s)
  PROVE  Invariant'
<1>1. PICK new \in RunState : run' = [run EXCEPT ![a][s] = new]
  BY DEF WorkerEnds, RunState
<1>2. dispatch[a][s] # NoDispatch
  BY DEF WorkerEnds, Invariant, Bookkeeping
<1>3. UNCHANGED <<durable, tried, boot, other>> /\ faults' \in 0..MaxFaults
  BY ConstantsAssumption DEF WorkerEnds, Invariant, TypeOK
<1>4. /\ tried \in [Actions -> SUBSET Providers] /\ boot \in Boot
      /\ boot.pc # "idle" =>
           /\ boot.action \in Actions
           /\ dispatch[boot.action][boot.surface].status = "dispatch_intent"
  BY DEF Invariant, TypeOK, Bookkeeping
<1>. QED
  BY <1>1, <1>2, <1>3, <1>4, RunStep

\* A bootstrap run that dies leaves the comment as it is.
LEMMA CrashKeeps ==
  ASSUME Invariant, Crash
  PROVE  Invariant'
<1>. USE DEF Invariant, Crash, durable, other
<1>1. TypeOK'
  BY ConstantsAssumption DEF TypeOK, Idle, Boot, Surface
<1>2. OneInFlight' /\ SuspendedWhileUnresolved'
  BY DEF OneInFlight, SuspendedWhileUnresolved, Unresolved
<1>3. IdentityKept'
  BY DEF IdentityKept, Identity
<1>4. Bookkeeping'
  BY DEF Bookkeeping, Idle
<1>. QED
  BY <1>1, <1>2, <1>3, <1>4

\* An artifact is ingested once, into the recovery it was made for.
LEMMA IngestKeeps ==
  ASSUME Invariant, NEW a \in Actions, Ingest(a)
  PROVE  Invariant'
<1>1. rec[a] \in Recovery /\ Registry[a] \in SUBSET Providers
  BY ConstantsAssumption DEF Invariant, TypeOK
<1>2. ASSUME NEW s \in Surface, Terminal(a, s)
      PROVE  rec[a].status = ServedIn(s)
  <2>1. dispatch[a][s] # NoDispatch
    BY <1>2, InFlightIsThere DEF Terminal
  <2>. QED
    BY <2>1 DEF Invariant, IdentityKept
<1>3. CASE DiagnosticIngested(a)
  <2>1. rec[a].status = "open"
    BY <1>2, <1>3 DEF DiagnosticIngested, ServedIn, Surface
  <2>2. /\ Advanced(rec[a]) \in Recovery
        /\ Advanced(rec[a]).status \in {"open", "needs_evidence"}
    BY <1>1, <2>1, AdvancedForm
  <2>. QED
    BY <1>3, <2>2, IngestStep DEF DiagnosticIngested, Surface
<1>4. CASE EvidenceIngested(a)
  <2>. DEFINE new == [rec[a] EXCEPT !.status = "open",
                                    !.available = Registry[a]]
  <2>1. new \in Recovery /\ new.status = "open"
    BY <1>1 DEF Recovery
  <2>2. rec' = [rec EXCEPT ![a] = new]
    BY <1>4 DEF EvidenceIngested
  <2>. HIDE DEF new
  <2>. QED
    BY <1>4, <2>1, <2>2, IngestStep DEF EvidenceIngested, Surface
<1>5. CASE CorrectiveVerified(a)
  <2>. DEFINE new == [rec[a] EXCEPT !.status = "resolved"]
  <2>1. new \in Recovery /\ new.status = "resolved"
    BY <1>1 DEF Recovery
  <2>2. rec' = [rec EXCEPT ![a] = new]
    BY <1>5 DEF CorrectiveVerified
  <2>. HIDE DEF new
  <2>. QED
    BY <1>5, <2>1, <2>2, IngestStep DEF CorrectiveVerified, Surface
<1>6. CASE CorrectiveFails(a)
  <2>. DEFINE new == [rec[a] EXCEPT !.failed = @ \cup {rec[a].correction},
                                    !.correction = NoProvider]
  <2>1. rec[a].status = "open" /\ rec[a].correction \in Providers
    <3>1. dispatch[a]["corrective"] # NoDispatch
      BY <1>6, InFlightIsThere DEF CorrectiveFails, Terminal, Surface
    <3>. QED
      BY <1>1, <1>2, <1>6, <3>1
      DEF CorrectiveFails, ServedIn, Surface, Invariant, Bookkeeping, Recovery
  <2>2. new \in Recovery /\ new.status = "open"
    BY <1>1, <2>1 DEF Recovery
  <2>3. rec' = [rec EXCEPT ![a] = new]
    BY <1>6 DEF CorrectiveFails
  <2>. HIDE DEF new
  <2>. QED
    BY <1>6, <2>2, <2>3, IngestStep DEF CorrectiveFails, Surface
<1>. QED
  BY <1>3, <1>4, <1>5, <1>6 DEF Ingest

\* The invariant is inductive.
LEMMA NextKeeps == Invariant /\ [Next]_vars => Invariant'
<1>. SUFFICES ASSUME Invariant, [Next]_vars PROVE Invariant'
  OBVIOUS
<1>1. CASE UNCHANGED vars
  <2>. USE <1>1 DEF vars, durable, other
  <2>1. TypeOK' /\ OneInFlight'
    BY DEF Invariant, TypeOK, OneInFlight
  <2>2. IdentityKept'
    <3>1. \A a \in Actions, s \in Surface : Identity(a, s)' = Identity(a, s)
      BY DEF Identity
    <3>. QED
      BY <3>1 DEF Invariant, IdentityKept
  <2>3. SuspendedWhileUnresolved'
    BY DEF Invariant, SuspendedWhileUnresolved, Unresolved
  <2>4. Bookkeeping'
    BY DEF Invariant, Bookkeeping
  <2>. QED
    BY <2>1, <2>2, <2>3, <2>4 DEF Invariant
<1>. QED
  BY <1>1, OrdinaryKeeps, BootstrapKeeps, WorkerKeeps, IngestKeeps,
     ReasoningKeeps, CrashKeeps
  DEF Next

\* Every reachable state satisfies the invariant.
LEMMA Invariance == Spec => []Invariant
  BY InitInvariant, NextKeeps, PTL DEF Spec

-----------------------------------------------------------------------------
(* The theorems.                                                            *)

\* What the comment and GitHub hold is well formed: above all, a correction is
\* dispatched and blamed only with a provider that exists.
THEOREM TypeCorrect == Spec => []TypeOK
<1>1. Invariant => TypeOK
  BY DEF Invariant
<1>. QED
  BY <1>1, Invariance, PTL

\* However many actions are under recovery, whatever crashes and whatever is
\* lost, no recovery worker is ever beside another one or beside an action, and
\* two actions are in flight only after a give-up was torn: nothing else makes
\* the selection raise "multiple in-flight durable workflows".
THEOREM SingleWorker == Spec => []OneInFlight
<1>1. Invariant => OneInFlight
  BY DEF Invariant
<1>. QED
  BY <1>1, Invariance, PTL

\* A dispatch keeps the identity it was recorded with until it is ingested, so
\* resuming it never raises.
THEOREM DispatchIdentity == Spec => []IdentityKept
<1>1. Invariant => IdentityKept
  BY DEF Invariant
<1>. QED
  BY <1>1, Invariance, PTL

\* An action under recovery stays suspended: its corrective run never races an
\* ordinary execution of the same plan.
THEOREM RecoveryExcludesExecution == Spec => []SuspendedWhileUnresolved
<1>1. Invariant => SuspendedWhileUnresolved
  BY DEF Invariant
<1>. QED
  BY <1>1, Invariance, PTL

-----------------------------------------------------------------------------
(* Providers.                                                               *)

\* What a step does to the providers of a recovery: nothing, a new recovery in
\* place of a settled one, a selection, or the failure of the selected one.
LEMMA ProviderSteps ==
  ASSUME Invariant, [Next]_vars, NEW a \in Actions
  PROVE  \/ rec'[a] = rec[a]
         \/ /\ ~Unresolved(a)
            /\ \E failure \in FailureKind : rec'[a] = Opened(failure)
         \/ /\ rec'[a].failed = rec[a].failed
            /\ \/ rec'[a].correction = rec[a].correction
               \/ rec'[a].correction \in Providers \ rec[a].failed
         \/ /\ rec[a].correction \in Providers
            /\ rec'[a].failed = rec[a].failed \cup {rec[a].correction}
            /\ rec'[a].correction = NoProvider
<1>. DEFINE Goal ==
       \/ rec'[a] = rec[a]
       \/ /\ ~Unresolved(a)
          /\ \E failure \in FailureKind : rec'[a] = Opened(failure)
       \/ /\ rec'[a].failed = rec[a].failed
          /\ \/ rec'[a].correction = rec[a].correction
             \/ rec'[a].correction \in Providers \ rec[a].failed
       \/ /\ rec[a].correction \in Providers
          /\ rec'[a].failed = rec[a].failed \cup {rec[a].correction}
          /\ rec'[a].correction = NoProvider
<1>0. rec \in [Actions -> Recovery] /\ rec[a] \in Recovery
  BY DEF Invariant, TypeOK
<1>1. ASSUME NEW b \in Actions, Ordinary(b) PROVE Goal
  <2>1. CASE ActionFails(b)
    <3>1. ~Unresolved(b)
      BY <2>1 DEF ActionFails, Observed, ActionsInFlight, Invariant,
                  SuspendedWhileUnresolved
    <3>2. rec' = rec \/ \E failure \in FailureKind :
                        rec' = [rec EXCEPT ![b] = Opened(failure)]
      BY <2>1, ConstantsAssumption DEF ActionFails
    <3>. QED
      BY <1>0, <3>1, <3>2
  <2>2. CASE PlanAction(b) \/ RetryAction(b) \/ ActionSettles(b) \/ GiveUpTorn(b)
    BY <2>2 DEF PlanAction, RetryAction, ActionSettles, GiveUpTorn, durable
  <2>. QED
    BY <1>1, <2>1, <2>2 DEF Ordinary
<1>2. ASSUME NEW b \in Actions, NEW s \in Surface,
             Bootstrap(b, s) \/ WorkerEnds(b, s)
      PROVE  Goal
  BY <1>2 DEF Bootstrap, Select, Post, Bind, Reconcile, WorkerEnds, durable
<1>3. ASSUME NEW b \in Actions, DiagnosticIngested(b) PROVE Goal
  <2>1. rec' = [rec EXCEPT ![b] = Advanced(rec[b])]
    BY <1>3 DEF DiagnosticIngested
  <2>2. rec[b].status = "open"
    <3>1. dispatch[b]["diagnostic"] # NoDispatch
      BY <1>3, InFlightIsThere DEF DiagnosticIngested, Terminal, Surface
    <3>. QED
      BY <3>1 DEF Invariant, IdentityKept, ServedIn, Surface
  <2>3. /\ Advanced(rec[b]).failed = rec[b].failed
        /\ \/ Advanced(rec[b]).correction = rec[b].correction
           \/ Advanced(rec[b]).correction \in Providers \ rec[b].failed
    BY <1>0, <2>2, AdvancedForm
  <2>. QED
    BY <1>0, <2>1, <2>3
<1>4. ASSUME NEW b \in Actions, EvidenceIngested(b) \/ CorrectiveVerified(b)
      PROVE  Goal
  <2>1. rec'[a].failed = rec[a].failed /\ rec'[a].correction = rec[a].correction
    BY <1>0, <1>4 DEF EvidenceIngested, CorrectiveVerified, Recovery
  <2>. QED
    BY <2>1
<1>5. ASSUME NEW b \in Actions, CorrectiveFails(b) PROVE Goal
  <2>1. CASE b = a
    <3>1. /\ rec'[a].failed = rec[a].failed \cup {rec[a].correction}
          /\ rec'[a].correction = NoProvider
      BY <1>0, <1>5, <2>1 DEF CorrectiveFails, Recovery
    <3>2. dispatch[a]["corrective"] # NoDispatch
      BY <1>5, <2>1, InFlightIsThere DEF CorrectiveFails, Terminal, Surface
    <3>3. rec[a].correction \in Providers
      BY <1>0, <3>2 DEF Invariant, Bookkeeping, Recovery
    <3>. QED
      BY <3>1, <3>3
  <2>2. CASE b # a
    BY <1>0, <1>5, <2>2 DEF CorrectiveFails
  <2>. QED
    BY <2>1, <2>2
<1>6. ASSUME Crash \/ ReasoningBlocks \/ UNCHANGED vars PROVE Goal
  BY <1>6 DEF Crash, ReasoningBlocks, vars, durable
<1>. HIDE DEF Goal
<1>7. Goal
  BY <1>1, <1>2, <1>3, <1>4, <1>5, <1>6 DEF Next, Ingest
<1>. QED
  BY <1>7 DEF Goal

\* The provider selected is none of those that failed.
Unblamed == \A a \in Actions : rec[a].correction \notin rec[a].failed

\* Unblamed is kept by every step, and a step that leaves a recovery
\* unresolved forgets no failure.
LEMMA UnblamedKept ==
  ASSUME Invariant, Unblamed, [Next]_vars, NEW a \in Actions
  PROVE  /\ rec'[a].correction \notin rec'[a].failed
         /\ Unresolved(a) => rec[a].failed \subseteq rec'[a].failed
<1>1. rec[a] \in Recovery /\ rec[a].correction \notin rec[a].failed
  BY DEF Invariant, TypeOK, Unblamed
<1>2. NoProvider \notin Providers /\ rec[a].failed \subseteq Providers
  BY <1>1, ConstantsAssumption DEF Recovery
<1>3. ASSUME NEW failure \in FailureKind
      PROVE  Opened(failure).correction \notin Opened(failure).failed
  <2>1. Opened(failure).failed \subseteq Providers
    BY <1>3, Constants DEF Recovery
  <2>2. Opened(failure).correction = NoProvider
    BY DEF Opened, NoRecovery
  <2>. QED
    BY <1>2, <2>1, <2>2
<1>. QED
  BY <1>1, <1>2, <1>3, ProviderSteps

\* A provider that failed is never tried again in the same recovery, whatever
\* evidence, crashes and corrections come in between.
THEOREM NoProviderRetried == Spec => NoProviderTwice
<1>. DEFINE Kept ==
       \A a \in Actions :
         Unresolved(a) /\ rec'[a].status \in {"open", "needs_evidence"} =>
           /\ rec[a].failed \subseteq rec'[a].failed
           /\ rec'[a].correction \notin rec'[a].failed
<1>1. Init => Unblamed
  BY DEF Init, Unblamed, NoRecovery
<1>2. Invariant /\ Unblamed /\ [Next]_vars => Unblamed' /\ [Kept]_vars
  BY UnblamedKept DEF Unblamed
<1>. QED
  BY <1>1, <1>2, Invariance, PTL DEF Spec, NoProviderTwice

-----------------------------------------------------------------------------
(***************************************************************************)
(* The controller cycle.                                                   *)
(*                                                                         *)
(* A cycle is about one issue (CycleStep): the owner of the slot it sees,  *)
(* or the one whose turn it is when it sees none.  What it may leave       *)
(* behind is Outcome, for a crash between its two writes too, and that     *)
(* is what keeps one turn at a time (OneTurn): the two comments need not   *)
(* agree, but a turn that is not the owner's needs a slot to be given up.  *)
(***************************************************************************)

\* A slot that can be in the comment.  Its owner was once an open issue, a
\* recovery is that of a suspended action, a retired slot holds nothing and its
\* issue is closed for good, and both a merge that was read back and a close
\* that was planned have a merged pull request behind them.
Good(s) ==
  /\ s \in Slot
  /\ issue[s.owner] # "none"
  /\ \A p \in s.recovering : s.queue[p] = "suspended"
  /\ s.retired => Queued(s) = {} /\ Active(s) = {} /\ issue[s.owner] = "closed"
  /\ "merge" \in s.proven => pr[s.owner] = "merged"
  /\ s.queue["close"] # "absent" => pr[s.owner] = "merged"

\* The slot in the comment is a good one.
SlotOK == state # NoSlot => Good(state)

\* Issues enter the ledger only when they are observed.
KnownOK == \A w \in Works : ledger[w] # "absent" => issue[w] # "none"

\* The issues somebody has a turn for, and the slot that waits for the next one.
BusyIn(work) == With("reasoning_required", work) \cup With("planned", work)
Given == state # NoSlot /\ CanRollover(state) /\ issue[state.owner] # "open"

\* One issue at most has a turn, and it is the owner of the slot until the slot
\* can be rolled over and its issue is closed.
OneTurn ==
  /\ \A v, w \in BusyIn(ledger) : v = w
  /\ state # NoSlot /\ ~Given => BusyIn(ledger) \subseteq {state.owner}

\* The inductive invariant.
CycleInvariant == CycleTypeOK /\ SlotOK /\ KnownOK /\ (~Truncated => OneTurn)

\* A set of numbers has a least one.
LEMMA LeastExists ==
  ASSUME NEW S, S \subseteq Nat, S # {}
  PROVE  \E n \in S : \A m \in S : n <= m
<1>1. PICK n \in S : \A m \in S : ~(<<m, n>> \in OpToRel(<, Nat))
  BY NatLessThanWellFounded, WFMin
<1>2. \A m \in S : ~(m < n)
  BY <1>1 DEF OpToRel
<1> QED BY <1>2

-----------------------------------------------------------------------------
(* Slots.                                                                   *)

\* The plans of the controller are apart from those of reasoning.
LEMMA Plans ==
  /\ "merge" \in Plan /\ "close" \in Plan /\ "branch" \in Plan
  /\ Tasks \subseteq Plan
  /\ \A t \in Tasks : t # "merge" /\ t # "close" /\ t # "branch"
BY CycleAssumption DEF Plan

\* A slot is not the empty one.
LEMMA NotEmpty == \A s \in Slot : s # NoSlot
<1>1. ASSUME NEW s \in Slot, s = NoSlot
      PROVE  FALSE
  <2>1. "queue" \in DOMAIN s
    BY DEF Slot
  <2>2. DOMAIN NoSlot = {"owner"}
    BY DEF NoSlot
  <2> QED BY <1>1, <2>1, <2>2
<1> QED BY <1>1

\* The slot of a workload that begins.
LEMMA FreshIsGood ==
  ASSUME NEW w \in Works, issue[w] # "none"
  PROVE  Good(Fresh(w)) /\ Fresh(w).owner = w /\ ~Fresh(w).retired
<1>1. Fresh(w) \in Slot
  BY DEF Fresh, Slot, PlanStatus, SettledStatus, InFlightStatus, ActiveFailure
<1>2. \A p \in Plan : Fresh(w).queue[p] = "absent"
  BY DEF Fresh
<1>3. /\ Fresh(w).owner = w /\ Fresh(w).recovering = {} /\ ~Fresh(w).retired
      /\ Fresh(w).proven = {}
  BY DEF Fresh
<1> QED BY <1>1, <1>2, <1>3, Plans DEF Good

\* One plan gets another status.
LEMMA QueueEdit ==
  ASSUME NEW s \in Slot, NEW p \in Plan, NEW st \in PlanStatus
  PROVE  LET t == [s EXCEPT !.queue[p] = st] IN
         /\ t \in Slot /\ t.owner = s.owner
         /\ \A q \in Plan : t.queue[q] = IF q = p THEN st ELSE s.queue[q]
         /\ t.proven = s.proven /\ t.governed = s.governed
         /\ t.recovering = s.recovering /\ t.retired = s.retired
         /\ t.failure = s.failure
<1> DEFINE t == [s EXCEPT !.queue[p] = st]
<1>1. s.queue \in [Plan -> PlanStatus]
  BY DEF Slot
<1>2. t = [s EXCEPT !.queue = [s.queue EXCEPT ![p] = st]]
  OBVIOUS
<1>3. [s.queue EXCEPT ![p] = st] \in [Plan -> PlanStatus]
  BY <1>1
<1> QED BY <1>1, <1>2, <1>3 DEF Slot

\* A plan whose recovery is not open moves on; a close only when it was planned
\* before, or the pull request is merged.
LEMMA QueueEditIsGood ==
  ASSUME NEW s, Good(s), ~s.retired, NEW p \in Plan, NEW st \in PlanStatus,
         s.queue[p] # "suspended",
         p = "close" => s.queue["close"] # "absent" \/ pr[s.owner] = "merged"
  PROVE  LET t == [s EXCEPT !.queue[p] = st] IN
         Good(t) /\ t.owner = s.owner /\ ~t.retired
<1> DEFINE t == [s EXCEPT !.queue[p] = st]
<1>1. /\ t \in Slot /\ t.owner = s.owner
      /\ \A q \in Plan : t.queue[q] = IF q = p THEN st ELSE s.queue[q]
      /\ t.proven = s.proven /\ t.recovering = s.recovering /\ t.retired = s.retired
  BY QueueEdit DEF Good
<1> HIDE DEF t
<1>2. s.recovering \subseteq Plan
  BY DEF Good, Slot
<1>3. \A q \in t.recovering : t.queue[q] = "suspended"
  BY <1>1, <1>2 DEF Good
<1>4. t.queue["close"] # "absent" => pr[t.owner] = "merged"
  BY <1>1, Plans DEF Good
<1>5. Good(t) /\ t.owner = s.owner /\ ~t.retired
  BY <1>1, <1>3, <1>4 DEF Good
<1> QED BY <1>5 DEF t

\* Failures and the commit last seen say nothing of the queue.
LEMMA FailureEditIsGood ==
  ASSUME NEW s, Good(s), ~s.retired, NEW seen \in BOOLEAN,
         NEW failure \in [Errors -> ActiveFailure \cup {"none", "resolved"}]
  PROVE  LET t == [s EXCEPT !.failure = failure, !.seen = seen] IN
         /\ Good(t) /\ t.owner = s.owner /\ ~t.retired /\ t.queue = s.queue
<1> DEFINE t == [s EXCEPT !.failure = failure, !.seen = seen]
<1>1. /\ t \in Slot /\ t.owner = s.owner /\ t.queue = s.queue
      /\ t.proven = s.proven /\ t.recovering = s.recovering /\ t.retired = s.retired
  BY DEF Good, Slot
<1> HIDE DEF t
<1>2. Good(t) /\ t.owner = s.owner /\ ~t.retired /\ t.queue = s.queue
  BY <1>1 DEF Good
<1> QED BY <1>2 DEF t

\* The same when the commit last seen stays.
LEMMA FailureAloneIsGood ==
  ASSUME NEW s, Good(s), ~s.retired,
         NEW failure \in [Errors -> ActiveFailure \cup {"none", "resolved"}]
  PROVE  LET t == [s EXCEPT !.failure = failure] IN
         /\ Good(t) /\ t.owner = s.owner /\ ~t.retired /\ t.queue = s.queue
<1> DEFINE t == [s EXCEPT !.failure = failure]
<1>1. /\ t \in Slot /\ t.owner = s.owner /\ t.queue = s.queue
      /\ t.proven = s.proven /\ t.recovering = s.recovering /\ t.retired = s.retired
  BY DEF Good, Slot
<1> HIDE DEF t
<1>2. Good(t) /\ t.owner = s.owner /\ ~t.retired /\ t.queue = s.queue
  BY <1>1 DEF Good
<1> QED BY <1>2 DEF t

-----------------------------------------------------------------------------
(* What a cycle may write about the workload w, having seen the ledger work. *)

Ledgers == [Works -> LedgerStatus]

\* A ledger that says nothing new of any other issue.
About(w, work) == {l \in Ledgers : \A v \in Works : v # w => l[v] = work[v]}

\* A slot that a cycle about w may leave behind.
SlotFor(w, t) == t = state \/ (Good(t) /\ t.owner = w)

Outcome(w, work) ==
  /\ ledger' \in About(w, work)
  /\ SlotFor(w, state')
  /\ UNCHANGED world /\ crashes' \in 0..MaxCrashes /\ moved' \in BOOLEAN

\* Writing a ledger and a slot about w.
LEMMA WriteOutcome ==
  ASSUME CycleTypeOK, NEW w \in Works, NEW work, NEW l \in About(w, work),
         NEW t, SlotFor(w, t), WriteOnly(l, t)
  PROVE  Outcome(w, work)
<1>1. ledger' = l /\ state' \in {t, state} /\ UNCHANGED world /\ moved' = moved
  BY DEF WriteOnly, Write
<1>2. crashes' \in 0..MaxCrashes
  BY CycleAssumption DEF WriteOnly, Write, CycleTypeOK
<1>3. SlotFor(w, state')
  BY <1>1 DEF SlotFor
<1> QED BY <1>1, <1>2, <1>3 DEF Outcome, CycleTypeOK

\* Recording an intent in the slot of w.
LEMMA IntentOutcome ==
  ASSUME CycleTypeOK, NEW w \in Works, NEW work, NEW l \in About(w, work),
         NEW s, Good(s), ~s.retired, s.owner = w,
         NEW p \in Plan, s.queue[p] # "suspended",
         p = "close" => s.queue["close"] # "absent" \/ pr[w] = "merged",
         WriteIntent(l, s, p)
  PROVE  Outcome(w, work)
<1>1. PICK st \in InFlightStatus : Write(l, [s EXCEPT !.queue[p] = st])
  BY DEF WriteIntent
<1>2. st \in PlanStatus
  BY DEF PlanStatus, InFlightStatus
<1> DEFINE t == [s EXCEPT !.queue[p] = st]
<1>3. Good(t) /\ t.owner = w
  BY <1>2, QueueEditIsGood
<1> HIDE DEF t
<1>4. Write(l, t)
  BY <1>1 DEF t
<1>5. ledger' = l /\ state' \in {t, state} /\ UNCHANGED world
  BY <1>4 DEF Write
<1>6. crashes' \in 0..MaxCrashes
  BY <1>4, CycleAssumption DEF Write, CycleTypeOK
<1>7. moved' \in BOOLEAN
  BY DEF WriteIntent, CycleTypeOK
<1>8. SlotFor(w, state')
  BY <1>3, <1>5 DEF SlotFor
<1> QED BY <1>5, <1>6, <1>7, <1>8 DEF Outcome

\* Once more about the same issue.
LEMMA AboutAgain ==
  ASSUME NEW w \in Works, NEW work, NEW l \in About(w, work), NEW st \in LedgerStatus
  PROVE  [l EXCEPT ![w] = st] \in About(w, work)
BY DEF About, Ledgers

\* A failure that is resolved, or recorded, is a failure still.
LEMMA FailureKept ==
  ASSUME NEW s \in Slot
  PROVE  /\ Resolved(s).failure \in [Errors -> ActiveFailure \cup {"none", "resolved"}]
         /\ Resolved(s) = [s EXCEPT !.failure = Resolved(s).failure]
         /\ \A e \in Errors : \A st \in Recorded(s.failure[e]) :
              [s.failure EXCEPT ![e] = st] \in [Errors -> ActiveFailure \cup {"none", "resolved"}]
<1>1. s.failure \in [Errors -> ActiveFailure \cup {"none", "resolved"}] 
  BY DEF Slot
<1> DEFINE f == [e \in Errors |-> IF s.failure[e] = "retryable" THEN "resolved" ELSE s.failure[e]]
<1>2. f \in [Errors -> ActiveFailure \cup {"none", "resolved"}]
  BY <1>1
<1>3. Resolved(s) = [s EXCEPT !.failure = f]
  BY DEF Resolved
<1> HIDE DEF f
<1>4. Resolved(s).failure = f
  BY <1>3 DEF Slot
<1>5. \A e \in Errors : Recorded(s.failure[e]) \subseteq ActiveFailure
  BY DEF Recorded, ActiveFailure
<1> QED BY <1>1, <1>2, <1>3, <1>4, <1>5

\* Semantic reasoning writes about its own work, into a slot of its own.
LEMMA ReasonOutcome ==
  ASSUME CycleTypeOK, NEW w \in Works, issue[w] # "none", NEW work, NEW l \in About(w, work),
         NEW s, s = NoSlot \/ (Good(s) /\ ~s.retired /\ s.owner = w),
         Reason(w, s, l)
  PROVE  Outcome(w, work)
<1> DEFINE base == IF s = NoSlot THEN Fresh(w) ELSE s
<1>1. Good(base) /\ ~base.retired /\ base.owner = w
  BY FreshIsGood
<1>2. \/ WriteOnly(l, state)
      \/ ReasonWithProvider(w, base, l)
      \/ ReasonWithSubmission(w, base, l)
  BY DEF Reason
<1> HIDE DEF base
<1>3. SlotFor(w, state)
  BY DEF SlotFor
<1>4. \A st \in {"planned", "blocked"} : [l EXCEPT ![w] = st] \in About(w, work)
  BY AboutAgain DEF LedgerStatus
<1>5. base \in Slot
  BY <1>1 DEF Good
<1>6. CASE WriteOnly(l, state)
  BY <1>3, <1>6, WriteOutcome
<1>7. CASE ReasonWithSubmission(w, base, l)
  <2> DEFINE t == submission[w]
  <2>1. CASE t # "none" /\ base.queue[t] \in {"absent", "pending"}
             /\ WriteIntent([l EXCEPT ![w] = "planned"], base, t)
    <3>1. t \in Tasks
      BY <2>1 DEF CycleTypeOK
    <3> HIDE DEF t
    <3>2. t \in Plan /\ t # "close" /\ base.queue[t] # "suspended"
      BY <2>1, <3>1, Plans
    <3> QED BY <1>1, <1>4, <2>1, <3>2, IntentOutcome
  <2>2. CASE WriteOnly([l EXCEPT ![w] = "blocked"], state)
    BY <1>3, <1>4, <2>2, WriteOutcome
  <2> QED BY <1>6, <1>7, <2>1, <2>2 DEF ReasonWithSubmission
<1>8. CASE ReasonWithProvider(w, base, l)
  <2> DEFINE resolved == Resolved(base)
             seen == [resolved EXCEPT !.seen = TRUE]
             f == resolved.failure
  <2>0. /\ f \in [Errors -> ActiveFailure \cup {"none", "resolved"}]
        /\ resolved = [base EXCEPT !.failure = f]
        /\ seen = [base EXCEPT !.failure = f, !.seen = TRUE]
    <3>1. /\ f \in [Errors -> ActiveFailure \cup {"none", "resolved"}]
          /\ resolved = [base EXCEPT !.failure = f]
      BY <1>5, FailureKept
    <3> HIDE DEF f, resolved
    <3> QED BY <1>5, <3>1 DEF Slot
  <2> HIDE DEF resolved, seen, f
  <2>1. Good(resolved) /\ resolved.owner = w
    BY <1>1, <2>0, FailureAloneIsGood
  <2>2. Good(seen) /\ seen.owner = w /\ ~seen.retired /\ seen.queue = base.queue
    BY <1>1, <2>0, FailureEditIsGood
  <2>3. CASE \E e \in Errors : \E st \in Recorded(base.failure[e]) :
               WriteOnly(l, [base EXCEPT !.failure[e] = st])
    <3>0. PICK e \in Errors : \E st \in Recorded(base.failure[e]) :
            WriteOnly(l, [base EXCEPT !.failure[e] = st])
      BY <2>3
    <3>1. PICK st \in Recorded(base.failure[e]) :
            WriteOnly(l, [base EXCEPT !.failure[e] = st])
      BY <3>0
    <3> DEFINE g == [base.failure EXCEPT ![e] = st]
               t == [base EXCEPT !.failure = g]
    <3>2. g \in [Errors -> ActiveFailure \cup {"none", "resolved"}]
      BY <1>5, FailureKept
    <3>3. [base EXCEPT !.failure[e] = st] = t
      BY <1>5 DEF Slot
    <3> HIDE DEF g
    <3>4. Good(t) /\ t.owner = w
      BY <1>1, <3>2, FailureAloneIsGood
    <3> HIDE DEF t
    <3>5. SlotFor(w, t) /\ WriteOnly(l, t)
      BY <3>1, <3>3, <3>4 DEF SlotFor
    <3> QED BY <3>5, WriteOutcome
  <2>4. CASE \E t \in Tasks :
               /\ base.queue[t] = "absent"
               /\ WriteIntent([l EXCEPT ![w] = "planned"], seen, t)
    <3>1. PICK t \in Tasks :
               /\ base.queue[t] = "absent"
               /\ WriteIntent([l EXCEPT ![w] = "planned"], seen, t)
      BY <2>4
    <3>2. t \in Plan /\ t # "close" /\ seen.queue[t] # "suspended"
      BY <2>2, <3>1, Plans
    <3> QED BY <1>4, <2>2, <3>1, <3>2, IntentOutcome
  <2>5. CASE WriteOnly(l, IF resolved = base THEN state ELSE resolved)
    <3>1. SlotFor(w, IF resolved = base THEN state ELSE resolved)
      BY <2>1 DEF SlotFor
    <3> QED BY <2>5, <3>1, WriteOutcome
  <2>6. CASE WriteOnly([l EXCEPT ![w] = "blocked"], seen)
    <3>1. SlotFor(w, seen)
      BY <2>2 DEF SlotFor
    <3> QED BY <1>4, <2>6, <3>1, WriteOutcome
  <2> QED BY <1>8, <2>3, <2>4, <2>5, <2>6 DEF ReasonWithProvider, resolved, seen
<1> QED BY <1>2, <1>6, <1>7, <1>8

-----------------------------------------------------------------------------
(* What a cycle reads.                                                      *)

\* An observed issue is open, and nothing open is missed when no page is.
LEMMA ListingForm ==
  ASSUME NEW listing \in Listing
  PROVE  listing \subseteq Open /\ (~Truncated => listing = Open)
BY DEF Listing

\* A ledger only learns of issues that are observed, and of the end of the
\* workload that yields.
LEMMA WorkForm ==
  ASSUME CycleTypeOK, KnownOK, SlotOK, NEW listing \in Listing
  PROVE  LET work == Work(listing) IN
         /\ work \in Ledgers
         /\ \A w \in Works : work[w] # "absent" => issue[w] # "none"
         /\ \A w \in BusyIn(work) : w \in BusyIn(ledger)
<1>1. Discovered(listing) \in Ledgers
  BY DEF Discovered, Ledgers, CycleTypeOK, LedgerStatus
<1>2. \A w \in Works : /\ Discovered(listing)[w] # "absent" => issue[w] # "none"
                       /\ Discovered(listing)[w] \in {"reasoning_required", "planned"}
                            => Discovered(listing)[w] = ledger[w]
  BY ListingForm DEF Discovered, KnownOK, Open
<1> DEFINE found == Discovered(listing)
<1> HIDE DEF found
<1>3. CASE Yields(listing)
  <2>1. state \in Slot /\ issue[state.owner] # "none" /\ state.owner \in Works
    BY <1>3 DEF Yields, CycleTypeOK, SlotOK, Good, Slot
  <2>2. Work(listing) = [found EXCEPT ![state.owner] = "complete"]
    BY <1>3 DEF Work, found
  <2>3. found \in Ledgers
        /\ \A w \in Works : /\ found[w] # "absent" => issue[w] # "none"
                            /\ found[w] \in {"reasoning_required", "planned"}
                                 => found[w] = ledger[w]
    BY <1>1, <1>2 DEF found
  <2>4. Work(listing) \in Ledgers
    BY <2>1, <2>2, <2>3 DEF Ledgers, LedgerStatus
  <2> QED BY <2>1, <2>2, <2>3, <2>4 DEF BusyIn, With, Ledgers
<1>4. CASE ~Yields(listing)
  <2>1. Work(listing) = Discovered(listing)
    BY <1>4 DEF Work
  <2> QED BY <1>1, <1>2, <2>1 DEF BusyIn, With
<1> QED BY <1>3, <1>4

\* A slot that a cycle sees is the one of the comment, and not a retired one.
LEMMA CurrentForm ==
  ASSUME CycleTypeOK, SlotOK, NEW listing \in Listing
  PROVE  LET s == Current(listing) IN
         \/ /\ s = NoSlot
            /\ state # NoSlot =>
                 /\ CanRollover(state) /\ Good(state)
                 /\ ~Truncated => issue[state.owner] = "closed"
         \/ /\ s # NoSlot /\ s = state /\ Good(s) /\ ~s.retired
            /\ ~Yields(listing)
<1>1. CASE Yields(listing)
  <2>1. Current(listing) = NoSlot /\ state # NoSlot /\ CanRollover(state) /\ Good(state)
    BY <1>1 DEF Current, Yields, SlotOK
  <2>2. state.owner \in Works /\ issue[state.owner] # "none"
    BY <2>1 DEF Good, Slot
  <2>3. ~Truncated => state.owner \notin Open
    BY <1>1, ListingForm DEF Yields
  <2> QED BY <2>1, <2>2, <2>3 DEF Open, CycleTypeOK
<1>2. CASE ~Yields(listing)
  <2>1. Current(listing) = state
    BY <1>2 DEF Current
  <2>2. ASSUME state # NoSlot, state.retired
        PROVE  FALSE
    <3>1. Active(state) = {} /\ issue[state.owner] = "closed"
      BY <2>2 DEF SlotOK, Good
    <3>2. state.owner \notin listing
      BY <3>1, ListingForm DEF Open
    <3> QED BY <1>2, <2>2, <3>1, <3>2 DEF Yields, CanRollover
  <2> QED BY <1>2, <2>1, <2>2 DEF SlotOK
<1> QED BY <1>1, <1>2

\* With every page of the listing read, no two issues have a turn in what a
\* cycle sees, and none but the owner while there is a slot.
LEMMA BusyForm ==
  ASSUME CycleTypeOK, SlotOK, KnownOK, OneTurn, ~Truncated, NEW listing \in Listing
  PROVE  LET work == Work(listing)
             s == Current(listing)
         IN /\ \A v, w \in BusyIn(work) : v = w
            /\ s # NoSlot => BusyIn(work) \subseteq {s.owner}
<1>1. \A w \in BusyIn(Work(listing)) : w \in BusyIn(ledger)
  BY WorkForm
<1>2. ASSUME Current(listing) # NoSlot
      PROVE  BusyIn(ledger) \subseteq {Current(listing).owner}
  <2>1. Current(listing) = state /\ state # NoSlot /\ ~Yields(listing)
    BY <1>2 DEF Current
  <2>2. CanRollover(state) => state.owner \in Open
    BY <2>1, ListingForm DEF Yields
  <2> QED BY <2>1, <2>2 DEF OneTurn, Given, Open
<1> QED BY <1>1, <1>2 DEF OneTurn

\* The next admitted issue is one of them.
LEMMA LeastIsMember ==
  ASSUME NEW S, S \subseteq Works, S # {}
  PROVE  First(S) \in S
<1>1. \E n \in S : \A m \in S : n <= m
  BY CycleAssumption, LeastExists
<1> QED BY <1>1 DEF First

-----------------------------------------------------------------------------
(* The steps of a cycle.                                                    *)

\* What a cycle knows of the slot and the ledger where it goes.
LEMMA RouteForm ==
  ASSUME NEW listing, NEW s, NEW work
  PROVE  LET route == Route(listing, s, work)
             waiting == With("reasoning_required", work)
             admitted == With("admitted", work)
         IN /\ route = "retire" => Retires(listing)
            /\ route \in {"close", "branch", "merge"} =>
                 s # NoSlot /\ s.queue[route] = "absent"
            /\ route = "close" => Integrated(s)
            /\ route = "continue" => s # NoSlot
            /\ route = "replan" => s = NoSlot
            /\ route = "reason" => \A w \in waiting : ~Taken(s, w)
            /\ route = "issue" => /\ waiting = {} /\ admitted # {}
                                  /\ ~Taken(s, First(admitted))
                                  /\ s = NoSlot => With("planned", work) = {}
            /\ route \in {"retry", "in_flight", "recover"} => s # NoSlot
BY DEF Route

\* A recovered action is pending again.
LEMMA RecoveredIsGood ==
  ASSUME NEW s, Good(s), ~s.retired, NEW p \in s.recovering
  PROVE  LET t == [s EXCEPT !.queue[p] = "pending", !.recovering = @ \ {p}] IN
         Good(t) /\ t.owner = s.owner
<1>0. s \in Slot /\ p \in Plan /\ "pending" \in PlanStatus
  BY DEF Good, Slot, PlanStatus
<1> DEFINE u == [s EXCEPT !.queue[p] = "pending"]
           t == [u EXCEPT !.recovering = s.recovering \ {p}]
<1>1. /\ u \in Slot /\ u.owner = s.owner
      /\ \A q \in Plan : u.queue[q] = IF q = p THEN "pending" ELSE s.queue[q]
      /\ u.proven = s.proven /\ u.retired = s.retired /\ u.recovering = s.recovering
  BY <1>0, QueueEdit
<1>2. [s EXCEPT !.queue[p] = "pending", !.recovering = @ \ {p}] = t
  BY <1>0 DEF Slot
<1> HIDE DEF u
<1>3. /\ t \in Slot /\ t.owner = u.owner /\ t.queue = u.queue
      /\ t.proven = u.proven /\ t.retired = u.retired
      /\ t.recovering = s.recovering \ {p}
  BY <1>0, <1>1 DEF Slot
<1> HIDE DEF t
<1>4. s.recovering \subseteq Plan
  BY <1>0 DEF Slot
<1>5. \A q \in t.recovering : t.queue[q] = "suspended"
  BY <1>1, <1>3, <1>4 DEF Good
<1>6. t.queue["close"] # "absent" => pr[t.owner] = "merged"
  <2>1. s.queue[p] = "suspended"
    BY DEF Good
  <2> QED BY <1>0, <1>1, <1>3, <2>1, Plans DEF Good
<1>7. Good(t) /\ t.owner = s.owner
  BY <1>1, <1>3, <1>5, <1>6 DEF Good
<1> QED BY <1>2, <1>7

\* The retirement of a workload whose issue is closed.
LEMMA RetiredIsGood ==
  ASSUME CycleTypeOK, SlotOK, NEW listing \in Listing, Retires(listing)
  PROVE  LET t == [state EXCEPT !.retired = TRUE] IN
         Good(t) /\ t.owner = state.owner
<1>1. Good(state) /\ Quiescent(state) /\ state.owner \notin Open
  BY DEF Retires, SlotOK
<1>2. state \in Slot /\ state.owner \in Works /\ issue[state.owner] # "none"
  BY <1>1 DEF Good, Slot
<1>3. issue[state.owner] = "closed"
  BY <1>1, <1>2 DEF Open, CycleTypeOK
<1> DEFINE t == [state EXCEPT !.retired = TRUE]
<1>4. /\ t \in Slot /\ t.owner = state.owner /\ t.queue = state.queue
      /\ t.proven = state.proven /\ t.recovering = state.recovering
      /\ t.failure = state.failure
  BY <1>2 DEF Slot
<1> HIDE DEF t
<1>5. Good(t) /\ t.owner = state.owner
  BY <1>1, <1>3, <1>4 DEF Good, Quiescent, Queued, Active
<1> QED BY <1>5 DEF t

\* A cycle is about one issue: the owner of the slot it sees, or, when it sees
\* none, one whose turn it is.  Or it changes no more than the ledger.
LEMMA CycleStep ==
  ASSUME CycleTypeOK, SlotOK, KnownOK, NEW listing \in Listing, Cycle(listing)
  PROVE  LET s == Current(listing)
             work == Work(listing)
         IN \/ \E w \in Works :
                 /\ issue[w] # "none" /\ Outcome(w, work)
                 /\ s # NoSlot => w = s.owner
                 /\ ~Truncated /\ OneTurn => BusyIn(work) \subseteq {w}
            \/ ledger' = work /\ UNCHANGED <<state, world, moved, crashes>>
<1> DEFINE s == Current(listing)
           work == Work(listing)
           route == Route(listing, s, work)
           Goal == \/ \E w \in Works :
                        /\ issue[w] # "none" /\ Outcome(w, work)
                        /\ s # NoSlot => w = s.owner
                        /\ ~Truncated /\ OneTurn => BusyIn(work) \subseteq {w}
                   \/ ledger' = work /\ UNCHANGED <<state, world, moved, crashes>>
<1>1. /\ work \in Ledgers
      /\ \A w \in Works : work[w] # "absent" => issue[w] # "none"
  BY WorkForm
<1>2. \/ s = NoSlot
      \/ s # NoSlot /\ s = state /\ Good(s) /\ ~s.retired
  BY CurrentForm
<1>3. ~Truncated /\ OneTurn => /\ \A v, w \in BusyIn(work) : v = w
                               /\ s # NoSlot => BusyIn(work) \subseteq {s.owner}
  BY BusyForm
<1>4. /\ route = "retire" => Retires(listing)
      /\ route \in {"close", "branch", "merge"} =>
           s # NoSlot /\ s.queue[route] = "absent"
      /\ route = "close" => Integrated(s)
      /\ route = "continue" => s # NoSlot
      /\ route = "replan" => s = NoSlot
      /\ route = "reason" => \A w \in With("reasoning_required", work) : ~Taken(s, w)
      /\ route = "issue" => /\ With("reasoning_required", work) = {}
                            /\ With("admitted", work) # {}
                            /\ ~Taken(s, First(With("admitted", work)))
                            /\ s = NoSlot => With("planned", work) = {}
      /\ route \in {"retry", "in_flight", "recover"} => s # NoSlot
  BY RouteForm
<1>5. \/ route = "retire" /\ Retire(work)
      \/ route \in {"close", "branch", "merge"} /\ PlanDeterministic(route, work)
      \/ route = "continue" /\ Continue(work)
      \/ route = "replan" /\ Replan(work)
      \/ route = "reason" /\ ReasonWaiting(s, work)
      \/ route = "issue" /\ StartIssue(s, work)
      \/ route = "retry" /\ RetryPending(work)
      \/ route = "in_flight" /\ ResumeInFlight(work)
      \/ route = "recover" /\ Recover(work)
      \/ route \in {"owned", "idle"} /\ Observe(work)
  BY DEF Cycle
<1> HIDE DEF s, work, route
<1>6. \A w \in Works : /\ work \in About(w, work)
                       /\ \A st \in LedgerStatus : [work EXCEPT ![w] = st] \in About(w, work)
  <2>1. \A w \in Works : work \in About(w, work)
    BY <1>1 DEF About
  <2> QED BY <2>1, AboutAgain
<1>7. {"planned", "complete", "reasoning_required"} \subseteq LedgerStatus
  BY DEF LedgerStatus
<1> SUFFICES Goal
  BY DEF Goal, s, work
<1> HIDE DEF Goal
<1>8. ASSUME NEW w \in Works, issue[w] # "none", Outcome(w, work),
             s # NoSlot => w = s.owner,
             ~Truncated /\ OneTurn => BusyIn(work) \subseteq {w}
      PROVE  Goal
  BY <1>8 DEF Goal
\* The cycles of the owner of a slot.
<1>10. ASSUME s # NoSlot, Outcome(state.owner, work)
       PROVE  Goal
  BY <1>2, <1>3, <1>8, <1>10 DEF Good, Slot
<1>11. s # NoSlot => /\ state.owner \in Works /\ state \in Slot
                     /\ issue[state.owner] # "none"
                     /\ Good(state) /\ ~state.retired
  BY <1>2 DEF Good, Slot
<1>12. CASE route = "retire" /\ Retire(work)
  <2>1. Retires(listing)
    BY <1>4, <1>12
  <2>2. s # NoSlot
    BY <2>1 DEF Retires, Yields, Current, s
  <2> DEFINE t == [state EXCEPT !.retired = TRUE]
  <2>3. Good(t) /\ t.owner = state.owner
    BY <2>1, RetiredIsGood
  <2> HIDE DEF t
  <2>4. WriteOnly([work EXCEPT ![state.owner] = "complete"], t)
    BY <1>12 DEF Retire, t
  <2>5. SlotFor(state.owner, t)
    BY <2>3 DEF SlotFor
  <2>6. Outcome(state.owner, work)
    BY <1>6, <1>7, <1>11, <2>2, <2>4, <2>5, WriteOutcome
  <2> QED BY <1>10, <2>2, <2>6
<1>13. CASE route \in {"close", "branch", "merge"} /\ PlanDeterministic(route, work)
  <2>1. /\ s # NoSlot /\ s = state /\ state.queue[route] = "absent"
        /\ route \in Plan
    BY <1>2, <1>4, <1>13, Plans
  <2>2. route = "close" => pr[state.owner] = "merged"
    BY <1>4, <1>11, <2>1 DEF Integrated, Good
  <2>3. WriteIntent([work EXCEPT ![state.owner] = "planned"], state, route)
    BY <1>13 DEF PlanDeterministic
  <2>4. state.queue[route] # "suspended"
    BY <2>1
  <2>5. Outcome(state.owner, work)
    BY <1>6, <1>7, <1>11, <2>1, <2>2, <2>3, <2>4, IntentOutcome
  <2> QED BY <1>10, <2>1, <2>5
<1>14. CASE route = "continue" /\ Continue(work)
  <2>1. s # NoSlot /\ s = state
    BY <1>2, <1>4, <1>14
  <2>2. Reason(state.owner, state, [work EXCEPT ![state.owner] = "reasoning_required"])
    BY <1>14 DEF Continue
  <2>3. Outcome(state.owner, work)
    BY <1>6, <1>7, <1>11, <2>1, <2>2, ReasonOutcome
  <2> QED BY <1>10, <2>1, <2>3
<1>15. CASE route = "retry" /\ RetryPending(work)
  <2>1. s # NoSlot /\ s = state
    BY <1>2, <1>4, <1>15
  <2>2. PICK p \in Pending(state) : WriteIntent(work, state, p)
    BY <1>15 DEF RetryPending
  <2>3. p \in Plan /\ state.queue[p] = "pending"
    BY DEF Pending
  <2>4. state.queue[p] # "suspended" /\ (p = "close" => state.queue["close"] # "absent")
    BY <2>3
  <2>5. Outcome(state.owner, work)
    BY <1>6, <1>11, <2>1, <2>2, <2>3, <2>4, IntentOutcome
  <2> QED BY <1>10, <2>1, <2>5
\* The cycles that only look.
<1>24. ASSUME Observe(work) PROVE Goal
  BY <1>24 DEF Goal, Observe, WriteOnly, Write
<1>16. CASE route = "in_flight" /\ ResumeInFlight(work) /\ ~Observe(work)
  <2>1. s # NoSlot /\ s = state
    BY <1>2, <1>4, <1>16
  <2>2. PICK p \in InFlightWork(state) :
          \/ WriteOnly([work EXCEPT ![state.owner] = "reasoning_required"],
                       [state EXCEPT !.queue[p] = "rejected"])
          \/ WriteOnly(work, [state EXCEPT !.queue[p] = "dispatched"])
    <3>1. PICK p \in InFlightWork(state) : GiveUp(p, work) \/ Resume(p, work)
      BY <1>16 DEF ResumeInFlight
    <3>2. CASE GiveUp(p, work)
      BY <3>2 DEF GiveUp
    <3>3. CASE Resume(p, work)
      BY <1>16, <3>3 DEF Resume
    <3> QED BY <3>1, <3>2, <3>3
  <2>3. p \in Plan /\ state.queue[p] # "suspended"
        /\ (p = "close" => state.queue["close"] # "absent")
    BY <2>2 DEF InFlightWork, InFlightStatus
  <2>4. "rejected" \in PlanStatus /\ "dispatched" \in PlanStatus
    BY DEF PlanStatus, SettledStatus, InFlightStatus
  <2>5. /\ SlotFor(state.owner, [state EXCEPT !.queue[p] = "rejected"])
        /\ SlotFor(state.owner, [state EXCEPT !.queue[p] = "dispatched"])
    BY <1>11, <2>1, <2>3, <2>4, QueueEditIsGood DEF SlotFor
  <2>6. Outcome(state.owner, work)
    BY <1>6, <1>7, <1>11, <2>1, <2>2, <2>5, WriteOutcome
  <2> QED BY <1>10, <2>1, <2>6
<1>17. CASE route = "recover" /\ Recover(work) /\ ~Observe(work)
  <2>1. s # NoSlot /\ s = state
    BY <1>2, <1>4, <1>17
  <2>2. PICK p \in state.recovering :
          WriteOnly(work, [state EXCEPT !.queue[p] = "pending", !.recovering = @ \ {p}])
    BY <1>17 DEF Recover
  <2> DEFINE t == [state EXCEPT !.queue[p] = "pending", !.recovering = @ \ {p}]
  <2>3. Good(t) /\ t.owner = state.owner
    BY <1>11, <2>1, RecoveredIsGood
  <2> HIDE DEF t
  <2>4. SlotFor(state.owner, t) /\ WriteOnly(work, t)
    BY <2>2, <2>3 DEF SlotFor, t
  <2>5. Outcome(state.owner, work)
    BY <1>6, <1>11, <2>1, <2>4, WriteOutcome
  <2> QED BY <1>10, <2>1, <2>5
\* The cycles of an issue that is to get the slot.
<1>20. ASSUME NEW w \in Works, issue[w] # "none", s = NoSlot \/ s.owner = w,
              NEW l \in About(w, work),
              Reason(w, s, l) \/ (s = NoSlot /\ Inherits(w, l))
       PROVE  Outcome(w, work)
  <2>1. CASE Reason(w, s, l)
    BY <1>2, <1>20, <2>1, ReasonOutcome
  <2>2. CASE Inherits(w, l)
    <3>1. SlotFor(w, Fresh(w)) /\ WriteOnly(l, Fresh(w))
      BY <1>20, <2>2, FreshIsGood DEF SlotFor, Inherits
    <3> QED BY <1>20, <3>1, WriteOutcome
  <2> QED BY <1>20, <2>1, <2>2
<1>21. CASE route = "replan" /\ Replan(work)
  <2>1. s = NoSlot
    BY <1>4, <1>21
  <2>2. PICK w \in With("planned", work) :
          \/ Reason(w, NoSlot, [work EXCEPT ![w] = "reasoning_required"])
          \/ Inherits(w, [work EXCEPT ![w] = "reasoning_required"])
    BY <1>21 DEF Replan
  <2>3. w \in Works /\ w \in BusyIn(work) /\ issue[w] # "none"
    BY <1>1 DEF With, BusyIn
  <2>4. Outcome(w, work)
    BY <1>6, <1>7, <1>20, <2>1, <2>2, <2>3
  <2>5. ~Truncated /\ OneTurn => BusyIn(work) \subseteq {w}
    BY <1>3, <2>3
  <2> QED BY <1>8, <2>1, <2>3, <2>4, <2>5
<1>22. CASE route = "reason" /\ ReasonWaiting(s, work)
  <2>1. PICK w \in With("reasoning_required", work) :
          Reason(w, s, work) \/ (s = NoSlot /\ Inherits(w, work))
    BY <1>22 DEF ReasonWaiting
  <2>2. w \in Works /\ w \in BusyIn(work) /\ issue[w] # "none"
    BY <1>1 DEF With, BusyIn
  <2>3. s = NoSlot \/ s.owner = w
    BY <1>4, <1>22 DEF Taken
  <2>4. Outcome(w, work)
    BY <1>6, <1>20, <2>1, <2>2, <2>3
  <2>5. ~Truncated /\ OneTurn => BusyIn(work) \subseteq {w}
    BY <1>3, <2>2
  <2> QED BY <1>8, <2>2, <2>3, <2>4, <2>5
<1>23. CASE route = "issue" /\ StartIssue(s, work)
  <2> DEFINE w == First(With("admitted", work))
  <2>1. w \in With("admitted", work)
    BY <1>4, <1>23, LeastIsMember DEF With
  <2>2. Reason(w, s, [work EXCEPT ![w] = "reasoning_required"])
    BY <1>23 DEF StartIssue
  <2>3. s = NoSlot \/ s.owner = w
    BY <1>4, <1>23 DEF Taken
  <2>4. s = NoSlot => BusyIn(work) = {}
    BY <1>4, <1>23 DEF BusyIn
  <2> HIDE DEF w
  <2>5. w \in Works /\ issue[w] # "none"
    BY <1>1, <2>1 DEF With
  <2>6. Outcome(w, work)
    BY <1>6, <1>7, <1>20, <2>2, <2>3, <2>5
  <2>7. ~Truncated /\ OneTurn => BusyIn(work) \subseteq {w}
    BY <1>3, <2>3, <2>4
  <2> QED BY <1>8, <2>3, <2>5, <2>6, <2>7
<1> QED
  BY <1>5, <1>12, <1>13, <1>14, <1>15, <1>16, <1>17, <1>21, <1>22, <1>23, <1>24

\* A cycle keeps the invariant.
LEMMA CycleKeeps ==
  ASSUME CycleInvariant, NEW listing \in Listing, Cycle(listing)
  PROVE  CycleInvariant'
<1> DEFINE s == Current(listing)
           work == Work(listing)
<1>1. /\ CycleTypeOK /\ SlotOK /\ KnownOK /\ (~Truncated => OneTurn)
  BY DEF CycleInvariant
<1>2. /\ work \in Ledgers
      /\ \A w \in Works : work[w] # "absent" => issue[w] # "none"
  BY <1>1, WorkForm
<1>3. \/ \E w \in Works :
           /\ issue[w] # "none" /\ Outcome(w, work)
           /\ s # NoSlot => w = s.owner
           /\ ~Truncated /\ OneTurn => BusyIn(work) \subseteq {w}
      \/ ledger' = work /\ UNCHANGED <<state, world, moved, crashes>>
  BY <1>1, CycleStep
<1>4. ~Truncated => /\ \A v, w \in BusyIn(work) : v = w
                    /\ s # NoSlot => BusyIn(work) \subseteq {s.owner}
  BY <1>1, BusyForm
<1>5. \/ /\ s = NoSlot
         /\ state # NoSlot => /\ CanRollover(state)
                              /\ ~Truncated => issue[state.owner] = "closed"
      \/ s # NoSlot /\ s = state
  BY <1>1, CurrentForm
<1> HIDE DEF s, work
<1>6. CASE ledger' = work /\ UNCHANGED <<state, world, moved, crashes>>
  <2>1. CycleTypeOK'
    BY <1>1, <1>2, <1>6 DEF CycleTypeOK, Ledgers, world
  <2>2. SlotOK'
    BY <1>1, <1>6 DEF SlotOK, Good, world
  <2>3. KnownOK'
    BY <1>2, <1>6 DEF KnownOK, world
  <2>4. ~Truncated => OneTurn'
    <3>1. Given => Given'
      BY <1>6 DEF Given, world
    <3>2. BusyIn(ledger)' = BusyIn(work)
      BY <1>6 DEF BusyIn, With
    <3>3. ~Truncated /\ state # NoSlot /\ s = NoSlot => Given
      BY <1>5 DEF Given
    <3> QED BY <1>4, <1>5, <1>6, <3>1, <3>2, <3>3 DEF OneTurn
  <2> QED BY <2>1, <2>2, <2>3, <2>4 DEF CycleInvariant
<1>7. ASSUME NEW w \in Works, issue[w] # "none", Outcome(w, work),
             s # NoSlot => w = s.owner,
             ~Truncated /\ OneTurn => BusyIn(work) \subseteq {w}
      PROVE  CycleInvariant'
  <2>1. /\ ledger' \in Ledgers /\ \A v \in Works : v # w => ledger'[v] = work[v]
        /\ state' = state \/ (Good(state') /\ state'.owner = w)
        /\ UNCHANGED <<mode, issue, pr, submission>>
        /\ crashes' \in 0..MaxCrashes /\ moved' \in BOOLEAN
    BY <1>7 DEF Outcome, About, SlotFor, world
  <2>2. CycleTypeOK'
    BY <1>1, <2>1 DEF CycleTypeOK, Ledgers, Good
  <2>3. SlotOK'
    BY <1>1, <2>1 DEF SlotOK, Good
  <2>4. KnownOK'
    BY <1>2, <1>7, <2>1 DEF KnownOK
  <2>5. ~Truncated => OneTurn'
    <3>1. SUFFICES ASSUME ~Truncated PROVE OneTurn'
      OBVIOUS
    <3>2. BusyIn(ledger)' \subseteq {w}
      BY <1>1, <1>7, <2>1, <3>1 DEF BusyIn, With
    <3>3. CASE state' # NoSlot /\ state'.owner = w
      BY <3>2, <3>3 DEF OneTurn
    <3>4. CASE state' = NoSlot
      BY <3>2, <3>4 DEF OneTurn
    <3>5. CASE state' = state /\ state # NoSlot /\ state.owner # w
      <4>1. s = NoSlot
        BY <1>5, <1>7, <3>5
      <4>2. Given'
        BY <1>5, <2>1, <3>1, <3>5, <4>1 DEF Given
      <4> QED BY <3>2, <4>2 DEF OneTurn
    <3> QED BY <2>1, <3>3, <3>4, <3>5
  <2> QED BY <2>2, <2>3, <2>4, <2>5 DEF CycleInvariant
<1> QED BY <1>3, <1>6, <1>7

\* A slot changes hands only when nothing is hidden by that.
LEMMA CycleYields ==
  ASSUME CycleInvariant, NEW listing \in Listing, Cycle(listing),
         state # NoSlot, state'.owner # state.owner
  PROVE  /\ InFlightWork(state) = {} /\ Pending(state) = {}
         /\ state.recovering = {} /\ Active(state) = {}
         /\ Queued(state) = {} => state.retired
<1> DEFINE s == Current(listing)
           work == Work(listing)
<1>1. CycleTypeOK /\ SlotOK /\ KnownOK
  BY DEF CycleInvariant
<1>2. \/ \E w \in Works : SlotFor(w, state') /\ (s # NoSlot => w = s.owner)
      \/ state' = state
  BY <1>1, CycleStep DEF Outcome
<1>3. \/ s = NoSlot /\ CanRollover(state)
      \/ s # NoSlot /\ s = state
  BY <1>1, CurrentForm
<1>4. Good(state) /\ state \in Slot
  BY <1>1 DEF SlotOK, Good
<1> HIDE DEF s
<1>5. CanRollover(state)
  BY <1>2, <1>3 DEF SlotFor
<1>6. Active(state) = {}
  BY <1>5 DEF CanRollover
<1>7. CASE state.retired
  <2>1. Queued(state) = {}
    BY <1>4, <1>7 DEF Good
  <2>2. \A p \in Plan : state.queue[p] = "absent"
    BY <2>1 DEF Queued
  <2>3. state.recovering = {}
    BY <1>4, <2>2 DEF Good, Slot
  <2> QED BY <1>6, <1>7, <2>2, <2>3 DEF InFlightWork, Pending, InFlightStatus
<1>8. CASE ~state.retired
  <2>1. /\ Queued(state) # {} /\ state.recovering = {}
        /\ \A p \in Plan : state.queue[p] \in SettledStatus \cup {"suspended"}
    BY <1>5, <1>8 DEF CanRollover
  <2>2. InFlightWork(state) = {} /\ Pending(state) = {}
    BY <2>1 DEF InFlightWork, Pending, InFlightStatus, SettledStatus
  <2> QED BY <1>6, <2>1, <2>2
<1> QED BY <1>7, <1>8

-----------------------------------------------------------------------------
(* The end of a worker.                                                     *)

\* What has happened to an issue or a pull request is not undone.
Onward ==
  /\ issue' \in [Works -> {"none", "open", "closed"}]
  /\ pr' \in [Works -> {"none", "ready", "merged"}]
  /\ \A w \in Works : /\ issue[w] # "none" => issue'[w] # "none"
                      /\ issue[w] = "closed" => issue'[w] = "closed"
                      /\ issue[w] # "open" /\ issue[w] # "none" => issue'[w] # "open"
                      /\ pr[w] = "merged" => pr'[w] = "merged"

\* A step of the world that leaves the two comments alone.
LEMMA WorldKeeps ==
  ASSUME CycleInvariant, Onward, UNCHANGED saved,
         mode' \in Modes, submission' \in [Works -> Tasks \cup {"none"}],
         moved' \in BOOLEAN, crashes' \in 0..MaxCrashes
  PROVE  CycleInvariant'
<1>1. UNCHANGED <<ledger, state>>
  BY DEF saved
<1>2. CycleTypeOK'
  BY <1>1 DEF CycleInvariant, CycleTypeOK, Onward
<1>3. state # NoSlot => state.owner \in Works /\ issue[state.owner] # "none"
  BY DEF CycleInvariant, SlotOK, Good, Slot
<1>4. SlotOK'
  BY <1>1, <1>3 DEF CycleInvariant, SlotOK, Good, Onward
<1>5. KnownOK'
  BY <1>1 DEF CycleInvariant, KnownOK, Onward
<1>6. Given => Given'
  BY <1>1, <1>3 DEF Given, Onward
<1>7. ~Truncated => OneTurn'
  BY <1>1, <1>6 DEF CycleInvariant, OneTurn
<1> QED BY <1>2, <1>4, <1>5, <1>7 DEF CycleInvariant

\* The one plan p in flight, of the owner, comes to an end with status st.
LEMMA EndKeeps ==
  ASSUME CycleInvariant, Onward, UNCHANGED <<mode, ledger, submission, moved, crashes>>,
         state # NoSlot, NEW p \in InFlightWork(state), NEW st \in PlanStatus,
         state' \in Slot, state'.owner = state.owner,
         \A q \in Plan : state'.queue[q] = IF q = p THEN st ELSE state.queue[q],
         \/ state'.recovering = state.recovering
         \/ /\ st = "suspended"
            /\ state'.recovering = state.recovering \cup {p},
         state'.retired = state.retired,
         "merge" \in state'.proven => "merge" \in state.proven \/ pr'[state.owner] = "merged"
  PROVE  CycleInvariant'
<1>1. Good(state) /\ state \in Slot /\ state.owner \in Works /\ p \in Plan
      /\ state.queue[p] \in InFlightStatus
  BY DEF CycleInvariant, SlotOK, Good, Slot, InFlightWork
<1>2. ~state.retired
  BY <1>1 DEF Good, Queued, InFlightStatus
<1>3. ~CanRollover(state)
  BY <1>1, <1>2 DEF CanRollover, SettledStatus, InFlightStatus
<1>4. CycleTypeOK'
  BY DEF CycleInvariant, CycleTypeOK, Onward
<1>5. SlotOK'
  <2>1. \A q \in state'.recovering : state'.queue[q] = "suspended"
    <3>1. \A q \in state.recovering : q \in Plan /\ q # p /\ state.queue[q] = "suspended"
      BY <1>1 DEF Good, Slot, InFlightStatus
    <3> QED BY <1>1, <3>1
  <2>2. state'.queue["close"] # "absent" => pr'[state.owner] = "merged"
    BY <1>1, Plans DEF Good, Onward, InFlightStatus
  <2>3. issue'[state.owner] # "none"
    BY <1>1 DEF Good, Onward
  <2>4. "merge" \in state'.proven => pr'[state.owner] = "merged"
    BY <1>1 DEF Good, Onward
  <2> QED BY <1>2, <2>1, <2>2, <2>3, <2>4 DEF SlotOK, Good
<1>6. KnownOK'
  BY DEF CycleInvariant, KnownOK, Onward
<1>7. ~Truncated => OneTurn'
  BY <1>3 DEF CycleInvariant, OneTurn, Given
<1> QED BY <1>4, <1>5, <1>6, <1>7 DEF CycleInvariant

\* A worker changes the issue and the pull request of its workload only.
LEMMA EffectForm ==
  ASSUME CycleTypeOK, state # NoSlot, NEW p \in Plan, NEW proved \in BOOLEAN,
         Effect(p, proved)
  PROVE  Onward /\ (p = "merge" => pr'[state.owner] = "merged")
<1>1. state.owner \in Works
  BY DEF CycleTypeOK, Slot
<1>2. CASE p = "merge"
  <2>1. pr' = [pr EXCEPT ![state.owner] = "merged"] /\ UNCHANGED issue
    BY <1>2 DEF Effect
  <2> QED BY <1>1, <2>1 DEF CycleTypeOK, Onward
<1>3. CASE p = "close"
  <2>1. issue' = [issue EXCEPT ![state.owner] = "closed"] /\ UNCHANGED pr
    BY <1>3 DEF Effect
  <2> QED BY <1>1, <1>3, <2>1 DEF CycleTypeOK, Onward
<1>4. CASE p # "merge" /\ p # "close"
  BY <1>4 DEF Effect, CycleTypeOK, Onward
<1> QED BY <1>2, <1>3, <1>4

\* A worker that succeeds, whether it read its effect back or not.
LEMMA SucceedsKeeps ==
  ASSUME CycleInvariant, state # NoSlot, NEW p \in InFlightWork(state), Reported(p), Succeeds(p)
  PROVE  CycleInvariant' /\ state'.owner = state.owner
<1>0. CycleTypeOK /\ state \in Slot /\ p \in Plan /\ "complete" \in PlanStatus
  BY DEF CycleInvariant, SlotOK, Good, InFlightWork, PlanStatus, SettledStatus
<1>1. PICK proved \in BOOLEAN :
        /\ Effect(p, proved)
        /\ state' = [state EXCEPT !.queue[p] = "complete",
                                  !.proven = IF proved /\ p \in Tasks \cup {"merge"}
                                               THEN @ \cup {p} ELSE @]
  BY DEF Succeeds
<1>2. Onward /\ (p = "merge" => pr'[state.owner] = "merged")
  BY <1>0, <1>1, EffectForm
<1> DEFINE u == [state EXCEPT !.queue[p] = "complete"]
           more == IF proved /\ p \in Tasks \cup {"merge"}
                     THEN state.proven \cup {p} ELSE state.proven
<1>3. /\ u \in Slot /\ u.owner = state.owner
      /\ \A q \in Plan : u.queue[q] = IF q = p THEN "complete" ELSE state.queue[q]
      /\ u.proven = state.proven /\ u.retired = state.retired
      /\ u.recovering = state.recovering
  BY <1>0, QueueEdit
<1>4. more \in SUBSET Plan /\ ("merge" \in more => "merge" \in state.proven \/ p = "merge")
  BY <1>0 DEF Slot
<1>5. state' = [u EXCEPT !.proven = more]
  BY <1>0, <1>1 DEF Slot
<1> HIDE DEF u, more
<1>6. /\ state' \in Slot /\ state'.owner = u.owner /\ state'.queue = u.queue
      /\ state'.proven = more /\ state'.retired = u.retired
      /\ state'.recovering = u.recovering
  BY <1>3, <1>4, <1>5 DEF Slot
<1>7. /\ state'.owner = state.owner
      /\ \A q \in Plan : state'.queue[q] = IF q = p THEN "complete" ELSE state.queue[q]
      /\ state'.recovering = state.recovering /\ state'.retired = state.retired
      /\ "merge" \in state'.proven => "merge" \in state.proven \/ pr'[state.owner] = "merged"
  BY <1>2, <1>3, <1>4, <1>6
<1>8. UNCHANGED <<mode, ledger, submission, moved, crashes>>
  BY DEF Reported
<1>9. CycleInvariant'
  BY <1>0, <1>2, <1>6, <1>7, <1>8, EndKeeps
<1> QED BY <1>7, <1>9

\* A plan that is rejected, tried again or suspended proves nothing.
LEMMA StopsKeep ==
  ASSUME CycleInvariant, state # NoSlot, NEW p \in InFlightWork(state), Reported(p),
         GivenUp(p) \/ Fails(p)
  PROVE  CycleInvariant' /\ state'.owner = state.owner
<1>0. /\ CycleTypeOK /\ state \in Slot /\ p \in Plan
      /\ {"rejected", "pending", "suspended"} \subseteq PlanStatus
  BY DEF CycleInvariant, SlotOK, Good, InFlightWork, PlanStatus, SettledStatus
<1>1. Onward /\ UNCHANGED <<mode, ledger, submission, moved, crashes>>
  BY <1>0 DEF GivenUp, Fails, Onward, CycleTypeOK, Reported
<1>2. ASSUME NEW st \in {"rejected", "pending"},
             state' = [state EXCEPT !.queue[p] = st]
      PROVE  CycleInvariant' /\ state'.owner = state.owner
  <2>1. /\ state' \in Slot /\ state'.owner = state.owner
        /\ \A q \in Plan : state'.queue[q] = IF q = p THEN st ELSE state.queue[q]
        /\ state'.proven = state.proven /\ state'.retired = state.retired
        /\ state'.recovering = state.recovering
    BY <1>0, <1>2, QueueEdit
  <2> QED BY <1>0, <1>1, <2>1, EndKeeps
<1> DEFINE u == [state EXCEPT !.queue[p] = "suspended"]
<1>3. /\ u \in Slot /\ u.owner = state.owner
      /\ \A q \in Plan : u.queue[q] = IF q = p THEN "suspended" ELSE state.queue[q]
      /\ u.proven = state.proven /\ u.retired = state.retired
      /\ u.recovering = state.recovering /\ u.governed = state.governed
  BY <1>0, QueueEdit
<1>4. CASE state' = [state EXCEPT !.queue[p] = "suspended", !.governed = @ \cup {p}]
  <2>1. state' = [u EXCEPT !.governed = state.governed \cup {p}]
    BY <1>0, <1>4 DEF Slot
  <2> HIDE DEF u
  <2>2. /\ state' \in Slot /\ state'.owner = u.owner /\ state'.queue = u.queue
        /\ state'.proven = u.proven /\ state'.retired = u.retired
        /\ state'.recovering = u.recovering
    BY <1>0, <1>3, <2>1 DEF Slot
  <2>3. CycleInvariant'
    BY <1>0, <1>1, <1>3, <2>2, EndKeeps
  <2> QED BY <1>3, <2>2, <2>3
<1>5. CASE state' = [state EXCEPT !.queue[p] = "suspended", !.recovering = @ \cup {p}]
  <2>1. state' = [u EXCEPT !.recovering = state.recovering \cup {p}]
    BY <1>0, <1>5 DEF Slot
  <2> HIDE DEF u
  <2>2. /\ state' \in Slot /\ state'.owner = u.owner /\ state'.queue = u.queue
        /\ state'.proven = u.proven /\ state'.retired = u.retired
        /\ state'.recovering = state.recovering \cup {p}
    BY <1>0, <1>3, <2>1 DEF Slot
  <2>3. CycleInvariant'
    BY <1>0, <1>1, <1>3, <2>2, EndKeeps
  <2> QED BY <1>3, <2>2, <2>3
<1> QED BY <1>2, <1>4, <1>5 DEF GivenUp, Fails

\* Main moves under a slot.
LEMMA MainKeeps ==
  ASSUME CycleInvariant, MainMoves
  PROVE  CycleInvariant' /\ state'.owner = state.owner
<1>1. /\ state # NoSlot /\ state \in Slot /\ Good(state)
      /\ state' = [state EXCEPT !.seen = FALSE]
      /\ UNCHANGED <<ledger, mode, issue, pr, submission, crashes>> /\ moved' = TRUE
  BY DEF MainMoves, CycleInvariant, SlotOK, Good, world
<1>2. /\ state' \in Slot /\ state'.owner = state.owner /\ state'.queue = state.queue
      /\ state'.proven = state.proven /\ state'.governed = state.governed
      /\ state'.recovering = state.recovering /\ state'.failure = state.failure
      /\ state'.retired = state.retired
  BY <1>1 DEF Slot
<1>3. CycleTypeOK'
  BY <1>1, <1>2 DEF CycleInvariant, CycleTypeOK
<1>4. SlotOK'
  BY <1>1, <1>2 DEF SlotOK, Good, Queued, Active
<1>5. KnownOK'
  BY <1>1 DEF CycleInvariant, KnownOK
<1>6. Given => Given'
  <2>1. state' # NoSlot
    BY <1>2, NotEmpty
  <2> QED BY <1>1, <1>2, <2>1 DEF Given, CanRollover, Queued, Active
<1>7. ~Truncated => OneTurn'
  BY <1>1, <1>2, <1>6 DEF CycleInvariant, OneTurn
<1> QED BY <1>2, <1>3, <1>4, <1>5, <1>7 DEF CycleInvariant

-----------------------------------------------------------------------------
(* The specification.                                                       *)

\* Nothing is admitted at first.
LEMMA CycleInitInvariant == CycleInit => CycleInvariant
<1> SUFFICES ASSUME CycleInit PROVE CycleInvariant
  OBVIOUS
<1>1. CycleTypeOK
  <2>1. ledger \in [Works -> LedgerStatus]
    BY DEF CycleInit, LedgerStatus
  <2>2. crashes \in 0..MaxCrashes /\ mode \in Modes
    BY CycleAssumption DEF CycleInit
  <2>4. moved \in BOOLEAN
    BY DEF CycleInit
  <2>3. /\ issue \in [Works -> {"none", "open", "closed"}]
        /\ pr \in [Works -> {"none", "ready", "merged"}]
        /\ submission \in [Works -> Tasks \cup {"none"}]
        /\ state \in Slot \cup {NoSlot}
    BY DEF CycleInit
  <2> QED BY <2>1, <2>2, <2>3, <2>4 DEF CycleTypeOK
<1>2. SlotOK /\ KnownOK
  BY DEF CycleInit, SlotOK, KnownOK
<1>3. OneTurn
  BY DEF CycleInit, OneTurn, BusyIn, With
<1> QED BY <1>1, <1>2, <1>3 DEF CycleInvariant

\* Every step keeps the invariant, and hands the slot on only as it may.
LEMMA CycleNextInvariant ==
  ASSUME CycleInvariant, CycleNext
  PROVE  /\ CycleInvariant'
         /\ state # NoSlot /\ state'.owner # state.owner =>
              /\ InFlightWork(state) = {} /\ Pending(state) = {}
              /\ state.recovering = {} /\ Active(state) = {}
              /\ Queued(state) = {} => state.retired
<1>1. CASE \E listing \in Listing : Cycle(listing)
  BY <1>1, CycleKeeps, CycleYields
<1>2. CASE IngestEnd
  BY <1>2, SucceedsKeeps, StopsKeep DEF IngestEnd
<1>3. CASE IngestFailure
  BY <1>3, StopsKeep DEF IngestFailure
<1>4. CASE MainMoves
  BY <1>4, MainKeeps
<1>5. ASSUME Onward, UNCHANGED <<saved, mode, moved, crashes>>,
             submission' \in [Works -> Tasks \cup {"none"}]
      PROVE  CycleInvariant' /\ state' = state
  BY <1>5, WorldKeeps DEF CycleInvariant, CycleTypeOK, saved
<1>6. ASSUME NEW w \in Works,
             OpenIssue(w) \/ CloseIssue(w) \/ PersonMerges(w)
               \/ \E t \in Tasks : Submit(w, t)
      PROVE  CycleInvariant' /\ state' = state
  <2>1. CASE OpenIssue(w)
    BY <1>5, <2>1 DEF OpenIssue, Onward, CycleInvariant, CycleTypeOK
  <2>2. CASE CloseIssue(w)
    BY <1>5, <2>2 DEF CloseIssue, Onward, CycleInvariant, CycleTypeOK
  <2>3. CASE PersonMerges(w)
    BY <1>5, <2>3 DEF PersonMerges, Onward, CycleInvariant, CycleTypeOK
  <2>4. CASE \E t \in Tasks : Submit(w, t)
    BY <1>5, <2>4 DEF Submit, Onward, CycleInvariant, CycleTypeOK
  <2> QED BY <1>6, <2>1, <2>2, <2>3, <2>4
<1>7. CASE ChecksPass
  <2>1. state.owner \in Works
    BY <1>7 DEF ChecksPass, CycleInvariant, CycleTypeOK, Slot
  <2> QED BY <1>5, <1>7, <2>1 DEF ChecksPass, Onward, CycleInvariant, CycleTypeOK
<1> QED BY <1>1, <1>2, <1>3, <1>4, <1>6, <1>7 DEF CycleNext

\* The invariant holds throughout.
LEMMA CycleAlways == CycleSpec => []CycleInvariant
<1>1. CycleInvariant /\ UNCHANGED cycleVars => CycleInvariant'
  BY DEF CycleInvariant, CycleTypeOK, SlotOK, KnownOK, OneTurn, Given, Good, CanRollover,
         Queued, Active, BusyIn, With, cycleVars, saved, world
<1> QED BY <1>1, CycleInitInvariant, CycleNextInvariant, PTL DEF CycleSpec

\* The two comments and the world of a cycle only ever hold well-formed values,
\* also when runs die between their writes and pages of issues are missed.
THEOREM CycleTypeCorrect == CycleSpec => []CycleTypeOK
<1>1. CycleInvariant => CycleTypeOK
  BY DEF CycleInvariant
<1> QED BY <1>1, CycleAlways, PTL

\* Samuel plans to close an issue only when the pull request that carries its
\* work is merged: what integrated_acceptance_evidence takes for evidence is
\* true of the repository, whatever was merged, closed or lost meanwhile.
THEOREM CloseFollowsMerge == CycleSpec => []CloseAfterMerge
<1>1. CycleInvariant => CloseAfterMerge
  BY DEF CycleInvariant, SlotOK, Good, CloseAfterMerge
<1> QED BY <1>1, CycleAlways, PTL

\* can_rollover_state never hands the slot on over a worker under way, a
\* recovery, or a failure that waits for a person; nor is a workload without
\* any action passed over before its retirement is on record.
THEOREM SlotYieldsOpenly == CycleSpec => OwnerYields
<1>1. CycleInvariant /\ [CycleNext]_cycleVars =>
        [state # NoSlot /\ state'.owner # state.owner =>
           /\ InFlightWork(state) = {} /\ Pending(state) = {}
           /\ state.recovering = {} /\ Active(state) = {}
           /\ Queued(state) = {} => state.retired]_cycleVars
  BY CycleNextInvariant
<1> QED BY <1>1, CycleAlways, PTL DEF CycleSpec, OwnerYields

\* A set with no two members has one at most.
LEMMA OneAtMost ==
  ASSUME NEW S, \A v, w \in S : v = w
  PROVE  Cardinality(S) <= 1
<1>1. CASE S = {}
  BY <1>1, FS_EmptySet
<1>2. CASE S # {}
  <2>1. PICK x \in S : TRUE
    BY <1>2
  <2>2. S = {x}
    BY <2>1
  <2> QED BY <2>2, FS_Singleton
<1> QED BY <1>1, <1>2

\* As long as the controller sees every open issue, the ledger never comes to
\* hold two turns, so no cycle fails for that; runs may die at any time.
THEOREM TurnsAreUnambiguous ==
  ASSUME ~Truncated
  PROVE  CycleSpec => []NeverAmbiguous
<1>1. CycleInvariant => NeverAmbiguous
  <2> SUFFICES ASSUME CycleInvariant PROVE NeverAmbiguous
    OBVIOUS
  <2>1. \A v, w \in With("reasoning_required", ledger)
                      \cup With("planned", ledger) : v = w
    BY DEF CycleInvariant, OneTurn, BusyIn
  <2>2. \A v, w \in With("reasoning_required", ledger) : v = w
    BY <2>1
  <2> QED BY <2>1, <2>2, OneAtMost DEF NeverAmbiguous
<1> QED BY <1>1, CycleAlways, PTL
=============================================================================
