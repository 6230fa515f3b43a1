------------------------ MODULE ForeignCycle_proofs ------------------------
(***************************************************************************)
(* Proofs about ForeignCycle, for any bounds: types, what the runs of the  *)
(* check show, and that the ledger implements ForeignLedger.               *)
(*                                                                         *)
(* The invariant says of the ledger, and of every ledger a job is about to *)
(* write, that it is readable and has its evidence (Sound); and that the   *)
(* job computed it from the ledger that is there (JobInv), in a step that  *)
(* leaves a plan whose facts changed alone (Step).                         *)
(***************************************************************************)
EXTENDS ForeignCycle, TLAPS

\* What a ledger rests on at the target, whose runs are rs and workflows cs.
Evidence(l, rs, cs) ==
  /\ l.receipt <= Len(rs)
  /\ l.receipt # None => rs[l.receipt].plan = l.plan
  /\ l.phase \in {"ci_pending", "ci_verified"} =>
       /\ rs[l.receipt].phase = "success"
       /\ rs[l.receipt].main = l.base
  /\ l.phase = "ci_verified" =>
       /\ \E r \in 1..Len(rs) : rs[r].plan = l.plan /\ rs[r].head = l.head
       /\ cs[l.head] \in {"success", "twice"}

Sound(l) ==
  /\ Readable(l)
  /\ l.phase = "absent" => l = NoLedger
  /\ l.phase \in {"review_required", "dispatch_ready"} => l.failure = "none"
  /\ l.failure = "ADMISSION_FACTS_CHANGED" => l.phase = "revision_required"
  /\ Evidence(l, runs, ci)

\* A plan whose facts are recorded to have changed.
Stale(l) == l.failure = "ADMISSION_FACTS_CHANGED" /\ l.plan # NoPlan

\* One step of ForeignLedger, from one ledger to another; none moves a stale plan.
Step(l, n) ==
  LET same == n.issue = l.issue /\ n.base = l.base
      kept == same /\ n.plan = l.plan
      later == n.revision > l.revision
      fresh == n.phase = "reasoning_required" /\ n.plan = NoPlan
               /\ n.issue \in Issues /\ n.base \in Mains
  IN
  \/ l.phase = "absent" /\ fresh
  \/ /\ later /\ fresh /\ l.plan = NoPlan /\ n.base # l.base
     /\ l.phase \in {"reasoning_required", "revision_required"}
  \/ /\ later /\ kept
     /\ l.phase = "reasoning_required" /\ n.phase = "reasoning_required"
  \/ /\ later /\ same /\ l.phase = "reasoning_required"
     /\ n.phase = "review_required" /\ l.plan = NoPlan
     /\ n.plan = [issue |-> l.issue, base |-> l.base]
  \/ later /\ kept /\ l.phase = "review_required" /\ n.phase = "dispatch_ready"
  \/ later /\ kept /\ l.phase = "dispatch_ready" /\ n.phase = "dispatched"
  \/ /\ later /\ kept
     /\ l.phase \in {"dispatched", "ci_pending"} /\ n.phase = "ci_pending"
  \/ later /\ kept /\ l.phase = "ci_pending" /\ n.phase = "ci_verified"
  \/ /\ later /\ kept /\ ~Stale(l)
     /\ l.phase # "absent" /\ n.phase = "revision_required"

WorldOK ==
  /\ target \in Target
  /\ runs \in Seq(Run) /\ Len(runs) <= MaxRuns
  /\ pr \in [head : Heads \cup {None}, draft : BOOLEAN]
  /\ pr.draft => pr.head # None
  /\ ci \in [Heads -> CIStates]
  /\ \A r \in 1..Len(runs) :
       runs[r].head \in Heads => runs[r].phase = "success"

HasRead == {"compute", "dispatch", "recheck", "write"}

JobInv ==
  /\ job \in Job
  /\ job.pc \in HasRead \/ (job.pc = "issue" /\ job.kind = "ingress") =>
       job.before = ledger
  /\ job.pc = "dispatch" => job.before.phase = "dispatch_ready"
  /\ job.pc \in {"recheck", "write"} =>
       /\ Sound(job.after)
       /\ job.after = ledger \/ Step(ledger, job.after)

IInv ==
  /\ WorldOK
  /\ comment \in Comment
  /\ ledger \in Ledger /\ Sound(ledger)
  /\ JobInv

-----------------------------------------------------------------------------
USE DEF None

\* The initial state satisfies the invariant.
LEMMA InitInv == Init => IInv
<1> SUFFICES ASSUME Init PROVE IInv
  OBVIOUS
<1> USE ConstantsAssumption DEF Init
<1>1. NoLedger \in Ledger /\ NoComment \in Comment
  BY DEF NoLedger, Ledger, NoComment, Comment, NoPlan, Phases, Failures
<1>2. InitialTarget \in Target
  BY DEF InitialTarget, Target, Mains, Issues
<1>8. target \in Target
  BY <1>2 DEF Target
<1>3. JobIdle \in Job
  BY <1>1, <1>2 DEF JobIdle, Job, Steps, Kinds
<1>4. Len(runs) = 0 /\ runs \in Seq(Run)
  OBVIOUS
<1>5. WorldOK
  BY <1>8, <1>4 DEF WorldOK, CIStates
<1>6. Sound(ledger)
  BY <1>4 DEF Sound, Readable, Evidence, NoLedger, NoPlan
<1>7. JobInv
  BY <1>3 DEF JobInv, JobIdle, HasRead
<1> QED
  BY <1>1, <1>5, <1>6, <1>7 DEF IInv

-----------------------------------------------------------------------------
(* What a job computes.                                                     *)

\* A ledger that a job may write where l is read.
Good(l, n) == n \in Ledger /\ Sound(n) /\ (n = l \/ Step(l, n))

\* To stop is allowed from every ledger that is not stale.
LEMMA StoppedGood ==
  ASSUME NEW l \in Ledger, Sound(l), l.phase # "absent", NEW f \in Failures,
         ~Stale(l), l.revision + 1 <= MaxRevision, runs \in Seq(Run)
  PROVE  Good(l, Stopped(l, f))
<1> DEFINE n == Stopped(l, f)
<1>0. l.revision + 1 \in 0..MaxRevision /\ "revision_required" \in Phases
  BY ConstantsAssumption DEF Ledger, Phases
<1>1. n \in Ledger
  BY <1>0 DEF Stopped, Ledger
<1>2. n.phase = "revision_required" /\ n.plan = l.plan /\ n.receipt = l.receipt
      /\ n.issue = l.issue /\ n.base = l.base /\ n.revision = l.revision + 1
  BY DEF Stopped, Ledger
<1>3. Sound(n)
  BY <1>2 DEF Sound, Readable, Evidence
<1>4. Step(l, n)
  BY <1>2 DEF Step, Ledger
<1> QED
  BY <1>1, <1>3, <1>4 DEF Good

\* A ledger that has nothing.
LEMMA NoLedgerForm ==
  /\ NoLedger \in Ledger
  /\ NoLedger.phase = "absent" /\ NoLedger.revision = 0
  /\ NoLedger.plan = NoPlan /\ NoLedger.receipt = None
  /\ NoLedger.failure = "none"
  BY ConstantsAssumption DEF NoLedger, Ledger, NoPlan, Phases, Failures

\* The admission of facts that were seen.
LEMMA AdmittedSound ==
  ASSUME NEW s \in Target, NEW k \in 0..MaxRevision, runs \in Seq(Run)
  PROVE  LET n == [Admitted(s) EXCEPT !.revision = k] IN
         /\ n \in Ledger /\ Sound(n)
         /\ n.phase = "reasoning_required" /\ n.plan = NoPlan
         /\ n.issue = s.issue /\ n.base = s.main /\ n.revision = k
         /\ n.issue \in Issues /\ n.base \in Mains
<1> DEFINE a == Admitted(s)
           n == [a EXCEPT !.revision = k]
<1>1. s.issue \in Issues /\ s.main \in Mains
  BY DEF Target
<1>2. a \in Ledger /\ a.phase = "reasoning_required" /\ a.plan = NoPlan
      /\ a.issue = s.issue /\ a.base = s.main /\ a.receipt = None
      /\ a.failure = "none"
  BY <1>1, NoLedgerForm DEF Admitted, Ledger, Phases
<1> HIDE DEF a
<1>3. n \in Ledger /\ n.phase = "reasoning_required" /\ n.plan = NoPlan
      /\ n.issue = s.issue /\ n.base = s.main /\ n.receipt = None
      /\ n.revision = k /\ n.failure = "none"
  BY <1>2 DEF Ledger
<1>4. Sound(n)
  BY <1>3 DEF Sound, Readable, Evidence
<1> QED
  BY <1>1, <1>3, <1>4 DEF a

\* An admission starts at revision 0.
LEMMA AdmittedRevision ==
  ASSUME NEW s \in Target
  PROVE  Admitted(s) = [Admitted(s) EXCEPT !.revision = 0]
<1>1. s.issue \in Issues /\ s.main \in Mains
  BY DEF Target
<1> QED
  BY <1>1, NoLedgerForm DEF Admitted, Ledger, Phases

\* Reconciliation keeps the ledger, stops it, or admits it.
LEMMA ReconciledGood ==
  ASSUME NEW l \in Ledger, Sound(l), NEW s \in Target, runs \in Seq(Run),
         Reconciled(l, s).revision <= MaxRevision
  PROVE  Good(l, Reconciled(l, s))
<1>1. CASE l = NoLedger
  <2>1. Reconciled(l, s) = Admitted(s)
    BY <1>1 DEF Reconciled
  <2>2. Admitted(s) = [Admitted(s) EXCEPT !.revision = 0]
    BY AdmittedRevision
  <2>3. 0 \in 0..MaxRevision
    BY ConstantsAssumption
  <2>4. l.phase = "absent"
    BY <1>1, NoLedgerForm
  <2> QED
    BY <2>1, <2>2, <2>3, <2>4, AdmittedSound DEF Good, Step
<1>2. CASE l # NoLedger /\ Reconciled(l, s) = l
  BY <1>2 DEF Good
<1>3. CASE l # NoLedger /\ Reconciled(l, s) # l
  <2>1. Reconciled(l, s) = Stopped(l, "ADMISSION_FACTS_CHANGED")
    BY <1>3 DEF Reconciled
  <2>2. l.phase # "absent"
    BY <1>3 DEF Sound
  <2>3. Reconciled(l, s).revision = l.revision + 1
    BY <2>1 DEF Stopped, Ledger
  <2>4. ~Stale(l)
    BY <1>3 DEF Reconciled, Stale, Sound
  <2> QED
    BY <2>1, <2>2, <2>3, <2>4, StoppedGood DEF Failures
<1> QED
  BY <1>1, <1>2, <1>3

\* The ledger with the next revision, in a phase of the list.
LEMMA Advanced ==
  ASSUME NEW l \in Ledger, NEW p \in Phases, l.revision + 1 <= MaxRevision
  PROVE  LET n == [l EXCEPT !.revision = @ + 1, !.phase = p] IN
         /\ n \in Ledger /\ n.revision > l.revision /\ n.phase = p
         /\ n.issue = l.issue /\ n.base = l.base /\ n.plan = l.plan
         /\ n.receipt = l.receipt /\ n.head = l.head /\ n.green = l.green
         /\ n.failure = l.failure
<1>1. l.revision + 1 \in 0..MaxRevision /\ l.revision + 1 > l.revision
  BY ConstantsAssumption DEF Ledger
<1> QED
  BY <1>1 DEF Ledger

\* A rollover admits what is there now, for a ledger without a plan.
LEMMA RolloverGood ==
  ASSUME NEW l \in Ledger, Sound(l), NEW s \in Target, runs \in Seq(Run),
         MayAdvance(Reconciled(l, s), s),
         Reconciled(l, s).revision + 1 <= MaxRevision
  PROVE  Good(l, [Admitted(s) EXCEPT !.revision = Reconciled(l, s).revision + 1])
<1> DEFINE now == Reconciled(l, s)
           n == [Admitted(s) EXCEPT !.revision = now.revision + 1]
<1>1. l # NoLedger
  <2> SUFFICES ASSUME l = NoLedger PROVE FALSE
    OBVIOUS
  <2>1. now = [Admitted(s) EXCEPT !.revision = 0]
    BY AdmittedRevision DEF Reconciled
  <2>2. now.phase = "reasoning_required"
    BY <2>1, AdmittedSound, ConstantsAssumption
  <2> QED
    BY <2>2 DEF MayAdvance
<1>2. /\ now.revision \in {l.revision, l.revision + 1} /\ now.plan = l.plan
      /\ now.base = l.base
  <2>1. CASE now = l
    BY <2>1
  <2>2. CASE now = Stopped(l, "ADMISSION_FACTS_CHANGED")
    BY <2>2 DEF Stopped, Ledger
  <2> QED
    BY <1>1, <2>1, <2>2 DEF Reconciled
<1>3. l.plan = NoPlan /\ l.base # s.main
  BY <1>2 DEF MayAdvance
<1>4. l.phase \in {"reasoning_required", "revision_required"}
  BY <1>1, <1>3 DEF Sound, Readable, Ledger, Phases
<1>5. now.revision + 1 \in 0..MaxRevision /\ now.revision + 1 > l.revision
  BY <1>2, ConstantsAssumption DEF Ledger
<1>6. /\ n \in Ledger /\ Sound(n) /\ n.phase = "reasoning_required"
      /\ n.plan = NoPlan /\ n.base = s.main /\ n.revision > l.revision
      /\ n.issue \in Issues /\ n.base \in Mains
  BY <1>5, AdmittedSound
<1>7. Step(l, n)
  BY <1>3, <1>4, <1>6 DEF Step
<1> QED
  BY <1>6, <1>7 DEF Good

\* A proposal, from a provider or from the owner.
LEMMA ProposalGood ==
  ASSUME NEW l \in Ledger, Sound(l), NEW s \in Target, runs \in Seq(Run),
         MayPropose(l, s), NEW plan, plan = [issue |-> s.issue, base |-> s.main],
         WithPlan(l, plan).revision <= MaxRevision
  PROVE  Good(l, WithPlan(l, plan))
<1> DEFINE m == [l EXCEPT !.revision = @ + 1, !.phase = "review_required"]
           n == WithPlan(l, plan)
<1>1. plan \in Plan /\ plan = [issue |-> l.issue, base |-> l.base]
  BY DEF Plan, Target, MayPropose, SameFacts
<1>2. l.revision + 1 <= MaxRevision /\ n = [m EXCEPT !.plan = plan]
  BY DEF WithPlan, Ledger
<1>3. /\ m \in Ledger /\ m.revision > l.revision
      /\ m.phase = "review_required" /\ m.issue = l.issue /\ m.base = l.base
      /\ m.receipt = l.receipt /\ m.failure = l.failure
  BY <1>2, Advanced DEF Phases
<1> HIDE DEF m, n
<1>4. /\ n \in Ledger /\ n.revision > l.revision
      /\ n.phase = "review_required" /\ n.issue = l.issue /\ n.base = l.base
      /\ n.receipt = l.receipt /\ n.failure = l.failure /\ n.plan = plan
  BY <1>1, <1>2, <1>3 DEF Ledger
<1>5. l.phase = "reasoning_required" /\ l.plan = NoPlan /\ l.failure = "none"
  BY DEF MayPropose
<1>6. l.receipt = None
  BY <1>5 DEF Sound, Readable
<1>7. plan # NoPlan
  BY <1>1 DEF Plan, NoPlan, Issues
<1>8. Sound(n)
  BY <1>4, <1>5, <1>6, <1>7 DEF Sound, Readable, Evidence
<1>9. Step(l, n)
  BY <1>1, <1>4, <1>5 DEF Step
<1> QED
  BY <1>4, <1>8, <1>9 DEF Good, n

\* A provider may also ask for another round, or approve nothing.
LEMMA RoundGood ==
  ASSUME NEW l \in Ledger, Sound(l), runs \in Seq(Run),
         l.phase = "reasoning_required",
         NEW n, n = [l EXCEPT !.revision = @ + 1], n.revision <= MaxRevision
  PROVE  Good(l, n)
<1>1. l.revision + 1 \in 0..MaxRevision /\ l.revision + 1 > l.revision
  BY ConstantsAssumption DEF Ledger
<1>2. /\ n \in Ledger /\ n.revision > l.revision /\ n.phase = l.phase
      /\ n.issue = l.issue /\ n.base = l.base /\ n.plan = l.plan
      /\ n.receipt = l.receipt /\ n.head = l.head /\ n.failure = l.failure
  BY <1>1 DEF Ledger
<1>3. Sound(n)
  BY <1>2 DEF Sound, Readable, Evidence
<1> QED
  BY <1>2, <1>3 DEF Good, Step

\* The answer of the owner's review.
LEMMA ReviewGood ==
  ASSUME NEW l \in Ledger, Sound(l), runs \in Seq(Run),
         l.phase = "review_required", NEW n, n.revision <= MaxRevision,
         n = [l EXCEPT !.revision = @ + 1, !.phase = "dispatch_ready"]
  PROVE  Good(l, n)
<1>1. l.revision + 1 <= MaxRevision
  BY DEF Ledger
<1>2. /\ n \in Ledger /\ n.revision > l.revision
      /\ n.phase = "dispatch_ready" /\ n.issue = l.issue /\ n.base = l.base
      /\ n.plan = l.plan /\ n.receipt = l.receipt /\ n.failure = l.failure
  BY <1>1, Advanced DEF Phases
<1>3. Sound(n)
  BY <1>2 DEF Sound, Readable, Evidence
<1> QED
  BY <1>2, <1>3 DEF Good, Step

\* What is observed of the run that was dispatched.
LEMMA ObservedRunGood ==
  ASSUME NEW l \in Ledger, Sound(l), WorldOK,
         l.phase \in {"dispatched", "ci_pending"},
         NEW n \in ObservedRun(l), n.revision <= MaxRevision
  PROVE  Good(l, n)
<1> DEFINE r == runs[l.receipt]
<1>1. runs \in Seq(Run)
  BY DEF WorldOK
<1>2. CASE n = Stopped(l, "TARGET_EXECUTION_NOT_SUCCESS")
  <2>1. l.revision + 1 <= MaxRevision
    BY <1>2 DEF Stopped, Ledger
  <2> QED
    BY <1>1, <1>2, <2>1, StoppedGood DEF Failures, Stale, Sound
<1>3. CASE n = l
  BY <1>3 DEF Good
<1>4. CASE /\ r.phase = "success" /\ r.main = l.base
           /\ n = [l EXCEPT !.revision = @ + 1, !.phase = "ci_pending"]
  <2>1. l.revision + 1 <= MaxRevision
    BY <1>4 DEF Ledger
  <2>2. /\ n \in Ledger /\ n.revision > l.revision
        /\ n.phase = "ci_pending" /\ n.issue = l.issue /\ n.base = l.base
        /\ n.plan = l.plan /\ n.receipt = l.receipt
        /\ n.failure = l.failure
    BY <1>4, <2>1, Advanced DEF Phases
  <2>3. Sound(n)
    BY <1>4, <2>2 DEF Sound, Readable, Evidence
  <2> QED
    BY <2>2, <2>3 DEF Good, Step
<1> QED
  BY <1>2, <1>3, <1>4 DEF ObservedRun

\* What is observed of the workflows of the pull request's head.
LEMMA ObservedCIGood ==
  ASSUME NEW l \in Ledger, Sound(l), WorldOK, l.phase = "ci_pending",
         pr.draft, Receipts(l) # {},
         NEW n \in ObservedCI(l), n.revision <= MaxRevision
  PROVE  Good(l, n)
<1> DEFINE green == ci[pr.head] = "success"
           seen == [l EXCEPT !.head = pr.head, !.green = green]
<1>1. pr.head \in Heads /\ runs \in Seq(Run) /\ green \in BOOLEAN
  BY DEF WorldOK
<1>2. /\ seen \in Ledger /\ seen.head = pr.head /\ seen.green = green
      /\ seen.phase = l.phase /\ seen.revision = l.revision
      /\ seen.issue = l.issue /\ seen.base = l.base /\ seen.plan = l.plan
      /\ seen.receipt = l.receipt /\ seen.failure = l.failure
  <2> HIDE DEF green
  <2> QED
    BY <1>1 DEF Ledger
<1>3. Sound(seen)
  BY <1>2 DEF Sound, Readable, Evidence
<1> DEFINE p == IF green THEN "ci_verified" ELSE "ci_pending"
           m == [seen EXCEPT !.revision = @ + 1, !.phase = p]
<1>4. n = Stopped(seen, "EXACT_HEAD_CI_FAILURE")
      \/ n = [m EXCEPT !.failure = "none"]
  <2> HIDE DEF green
  <2>1. CASE n = Stopped(seen, "EXACT_HEAD_CI_FAILURE")
    BY <2>1
  <2>2. CASE n = [seen EXCEPT !.revision = @ + 1, !.failure = "none",
                    !.phase = IF seen.green THEN "ci_verified" ELSE "ci_pending"]
    BY <1>2, <2>2 DEF Ledger
  <2> QED
    BY <2>1, <2>2 DEF ObservedCI, green
<1> HIDE DEF seen, green, p
<1>7. ~Stale(l) /\ ~Stale(seen)
  BY <1>2 DEF Sound, Stale
<1>5. CASE n = Stopped(seen, "EXACT_HEAD_CI_FAILURE")
  <2>1. seen.revision + 1 <= MaxRevision
    BY <1>2, <1>5 DEF Stopped, Ledger
  <2>2. Good(seen, n)
    BY <1>1, <1>2, <1>3, <1>5, <1>7, <2>1, StoppedGood DEF Failures
  <2>3. n.phase = "revision_required" /\ n.plan = l.plan
        /\ n.issue = l.issue /\ n.base = l.base
        /\ n.revision > l.revision
    BY <1>2, <1>5 DEF Stopped, Ledger
  <2> QED
    BY <1>7, <2>2, <2>3 DEF Good, Step
<1>6. CASE n = [m EXCEPT !.failure = "none"]
  <2>1. p \in Phases /\ p \in {"ci_verified", "ci_pending"}
        /\ (p = "ci_verified" => green)
    BY DEF p, Phases
  <2>2. seen.revision + 1 <= MaxRevision
    BY <1>2, <1>6 DEF Ledger
  <2>3. /\ m \in Ledger /\ m.revision > seen.revision /\ m.phase = p
        /\ m.issue = l.issue /\ m.base = l.base /\ m.plan = l.plan
        /\ m.receipt = l.receipt /\ m.head = pr.head /\ m.green = green
    BY <1>2, <2>1, <2>2, Advanced
  <2> HIDE DEF m
  <2>4. /\ n \in Ledger /\ n.revision > l.revision /\ n.phase = p
        /\ n.issue = l.issue /\ n.base = l.base /\ n.plan = l.plan
        /\ n.receipt = l.receipt /\ n.head = pr.head /\ n.green = green
        /\ n.failure = "none"
    BY <1>2, <1>6, <2>3 DEF Ledger, Failures
  <2>5. Readable(n)
    BY <1>1, <2>1, <2>4 DEF Sound, Readable, Heads
  <2>6. /\ n.receipt <= Len(runs)
        /\ n.receipt # None => runs[n.receipt].plan = n.plan
        /\ runs[n.receipt].phase = "success"
        /\ runs[n.receipt].main = n.base
    BY <2>4 DEF Sound, Evidence
  <2>7. \E r \in 1..Len(runs) : runs[r].plan = n.plan /\ runs[r].head = n.head
    BY <2>4 DEF Receipts
  <2>8. p = "ci_verified" => ci[n.head] = "success"
    BY <2>1, <2>4 DEF green
  <2>9. Sound(n)
    BY <2>1, <2>4, <2>5, <2>6, <2>7, <2>8 DEF Sound, Evidence
  <2> QED
    BY <2>1, <2>4, <2>9 DEF Good, Step
<1> QED
  BY <1>4, <1>5, <1>6

\* Whatever a job computes, it may write where it read.
LEMMA ResultGood ==
  ASSUME NEW l \in Ledger, Sound(l), WorldOK, NEW s \in Target,
         NEW c \in Comment, NEW kind \in Kinds, NEW n \in Results(kind, l, s, c),
         n.revision <= MaxRevision
  PROVE  Good(l, n)
<1>1. runs \in Seq(Run)
  BY DEF WorldOK
<1>2. CASE kind = "cycle"
  BY <1>1, <1>2, ReconciledGood DEF Results
<1>3. CASE kind = "rollover"
  <2> DEFINE now == Reconciled(l, s)
  <2>1. MayAdvance(now, s) /\ n = [Admitted(s) EXCEPT !.revision = now.revision + 1]
    BY <1>3 DEF Results
  <2>2. n.revision = now.revision + 1
    BY <2>1, NoLedgerForm DEF Admitted, Ledger
  <2> QED
    BY <1>1, <2>1, <2>2, RolloverGood
<1>4. CASE kind = "propose"
  <2>1. MayPropose(l, s) /\ n \in Proposals(l, s)
    BY <1>4 DEF Results
  <2>2. l.phase = "reasoning_required"
    BY <2>1 DEF MayPropose
  <2>3. CASE n = Stopped(l, "NO_APPROVED_ACTION_PLAN")
    <3>1. l.revision + 1 <= MaxRevision
      BY <2>3 DEF Stopped, Ledger
    <3> QED
      BY <1>1, <2>2, <2>3, <3>1, StoppedGood DEF Failures, Stale, Sound
  <2> QED
    BY <1>1, <2>1, <2>2, <2>3, ProposalGood, RoundGood DEF Proposals
<1>5. CASE kind = "ingress"
  <2>1. /\ MayPropose(l, s) /\ c.plan = [issue |-> s.issue, base |-> s.main]
        /\ n = WithPlan(l, c.plan)
    BY <1>5 DEF Results, StatedFacts
  <2> QED
    BY <1>1, <2>1, ProposalGood
<1>6. CASE kind = "review"
  BY <1>1, <1>6, ReviewGood DEF Results, Reviewable
<1>7. CASE kind = "observe"
  BY <1>7, ObservedRunGood DEF Results
<1>8. CASE kind = "inspect"
  BY <1>8, ObservedCIGood DEF Results
<1>9. kind # "dispatch"
  BY DEF Results
<1> QED
  BY <1>2, <1>3, <1>4, <1>5, <1>6, <1>7, <1>8, <1>9 DEF Kinds

-----------------------------------------------------------------------------
(* The target only adds evidence.                                           *)

\* Runs are added and end, and a success is never taken back.
Grows(rs, cs, rs2, cs2) ==
  /\ Len(rs) <= Len(rs2)
  /\ \A r \in 1..Len(rs) :
       /\ rs2[r].plan = rs[r].plan /\ rs2[r].main = rs[r].main
       /\ rs[r].phase = "success" => rs2[r] = rs[r]
  /\ \A c \in Heads :
       cs[c] \in {"success", "twice"} => cs2[c] \in {"success", "twice"}

LEMMA EvidenceKept ==
  ASSUME NEW l \in Ledger, Readable(l),
         NEW rs \in Seq(Run), NEW rs2 \in Seq(Run), NEW cs, NEW cs2,
         Grows(rs, cs, rs2, cs2), Evidence(l, rs, cs),
         \A r \in 1..Len(rs) : rs[r].head \in Heads => rs[r].phase = "success"
  PROVE  Evidence(l, rs2, cs2)
<1>1. l.receipt \in Nat /\ Len(rs) \in Nat /\ Len(rs2) \in Nat
  BY ConstantsAssumption DEF Ledger
<1>2. l.receipt <= Len(rs2)
  BY <1>1 DEF Evidence, Grows
<1>3. l.receipt # None => l.receipt \in 1..Len(rs)
  BY <1>1 DEF Evidence
<1>4. l.receipt # None => rs2[l.receipt].plan = l.plan
  BY <1>3 DEF Evidence, Grows
<1>5. l.phase \in {"ci_pending", "ci_verified"} =>
        rs2[l.receipt].phase = "success" /\ rs2[l.receipt].main = l.base
  BY <1>3 DEF Evidence, Grows, Readable
<1>6. ASSUME l.phase = "ci_verified"
      PROVE  /\ \E r \in 1..Len(rs2) : rs2[r].plan = l.plan /\ rs2[r].head = l.head
             /\ cs2[l.head] \in {"success", "twice"}
  <2>1. l.head \in Heads
    BY <1>6 DEF Readable, Ledger
  <2>2. PICK r \in 1..Len(rs) : rs[r].plan = l.plan /\ rs[r].head = l.head
    BY <1>6 DEF Evidence
  <2>3. rs2[r] = rs[r] /\ r \in 1..Len(rs2)
    BY <1>1, <2>1, <2>2 DEF Grows
  <2> QED
    BY <1>6, <2>1, <2>2, <2>3 DEF Evidence, Grows
<1> QED
  BY <1>2, <1>4, <1>5, <1>6 DEF Evidence

\* When the target grows, what was sound is sound.
LEMMA InvKept ==
  ASSUME IInv, WorldOK', Grows(runs, ci, runs', ci'),
         ledger' = ledger, comment' = comment
  PROVE  /\ (comment \in Comment)' /\ (ledger \in Ledger)' /\ Sound(ledger)'
         /\ job' = job => IInv'
<1>1. ASSUME NEW l \in Ledger, Sound(l)
      PROVE  Evidence(l, runs', ci')
  BY <1>1, EvidenceKept DEF IInv, WorldOK, Sound
<1>2. (comment \in Comment)' /\ (ledger \in Ledger)' /\ Sound(ledger)'
  BY <1>1 DEF IInv, Sound
<1>3. ASSUME job' = job PROVE JobInv'
  <2>1. ASSUME job.pc \in {"recheck", "write"} PROVE Sound(job.after)'
    BY <1>1, <1>3, <2>1 DEF IInv, JobInv, Job, Sound
  <2> QED
    BY <1>3, <2>1 DEF IInv, JobInv
<1> QED
  BY <1>2, <1>3 DEF IInv

-----------------------------------------------------------------------------
(* The steps of a job.                                                      *)

LEMMA IdleForm ==
  JobIdle \in Job /\ JobIdle.pc = "idle"
<1>1. NoComment \in Comment
  BY ConstantsAssumption DEF NoComment, Comment
<1>2. InitialTarget \in Target
  BY ConstantsAssumption DEF InitialTarget, Target, Mains, Issues
<1> QED
  BY <1>1, <1>2, NoLedgerForm DEF JobIdle, Job, Steps, Kinds

\* A step that changes the job only.
LEMMA JobStep ==
  ASSUME IInv, UNCHANGED <<world, ledger, comment>>, NEW j, job' = j, j \in Job,
         j.pc \in HasRead \/ (j.pc = "issue" /\ j.kind = "ingress") =>
           j.before = ledger,
         j.pc = "dispatch" => j.before.phase = "dispatch_ready",
         j.pc \in {"recheck", "write"} => Good(ledger, j.after)
  PROVE  IInv'
<1>1. WorldOK'
  BY DEF IInv, WorldOK, world
<1>2. (comment \in Comment)' /\ (ledger \in Ledger)' /\ Sound(ledger)'
  BY DEF IInv, world, Sound
<1>3. ASSUME j.pc \in {"recheck", "write"}
      PROVE  Sound(job.after)' /\ (job.after = ledger \/ Step(ledger, job.after))'
  BY <1>3 DEF Good, Sound, world
<1>4. JobInv'
  BY <1>3 DEF JobInv
<1> QED
  BY <1>1, <1>2, <1>4 DEF IInv

\* To end the job is always allowed.
LEMMA EndStep ==
  ASSUME IInv, UNCHANGED <<world, ledger, comment>>, End
  PROVE  IInv'
  BY IdleForm, JobStep DEF End, HasRead

LEMMA BeginStep ==
  ASSUME IInv, NEW kind \in Kinds, Begin(kind) PROVE IInv'
<1> DEFINE given == IF kind = "ingress" THEN comment ELSE NoComment
           j == [JobIdle EXCEPT
                   !.pc = First(kind), !.kind = kind, !.comment = given,
                   !.saw.base = target.base, !.saw.enabled = target.enabled]
<1>1. First(kind) \in {"issue", "main", "ledger"}
      /\ (kind = "ingress" => First(kind) = "main")
  BY DEF First
<1>2. given \in Comment
  BY ConstantsAssumption DEF IInv, NoComment, Comment
<1>3. target.base \in Mains /\ target.enabled \in BOOLEAN
  BY DEF IInv, WorldOK, Target
<1>4. j \in Job /\ j.pc = First(kind) /\ j.kind = kind
  <2> HIDE DEF given
  <2>1. First(kind) \in Steps
    BY <1>1 DEF Steps
  <2> QED
    BY <1>2, <1>3, <2>1, IdleForm DEF Job, Target
<1>5. job' = j /\ UNCHANGED <<world, ledger, comment>>
  BY DEF Begin
<1> HIDE DEF j
<1> QED
  BY <1>1, <1>4, <1>5, JobStep DEF HasRead

LEMMA ReadIssueStep == ASSUME IInv, ReadIssue PROVE IInv'
<1> DEFINE j == [GoOn("issue") EXCEPT !.saw.issue = target.issue]
<1>1. job \in Job /\ target.issue \in Issues /\ job.pc = "issue"
  BY DEF IInv, JobInv, WorldOK, Target, ReadIssue
<1>2. After(job.kind, "issue") = IF job.kind = "ingress" THEN "compute" ELSE "main"
  BY DEF After
<1>3. /\ j \in Job /\ j.pc = After(job.kind, "issue") /\ j.kind = job.kind
      /\ j.before = job.before
  BY <1>1, <1>2 DEF GoOn, Job, Target, Steps
<1>4. job' = j /\ UNCHANGED <<world, ledger, comment>>
  BY DEF ReadIssue
<1>5. job.kind = "ingress" => job.before = ledger
  BY <1>1 DEF IInv, JobInv
<1> HIDE DEF j
<1> QED
  BY <1>2, <1>3, <1>4, <1>5, JobStep DEF HasRead

LEMMA ReadMainStep == ASSUME IInv, ReadMain PROVE IInv'
<1>1. CASE End
  BY <1>1, EndStep DEF ReadMain
<1>2. CASE ~End
  <2> DEFINE j == [GoOn("main") EXCEPT !.saw.main = target.main,
                                       !.saw.having = target.having]
  <2>1. job \in Job /\ target.main \in Mains /\ target.having \in SUBSET Mains
    BY DEF IInv, JobInv, WorldOK, Target
  <2>2. After(job.kind, "main") = "ledger"
    BY DEF After
  <2>3. j \in Job /\ j.pc = "ledger"
    BY <2>1, <2>2 DEF GoOn, Job, Target, Steps
  <2>4. job' = j /\ UNCHANGED <<world, ledger, comment>>
    BY <1>2 DEF ReadMain
  <2> HIDE DEF j
  <2> QED
    BY <2>3, <2>4, JobStep DEF HasRead
<1> QED
  BY <1>1, <1>2

LEMMA ReadLedgerStep == ASSUME IInv, ReadLedger PROVE IInv'
<1> DEFINE j == [GoOn("ledger") EXCEPT !.before = ledger]
<1>1. job \in Job /\ ledger \in Ledger
  BY DEF IInv, JobInv
<1>2. After(job.kind, "ledger") = IF job.kind = "ingress" THEN "issue" ELSE "compute"
  BY DEF After
<1>3. j \in Job /\ j.pc \in {"issue", "compute"} /\ j.before = ledger
  BY <1>1, <1>2 DEF GoOn, Job, Steps
<1>4. job' = j /\ UNCHANGED <<world, ledger, comment>>
  BY DEF ReadLedger
<1> HIDE DEF j
<1> QED
  BY <1>3, <1>4, JobStep

LEMMA ComputeStep == ASSUME IInv, Compute PROVE IInv'
<1>1. CASE End
  BY <1>1, EndStep DEF Compute
<1>2. CASE ~End
  <2>1. /\ job \in Job /\ job.before = ledger /\ ledger \in Ledger
        /\ Sound(ledger) /\ WorldOK
    BY DEF IInv, JobInv, Compute, HasRead
  <2>2. PICK l \in Results(job.kind, ledger, job.saw, job.comment) :
          /\ l.revision <= MaxRevision
          /\ job' = [JobIdle EXCEPT
               !.kind = job.kind, !.before = job.before, !.after = l,
               !.pc = IF job.kind = "propose" THEN "recheck" ELSE "write"]
    BY <1>2, <2>1 DEF Compute
  <2>3. /\ job.saw \in Target /\ job.comment \in Comment /\ job.kind \in Kinds
    BY <2>1 DEF Job
  <2>4. Good(ledger, l)
    BY <2>1, <2>2, <2>3, ResultGood
  <2> DEFINE j == [JobIdle EXCEPT
               !.kind = job.kind, !.before = job.before, !.after = l,
               !.pc = IF job.kind = "propose" THEN "recheck" ELSE "write"]
  <2>5. /\ j \in Job /\ j.pc \in {"recheck", "write"} /\ j.before = ledger
        /\ j.after = l
    <3>1. l \in Ledger
      BY <2>4 DEF Good
    <3> QED
      BY <2>1, <2>3, <3>1, IdleForm DEF Job, Steps
  <2>6. job' = j /\ UNCHANGED <<world, ledger, comment>>
    BY <2>2 DEF Compute
  <2> HIDE DEF j
  <2> QED
    BY <2>4, <2>5, <2>6, JobStep
<1> QED
  BY <1>1, <1>2

LEMMA RecheckStep == ASSUME IInv, Recheck PROVE IInv'
<1>1. CASE End
  BY <1>1, EndStep DEF Recheck
<1>2. CASE ~End
  <2> DEFINE j == [job EXCEPT !.pc = "write"]
  <2>1. /\ job \in Job /\ job.before = ledger /\ Good(ledger, job.after)
    BY DEF IInv, JobInv, Recheck, HasRead, Good, Job
  <2>2. j \in Job /\ j.pc = "write" /\ j.before = ledger /\ j.after = job.after
    BY <2>1 DEF Job, Steps
  <2>3. job' = j /\ UNCHANGED <<world, ledger, comment>>
    BY <1>2 DEF Recheck
  <2> HIDE DEF j
  <2> QED
    BY <2>1, <2>2, <2>3, JobStep
<1> QED
  BY <1>1, <1>2

LEMMA CheckDispatchStep == ASSUME IInv, CheckDispatch PROVE IInv'
<1>1. CASE End
  BY <1>1, EndStep DEF CheckDispatch
<1>2. CASE ~End
  <2> DEFINE j == [JobIdle EXCEPT !.pc = "dispatch", !.kind = "dispatch",
                                  !.before = job.before]
  <2>1. job \in Job /\ job.before = ledger
    BY DEF IInv, JobInv, CheckDispatch, HasRead
  <2>2. j \in Job /\ j.pc = "dispatch" /\ j.before = ledger
    BY <2>1, IdleForm DEF Job, Steps, Kinds
  <2>3. job' = j /\ UNCHANGED <<world, ledger, comment>>
        /\ job.before.phase = "dispatch_ready"
    BY <1>2 DEF CheckDispatch
  <2> HIDE DEF j
  <2> QED
    BY <2>1, <2>2, <2>3, JobStep
<1> QED
  BY <1>1, <1>2

\* The request makes the run; its receipt is recorded, or lost with the job.
LEMMA DispatchStep == ASSUME IInv, Dispatch PROVE IInv'
<1> DEFINE r == [plan |-> job.before.plan, main |-> target.main,
                 phase |-> "queued", head |-> None]
           n == [job.before EXCEPT !.revision = @ + 1, !.phase = "dispatched",
                                   !.receipt = Len(runs) + 1]
<1>1. /\ job \in Job /\ job.before = ledger /\ ledger.phase = "dispatch_ready"
      /\ ledger \in Ledger /\ Sound(ledger) /\ WorldOK
  BY DEF IInv, JobInv, Dispatch, HasRead
<1>2. /\ runs' = Append(runs, r) /\ Len(runs) < MaxRuns
      /\ UNCHANGED <<target, pr, ci, ledger, comment>>
      /\ ledger.revision < MaxRevision
  BY <1>1 DEF Dispatch
<1>3. ledger.plan \in Plan
  BY <1>1 DEF Sound, Readable, Ledger
<1>4. r \in Run
  BY <1>1, <1>3 DEF Run, WorldOK, Target
<1>5. runs \in Seq(Run) /\ Len(runs) \in Nat
  BY <1>1 DEF WorldOK
<1> HIDE DEF r
<1>6. /\ runs' \in Seq(Run) /\ Len(runs') = Len(runs) + 1
      /\ runs'[Len(runs) + 1] = r
      /\ \A i \in 1..Len(runs) : runs'[i] = runs[i]
  BY <1>2, <1>4, <1>5
<1>7. r.plan = ledger.plan /\ r.head = None /\ r.head \notin Heads
  BY <1>1 DEF r, Heads
<1>8. WorldOK'
  <2>1. ASSUME NEW i \in 1..Len(runs'), runs'[i].head \in Heads
        PROVE  runs'[i].phase = "success"
    <3>1. i \in 1..Len(runs)
      BY <1>5, <1>6, <1>7, <2>1
    <3> QED
      BY <1>1, <1>6, <2>1, <3>1 DEF WorldOK
  <2> QED
    BY <1>1, <1>2, <1>5, <1>6, <2>1, ConstantsAssumption DEF WorldOK
<1>9. Grows(runs, ci, runs', ci')
  BY <1>2, <1>5, <1>6 DEF Grows
<1>10. /\ (comment \in Comment)' /\ (ledger \in Ledger)' /\ Sound(ledger)'
  BY <1>2, <1>8, <1>9, InvKept
<1>11. CASE End
  BY <1>8, <1>10, <1>11, IdleForm DEF End, IInv, JobInv, HasRead
<1>12. CASE ~End
  <2>1. job' = [job EXCEPT !.pc = "write", !.after = n]
    BY <1>12 DEF Dispatch
  <2> DEFINE m == [ledger EXCEPT !.revision = @ + 1, !.phase = "dispatched"]
  <2>2. /\ m \in Ledger /\ m.revision > ledger.revision
        /\ m.phase = "dispatched" /\ m.issue = ledger.issue
        /\ m.base = ledger.base /\ m.plan = ledger.plan
        /\ m.failure = ledger.failure
    <3>1. ledger.revision + 1 <= MaxRevision
      BY <1>1, <1>2, ConstantsAssumption DEF Ledger
    <3> QED
      BY <1>1, <3>1, Advanced DEF Phases
  <2>3. n = [m EXCEPT !.receipt = Len(runs) + 1]
    BY <1>1 DEF Ledger
  <2> HIDE DEF m, n
  <2>4. Len(runs) + 1 \in 0..MaxRuns
    BY <1>2, <1>5, ConstantsAssumption
  <2>5. /\ n \in Ledger /\ n.revision > ledger.revision
        /\ n.phase = "dispatched" /\ n.issue = ledger.issue
        /\ n.base = ledger.base /\ n.plan = ledger.plan
        /\ n.receipt = Len(runs) + 1 /\ n.failure = ledger.failure
    BY <2>2, <2>3, <2>4 DEF Ledger
  <2>6. Readable(n)
    BY <1>3, <1>5, <2>5 DEF Readable, Plan, NoPlan, Issues
  <2>7. Evidence(n, runs', ci')
    BY <1>5, <1>6, <1>7, <2>5 DEF Evidence
  <2>8. job' \in Job /\ job'.pc = "write" /\ job'.before = ledger /\ job'.after = n
    BY <1>1, <2>1, <2>5 DEF Job, Steps
  <2>9. Sound(job.after)'
    BY <1>1, <2>5, <2>6, <2>7, <2>8 DEF Sound
  <2>10. Step(ledger, n)
    BY <1>1, <2>5 DEF Step
  <2>11. JobInv'
    BY <1>2, <2>8, <2>9, <2>10 DEF JobInv
  <2> QED
    BY <1>8, <1>10, <2>11 DEF IInv
<1> QED
  BY <1>11, <1>12

\* Nothing changed the ledger since it was read.
LEMMA WriteStep ==
  ASSUME IInv, Write
  PROVE  /\ IInv'
         /\ ledger' = ledger \/ Step(ledger, ledger')
<1>1. /\ job \in Job /\ job.before = ledger /\ Sound(job.after)
      /\ job.after = ledger \/ Step(ledger, job.after)
  BY DEF IInv, JobInv, Write, HasRead
<1>2. ledger' = job.after /\ UNCHANGED <<world, comment>> /\ End
  BY <1>1 DEF Write
<1>3. (ledger \in Ledger)' /\ Sound(ledger)'
  BY <1>1, <1>2 DEF Job, Sound, world
<1>4. WorldOK' /\ (comment \in Comment)'
  BY <1>2 DEF IInv, WorldOK, world
<1> QED
  BY <1>1, <1>2, <1>3, <1>4, IdleForm DEF End, IInv, JobInv, HasRead

-----------------------------------------------------------------------------
(* The steps of the others.                                                 *)

LEMMA PostCommentStep == ASSUME IInv, PostComment PROVE IInv'
<1>1. ledger.revision \in 0..MaxRevision
  BY DEF IInv, Ledger
<1>2. [issue |-> target.issue, base |-> target.main] \in Plan
  BY DEF IInv, WorldOK, Target, Plan
<1>3. (comment \in Comment)'
  BY <1>1, <1>2 DEF PostComment, Comment
<1> QED
  BY <1>3 DEF PostComment, IInv, WorldOK, JobInv, Sound, world

LEMMA TargetStep ==
  ASSUME IInv, target' \in Target, UNCHANGED <<runs, pr, ci, ledger, comment, job>>
  PROVE  IInv'
  BY DEF IInv, WorldOK, JobInv, Sound

LEMMA TargetSteps ==
  ASSUME IInv, ReviewPolicy \/ MoveMain \/ EditIssue PROVE IInv'
<1>1. target \in Target
  BY DEF IInv, WorldOK
<1>2. CASE ReviewPolicy
  <2>1. target' \in Target
    BY <1>1, <1>2 DEF ReviewPolicy, Target
  <2> QED
    BY <1>2, <2>1, TargetStep DEF ReviewPolicy
<1>3. target.changes < MaxChanges => target.changes + 1 \in 0..MaxChanges
  BY <1>1, ConstantsAssumption DEF Target
<1>4. CASE MoveMain
  <2>1. target' \in Target
    BY <1>1, <1>3, <1>4 DEF MoveMain, Target
  <2> QED
    BY <1>4, <2>1, TargetStep DEF MoveMain
<1>5. CASE EditIssue
  <2>1. target' \in Target
    BY <1>1, <1>3, <1>5 DEF EditIssue, Target
  <2> QED
    BY <1>5, <2>1, TargetStep DEF EditIssue
<1> QED
  BY <1>2, <1>4, <1>5

LEMMA RunEndsStep ==
  ASSUME IInv, NEW r \in 1..Len(runs), RunEnds(r) PROVE IInv'
<1>1. /\ WorldOK /\ runs \in Seq(Run) /\ runs[r] \in Run
      /\ runs[r].phase = "queued" /\ Len(runs) \in Nat
      /\ ci \in [Heads -> CIStates] /\ r \in 1..Len(runs)
  BY DEF IInv, WorldOK, RunEnds
<1>2. CASE \E c \in Heads :
             /\ NewHead(c)
             /\ runs' = [runs EXCEPT ![r].phase = "success", ![r].head = c]
             /\ pr' = [head |-> c, draft |-> TRUE]
             /\ ci' = [ci EXCEPT ![c] = "pending"]
  <2>1. PICK c \in Heads :
             /\ NewHead(c)
             /\ runs' = [runs EXCEPT ![r].phase = "success", ![r].head = c]
             /\ pr' = [head |-> c, draft |-> TRUE]
             /\ ci' = [ci EXCEPT ![c] = "pending"]
    BY <1>2
  <2> DEFINE n == [runs[r] EXCEPT !.phase = "success", !.head = c]
  <2>2. n \in Run /\ n.phase = "success" /\ n.plan = runs[r].plan
        /\ n.main = runs[r].main
    BY <1>1 DEF Run
  <2>3. runs' = [runs EXCEPT ![r] = n]
    BY <1>1, <2>1 DEF Run
  <2> HIDE DEF n
  <2>4. /\ runs' \in Seq(Run) /\ Len(runs') = Len(runs) /\ runs'[r] = n
        /\ \A i \in 1..Len(runs) : i # r => runs'[i] = runs[i]
    BY <1>1, <2>2, <2>3
  <2>5. ci[c] = "none"
    BY <2>1 DEF NewHead, Pushed
  <2>6. Grows(runs, ci, runs', ci')
    BY <1>1, <2>1, <2>2, <2>4, <2>5 DEF Grows
  <2>7. WorldOK'
    <3>1. \A i \in 1..Len(runs') : runs'[i].head \in Heads => runs'[i].phase = "success"
      BY <1>1, <2>2, <2>4 DEF WorldOK
    <3>2. ci' \in [Heads -> CIStates]
      BY <1>1, <2>1 DEF CIStates
    <3>3. pr' \in [head : Heads \cup {None}, draft : BOOLEAN] /\ pr'.head # None
      BY <2>1 DEF Heads
    <3> QED
      BY <1>1, <2>4, <3>1, <3>2, <3>3 DEF WorldOK, RunEnds
  <2> QED
    BY <2>6, <2>7, InvKept DEF RunEnds
<1>3. CASE runs' = [runs EXCEPT ![r].phase = "failure"] /\ UNCHANGED <<pr, ci>>
  <2> DEFINE n == [runs[r] EXCEPT !.phase = "failure"]
  <2>1. n \in Run /\ n.phase = "failure" /\ n.plan = runs[r].plan
        /\ n.main = runs[r].main /\ n.head = runs[r].head
    BY <1>1 DEF Run
  <2>2. runs' = [runs EXCEPT ![r] = n]
    BY <1>1, <1>3 DEF Run
  <2> HIDE DEF n
  <2>3. /\ runs' \in Seq(Run) /\ Len(runs') = Len(runs) /\ runs'[r] = n
        /\ \A i \in 1..Len(runs) : i # r => runs'[i] = runs[i]
    BY <1>1, <2>1, <2>2
  <2>4. Grows(runs, ci, runs', ci')
    BY <1>1, <1>3, <2>1, <2>3 DEF Grows
  <2>5. WorldOK'
    <3>1. runs[r].head \notin Heads
      BY <1>1 DEF WorldOK
    <3>2. \A i \in 1..Len(runs') : runs'[i].head \in Heads => runs'[i].phase = "success"
      BY <1>1, <2>1, <2>3, <3>1 DEF WorldOK
    <3> QED
      BY <1>1, <1>3, <2>3, <3>2 DEF WorldOK, RunEnds
  <2> QED
    BY <2>4, <2>5, InvKept DEF RunEnds
<1> QED
  BY <1>2, <1>3 DEF RunEnds

LEMMA TouchPullRequestStep == ASSUME IInv, TouchPullRequest PROVE IInv'
<1>1. WorldOK /\ ci \in [Heads -> CIStates] /\ runs \in Seq(Run)
  BY DEF IInv, WorldOK
<1>2. /\ ci' \in [Heads -> CIStates]
      /\ pr' \in [head : Heads \cup {None}, draft : BOOLEAN]
      /\ pr'.draft => pr'.head # None
      /\ \A c \in Heads : ci[c] \in {"success", "twice"} => ci'[c] = ci[c]
  <2>1. CASE pr' = [pr EXCEPT !.draft = FALSE] /\ UNCHANGED ci
    BY <1>1, <2>1 DEF WorldOK
  <2>2. CASE \E c \in Heads :
             /\ NewHead(c)
             /\ pr' = [pr EXCEPT !.head = c] /\ ci' = [ci EXCEPT ![c] = "pending"]
    <3>1. PICK c \in Heads :
             /\ NewHead(c)
             /\ pr' = [pr EXCEPT !.head = c] /\ ci' = [ci EXCEPT ![c] = "pending"]
      BY <2>2
    <3>2. ci[c] = "none"
      BY <3>1 DEF NewHead, Pushed
    <3>3. pr' \in [head : Heads \cup {None}, draft : BOOLEAN] /\ pr'.head # None
      BY <1>1, <3>1 DEF WorldOK, Heads
    <3> QED
      BY <1>1, <3>1, <3>2, <3>3 DEF CIStates
  <2> QED
    BY <2>1, <2>2 DEF TouchPullRequest
<1>3. UNCHANGED <<target, runs, ledger, comment, job>>
  BY DEF TouchPullRequest
<1>4. WorldOK'
  BY <1>1, <1>2, <1>3 DEF WorldOK
<1>5. Grows(runs, ci, runs', ci')
  BY <1>1, <1>2, <1>3 DEF Grows
<1> QED
  BY <1>3, <1>4, <1>5, InvKept

LEMMA CIRunsStep == ASSUME IInv, NEW c \in Heads, CIRuns(c) PROVE IInv'
<1>1. WorldOK /\ ci \in [Heads -> CIStates] /\ runs \in Seq(Run)
  BY DEF IInv, WorldOK
<1>2. UNCHANGED <<target, runs, pr, ledger, comment, job>>
  BY DEF CIRuns
<1>3. ci' \in [Heads -> CIStates]
  BY <1>1 DEF CIRuns, CIStates
<1>4. \A d \in Heads :
        ci[d] \in {"success", "twice"} => ci'[d] \in {"success", "twice"}
  BY <1>1 DEF CIRuns
<1>5. WorldOK'
  BY <1>1, <1>2, <1>3 DEF WorldOK
<1>6. Grows(runs, ci, runs', ci')
  BY <1>1, <1>2, <1>4 DEF Grows
<1> QED
  BY <1>2, <1>5, <1>6, InvKept

-----------------------------------------------------------------------------
(* Theorems.                                                                *)

\* Every step keeps the invariant, and the ledger takes a step of ForeignLedger.
LEMMA NextInv ==
  ASSUME IInv, [Next]_vars
  PROVE  IInv' /\ (ledger' = ledger \/ Step(ledger, ledger'))
<1>1. CASE UNCHANGED vars
  BY <1>1 DEF vars, world, IInv, WorldOK, JobInv, Sound
<1>2. ASSUME NEW kind \in Kinds, Begin(kind)
      PROVE  IInv' /\ ledger' = ledger
  BY <1>2, BeginStep DEF Begin
<1>3. CASE ReadIssue
  BY <1>3, ReadIssueStep DEF ReadIssue
<1>4. CASE ReadMain
  BY <1>4, ReadMainStep DEF ReadMain
<1>5. CASE ReadLedger
  BY <1>5, ReadLedgerStep DEF ReadLedger
<1>6. CASE Compute
  BY <1>6, ComputeStep DEF Compute
<1>7. CASE Recheck
  BY <1>7, RecheckStep DEF Recheck
<1>8. CASE CheckDispatch
  BY <1>8, CheckDispatchStep DEF CheckDispatch
<1>9. CASE Dispatch
  BY <1>9, DispatchStep DEF Dispatch
<1>10. CASE Write
  BY <1>10, WriteStep
<1>11. CASE Stop
  BY <1>11, EndStep DEF Stop
<1>12. CASE PostComment
  BY <1>12, PostCommentStep DEF PostComment
<1>13. CASE ReviewPolicy \/ MoveMain \/ EditIssue
  BY <1>13, TargetSteps DEF ReviewPolicy, MoveMain, EditIssue
<1>14. CASE TouchPullRequest
  BY <1>14, TouchPullRequestStep DEF TouchPullRequest
<1>15. ASSUME NEW r \in 1..Len(runs), RunEnds(r)
       PROVE  IInv' /\ ledger' = ledger
  BY <1>15, RunEndsStep DEF RunEnds
<1>16. ASSUME NEW c \in Heads, CIRuns(c)
       PROVE  IInv' /\ ledger' = ledger
  BY <1>16, CIRunsStep DEF CIRuns
<1> QED
  BY <1>1, <1>2, <1>3, <1>4, <1>5, <1>6, <1>7, <1>8, <1>9, <1>10, <1>11, <1>12,
     <1>13, <1>14, <1>15, <1>16 DEF Next, Jobs, Others

\* The invariant holds in every reachable state.
LEMMA Invariance == Spec => []IInv
<1>1. IInv /\ [Next]_vars => IInv'
  BY NextInv
<1> QED
  BY InitInv, <1>1, PTL DEF Spec

\* Every variable keeps its type and the ledger stays readable, whichever job
\* writes it: no later job is stopped by from_dict.
THEOREM TypeCorrect == Spec => []TypeOK
<1>1. IInv => TypeOK
  BY DEF IInv, WorldOK, JobInv, Sound, TypeOK
<1> QED
  BY Invariance, <1>1, PTL

\* A verified ledger rests on an execution of its plan at the reviewed base and
\* on the green workflows of the head that was pushed.
THEOREM VerifiedHasEvidence == Spec => []VerifiedEvidence
<1>1. IInv => VerifiedEvidence
  <2> SUFFICES ASSUME IInv, ledger.phase = "ci_verified" PROVE VerifiedEvidence
    BY DEF VerifiedEvidence
  <2>1. Evidence(ledger, runs, ci) /\ ledger.receipt # None
    BY DEF IInv, Sound, Readable
  <2> QED
    BY <2>1 DEF Evidence, VerifiedEvidence
<1> QED
  BY Invariance, <1>1, PTL

\* A ledger whose facts changed is not the one a job dispatches.
LEMMA ChangedRunsNothing ==
  ASSUME IInv, Next, ledger.failure = "ADMISSION_FACTS_CHANGED"
  PROVE  Len(runs') = Len(runs)
<1>1. runs \in Seq(Run) /\ Len(runs) \in Nat
  BY DEF IInv, WorldOK
<1>2. ~Dispatch
  <2> SUFFICES ASSUME Dispatch PROVE FALSE
    OBVIOUS
  <2>1. ledger.phase = "dispatch_ready"
    BY DEF IInv, JobInv, HasRead, Dispatch
  <2> QED
    BY <2>1 DEF IInv, Sound
<1>3. ASSUME NEW r \in 1..Len(runs), RunEnds(r) PROVE Len(runs') = Len(runs)
  <2>1. ASSUME NEW a, NEW b, runs' = [runs EXCEPT ![r].phase = a, ![r].head = b]
        PROVE  Len(runs') = Len(runs)
    BY <1>1, <2>1
  <2>2. ASSUME runs' = [runs EXCEPT ![r].phase = "failure"]
        PROVE  Len(runs') = Len(runs)
    BY <1>1, <2>2
  <2> QED
    BY <1>3, <2>1, <2>2 DEF RunEnds
<1> QED
  BY <1>2, <1>3
     DEF Next, Jobs, Others, Begin, ReadIssue, ReadMain, ReadLedger, Compute,
         Recheck, CheckDispatch, Write, Stop, PostComment, ReviewPolicy,
         MoveMain, EditIssue, TouchPullRequest, CIRuns, world

\* A stale plan is left as it is: what a job is about to write was computed from
\* the ledger that is there, and no Step leaves a stale one.
LEMMA StaleIsLeft ==
  ASSUME IInv, Next, Stale(ledger) PROVE ledger' = ledger
<1>1. ledger.phase = "revision_required"
  BY DEF IInv, Sound, Stale
<1>2. ASSUME Write PROVE ledger' = ledger
  <2>1. job.after = ledger \/ Step(ledger, job.after)
    BY <1>2 DEF IInv, JobInv, Write
  <2>2. ~Step(ledger, job.after)
    BY <1>1 DEF Step, Stale
  <2> QED
    BY <1>2, <2>1, <2>2 DEF Write
<1> QED
  BY <1>2
     DEF Next, Jobs, Others, Begin, ReadIssue, ReadMain, ReadLedger, Compute,
         Recheck, CheckDispatch, Dispatch, Stop, PostComment, ReviewPolicy,
         MoveMain, EditIssue, TouchPullRequest, RunEnds, CIRuns, world

\* Once its facts are recorded to have changed the ledger dispatches nothing, and
\* with a plan it stays as it is, whatever the target goes back to.
THEOREM StalePlanNeverRuns == Spec => StaleStaysStopped
<1>1. IInv /\ [Next]_vars =>
        [ledger.failure = "ADMISSION_FACTS_CHANGED" =>
           /\ Len(runs') = Len(runs)
           /\ ledger.plan # NoPlan => ledger' = ledger]_vars
  BY ChangedRunsNothing, StaleIsLeft DEF Stale
<1> QED
  BY Invariance, <1>1, PTL DEF Spec, StaleStaysStopped

\* One step of the ledger is one step of ForeignLedger.
LEMMA StepIsAbstract ==
  ASSUME ledger \in Ledger, (ledger \in Ledger)', Step(ledger, ledger')
  PROVE  Abstract!Next
<1>1. /\ ledger.revision \in Nat /\ ledger'.revision \in Nat
  BY ConstantsAssumption DEF Ledger
<1> QED
  BY <1>1 DEF Step, NoPlan, Facts, Work, Abstract!Next, Abstract!Admit, Abstract!Readmit,
     Abstract!Reason, Abstract!Propose, Abstract!Approve, Abstract!Dispatch,
     Abstract!Execute, Abstract!Verify, Abstract!Revise, Abstract!Move,
     Abstract!Kept

\* The ledger in its comment, moved by jobs that read, compute and write, is
\* the ledger of ForeignLedger, moved in single steps.
THEOREM LedgerImplementsForeignLedger == Spec => LedgerKept
<1>1. Init => Abstract!Init
  BY DEF Init, NoLedger, NoPlan, Work, Abstract!Init
<1>2. IInv /\ IInv' /\ [Next]_vars => [Abstract!Next]_Work
  BY NextInv, StepIsAbstract DEF IInv, Work
<1> QED
  BY Invariance, <1>1, <1>2, PTL DEF Spec, LedgerKept, Abstract!Spec
=============================================================================
