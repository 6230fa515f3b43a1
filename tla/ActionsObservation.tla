-------------------------- MODULE ActionsObservation --------------------------
(***************************************************************************)
(* How a caller of GitHub Actions finds the run of its own dispatch:       *)
(* dispatch_workflow, then wait_for_dispatch, which polls with             *)
(* observe_dispatch_once and interprets what it got with evaluate.         *)
(*                                                                         *)
(* The poller is one process; GitHub (runs created, listed and ended, some *)
(* of them other requests' runs) and the clock are its environment.  An    *)
(* enumeration takes one step per page, so runs appear while it is going   *)
(* on, and observed_at is the time after its last page.                    *)
(*                                                                         *)
(* Times are in ticks.  A receipt's requested_at and observed_at have the  *)
(* resolution of the clock; GitHub's created_at is a whole second.         *)
(***************************************************************************)
EXTENDS Integers, Sequences, FiniteSets

CONSTANTS
  Modes,     \* how the caller can tell its run, see RunMode
  MaxRuns,   \* bound: runs of the workflow
  MaxTime,   \* bound: the last tick
  Second,    \* ticks per second
  Grace,     \* visibility_grace_seconds, in ticks
  Timeout,   \* timeout_seconds, in ticks
  PageSize,  \* runs per page (100 in the code)
  MaxPages   \* max_pages (100 in the code)

(***************************************************************************)
(*  direct   the dispatch answered with workflow_run_id                    *)
(*  prefix   no run id; the run's title shows the correlation id           *)
(*  input    no run id; the correlation id is an input no title shows      *)
(***************************************************************************)
RunMode == {"direct", "prefix", "input"}

ASSUME WaitAssumption ==
  /\ Modes \subseteq RunMode
  /\ MaxRuns \in Nat /\ MaxTime \in Nat
  /\ Second \in Nat \ {0} /\ Grace \in Nat /\ Timeout \in Nat
  /\ PageSize \in Nat \ {0} /\ MaxPages \in Nat \ {0}

RunId == 1..MaxRuns
Time == 0..MaxTime
Absent == "none"

VARIABLES
  mode,       \* one of Modes
  clock,
  runs,       \* GitHub: the workflow_dispatch runs on the ref, by creation
  lastRun,    \* GitHub: the newest run
  requested,  \* receipt: requested_at
  bound,      \* receipt: workflow_run_id, 0 if the answer had none
  deadline,   \* of wait_for_dispatch
  pc,         \* of the caller
  page,       \* the page of the enumeration to get next
  collected,  \* the runs the enumeration got so far, in order
  complete,   \* enumeration_complete
  visible,    \* when it began, GitHub listed the run of this request
  result      \* what the last observation came to

github == <<runs, lastRun>>
receipt == <<requested, bound, deadline>>
poll == <<page, collected, complete, visible>>
waitVars == <<mode, clock, github, receipt, pc, poll, result>>

-----------------------------------------------------------------------------
Owner == {"request", "earlier", "other"}
Correlation == {"mine", "other", Absent}

\* owner: who dispatched it - this request, an earlier attempt that carries the
\* same correlation id, or another request.  title: the correlation id that the
\* run's display_title shows.  head: it executes the commit expected, or not.
Run == [owner : Owner, title : Correlation, head : BOOLEAN, created : Time,
        done : BOOLEAN, listed : BOOLEAN]

ObservationStatus ==
  {"MATCHED_ACTIVE", "MATCHED_TERMINAL", "PENDING_VISIBILITY", "NO_MATCH",
   "AMBIGUOUS_MATCH", "STALE_ONLY", "OBSERVATION_INCOMPLETE",
   "BOUND_RUN_IDENTITY_MISMATCH"}

NoResult == [status |-> Absent, run |-> 0]
Result == [status : ObservationStatus \cup {Absent}, run : 0..MaxRuns]

WaitTypeOK ==
  /\ mode \in Modes
  /\ clock \in Time
  /\ lastRun \in 0..MaxRuns
  /\ runs \in [1..lastRun -> Run]
  /\ requested \in Time
  /\ bound \in 0..lastRun
  /\ deadline \in 0..(MaxTime + Timeout)
  /\ pc \in {"start", "posting", "waiting", "listing", "listed", "returned"}
  /\ page \in 1..MaxPages
  /\ collected \in Seq(1..lastRun)
  /\ complete \in BOOLEAN
  /\ visible \in BOOLEAN
  /\ result \in Result

WaitInit ==
  /\ mode \in Modes
  /\ clock = 0
  /\ runs = <<>> /\ lastRun = 0
  /\ requested = 0 /\ bound = 0 /\ deadline = 0
  /\ pc = "start"
  /\ page = 1 /\ collected = <<>> /\ complete = FALSE
  /\ visible = FALSE
  /\ result = NoResult

-----------------------------------------------------------------------------
(* evaluate.  Workflow, event and ref are those the enumeration asked for,  *)
(* or, for a bound run, checked afterwards; run_attempt is not supplied.    *)

\* Mutation: a run that shows no correlation id is taken for the caller's.
EvidenceAssumed(r) ==
  IF mode = "prefix" /\ runs[r].title # Absent THEN runs[r].title ELSE "mine"

\* _run_evidence: the correlation id observed for run r.
Evidence(r) ==
  CASE mode = "direct" -> "mine"
    [] mode = "prefix" -> runs[r].title
    [] mode = "input"  -> Absent

\* A plausible run without the evidence the request requires.
LacksEvidence(r) == Evidence(r) = Absent

IsCandidate(r) == Evidence(r) = "mine" /\ runs[r].head

\* Positions in the enumeration, since a run may have been collected twice.
Candidates == {i \in DOMAIN collected : IsCandidate(collected[i])}
Eligible == {i \in Candidates : runs[collected[i]].created >= requested}

Evaluate(observed) ==
  IF ~complete \/ \E i \in DOMAIN collected : LacksEvidence(collected[i])
    THEN [status |-> "OBSERVATION_INCOMPLETE", run |-> 0]
  ELSE IF Cardinality(Eligible) > 1
    THEN [status |-> "AMBIGUOUS_MATCH", run |-> 0]
  ELSE IF Eligible # {}
    THEN LET r == collected[CHOOSE i \in Eligible : TRUE] IN
         [status |-> IF runs[r].done THEN "MATCHED_TERMINAL"
                     ELSE "MATCHED_ACTIVE", run |-> r]
  ELSE IF Candidates # {}
    THEN [status |-> "STALE_ONLY", run |-> 0]
  ELSE IF observed - requested <= Grace
    THEN [status |-> "PENDING_VISIBILITY", run |-> 0]
  ELSE [status |-> "NO_MATCH", run |-> 0]

\* A bound run of another commit overrides what evaluate says.
Observation ==
  IF bound # 0 /\ ~runs[bound].head
    THEN [status |-> "BOUND_RUN_IDENTITY_MISMATCH", run |-> bound]
    ELSE Evaluate(clock)

-----------------------------------------------------------------------------
(* The caller.                                                              *)

\* dispatch_workflow takes requested_at, then posts.
PrepareDispatch ==
  /\ pc = "start"
  /\ requested' = clock
  /\ pc' = "posting"
  /\ UNCHANGED <<mode, clock, github, bound, deadline, poll, result>>

CreatedAt == (clock \div Second) * Second

NewRun(owner, title, head) ==
  /\ pc # "returned"
  /\ lastRun < MaxRuns
  /\ lastRun' = lastRun + 1
  /\ runs' = Append(runs, [owner |-> owner, title |-> title, head |-> head,
                           created |-> CreatedAt, done |-> FALSE,
                           listed |-> FALSE])

\* GitHub creates the run, at a head that may have moved; the answer has the
\* run id in mode "direct" only.  (MaxTime leaves room for the deadline.)
Post ==
  /\ pc = "posting"
  /\ clock + Timeout <= MaxTime
  /\ \E head \in BOOLEAN : NewRun("request", "mine", head)
  /\ bound' = IF mode = "direct" THEN lastRun' ELSE 0
  /\ deadline' = clock + Timeout
  /\ pc' = "waiting"
  /\ UNCHANGED <<mode, clock, requested, poll, result>>

\* observe_dispatch_once begins: one GET of the bound run, or an enumeration.  (That
\* the bound run answers 404, because it was deleted, is left out.)
BeginObservation ==
  /\ pc = "waiting"
  /\ visible' = \E r \in 1..lastRun :
                  runs[r].owner = "request" /\ runs[r].head /\ runs[r].listed
  /\ page' = 1
  /\ IF bound # 0
       THEN /\ collected' = <<bound>>
            /\ complete' = TRUE
            /\ pc' = "listed"
       ELSE /\ collected' = <<>>
            /\ complete' = FALSE
            /\ pc' = "listing"
  /\ UNCHANGED <<mode, clock, github, receipt, result>>

\* GitHub lists the newest run first: the n-th listed run from there.
Listed == {r \in 1..lastRun : runs[r].listed}
Newest(n) ==
  CHOOSE r \in Listed : Cardinality({s \in Listed : s > r}) = n - 1

PageOf(k) ==
  LET first == (k - 1) * PageSize
      size == IF Cardinality(Listed) <= first THEN 0
              ELSE IF Cardinality(Listed) < first + PageSize
                THEN Cardinality(Listed) - first ELSE PageSize
  IN [n \in 1..size |-> Newest(first + n)]

\* Mutation: a full page is taken for the last one.
GetPageOnce ==
  /\ pc = "listing"
  /\ collected' = PageOf(page)
  /\ complete' = TRUE /\ pc' = "listed"
  /\ UNCHANGED <<mode, clock, github, receipt, page, visible, result>>

\* _enumerate_runs: a short page is the last one.
GetPage ==
  /\ pc = "listing"
  /\ collected' = collected \o PageOf(page)
  /\ \/ /\ Len(PageOf(page)) < PageSize
        /\ complete' = TRUE /\ pc' = "listed" /\ UNCHANGED page
     \/ /\ Len(PageOf(page)) = PageSize /\ page = MaxPages
        /\ complete' = FALSE /\ pc' = "listed" /\ UNCHANGED page
     \/ /\ Len(PageOf(page)) = PageSize /\ page < MaxPages
        /\ page' = page + 1 /\ UNCHANGED <<complete, pc>>
  /\ UNCHANGED <<mode, clock, github, receipt, visible, result>>

\* The statuses on which the wait goes on until its deadline.
Continues == {"PENDING_VISIBILITY", "MATCHED_ACTIVE", "NO_MATCH"}
\* Mutation: the deadline is not looked at while nothing matches.
TakeObservationForever ==
  /\ pc = "listed"
  /\ result' = Observation
  /\ pc' = IF \/ Observation.status = "NO_MATCH"
              \/ Observation.status \in Continues /\ clock < deadline
             THEN "waiting" ELSE "returned"
  /\ page' = 1 /\ collected' = <<>> /\ complete' = FALSE
  /\ UNCHANGED <<mode, clock, github, receipt, visible>>

\* wait_for_dispatch: look at the observation, and return it or poll again.
TakeObservation ==
  /\ pc = "listed"
  /\ result' = Observation
  /\ pc' = IF Observation.status \in Continues /\ clock < deadline
             THEN "waiting" ELSE "returned"
  /\ page' = 1 /\ collected' = <<>> /\ complete' = FALSE
  /\ UNCHANGED <<mode, clock, github, receipt, visible>>

-----------------------------------------------------------------------------
(* GitHub and the clock, until the wait returns.                            *)

\* An earlier attempt of the same correlation id, dispatched at an earlier
\* instant than this request.
EarlierRun ==
  /\ pc = "start"
  /\ clock < MaxTime
  /\ clock' = clock + 1
  /\ \E head \in BOOLEAN : NewRun("earlier", "mine", head)
  /\ UNCHANGED <<mode, receipt, pc, poll, result>>

\* Somebody else's run, while the caller waits and on the commit it expects:
\* another correlation id, or a title that shows none.
OtherRun ==
  /\ pc \in {"waiting", "listing"}
  /\ \E title \in {"other", Absent} : NewRun("other", title, TRUE)
  /\ UNCHANGED <<mode, clock, receipt, pc, poll, result>>

ListRun(r) ==
  /\ pc # "returned"
  /\ r <= lastRun /\ ~runs[r].listed
  /\ runs' = [runs EXCEPT ![r].listed = TRUE]
  /\ UNCHANGED <<mode, clock, lastRun, receipt, pc, poll, result>>

\* Of the other runs nobody looks at the status.
EndRun(r) ==
  /\ pc # "returned"
  /\ r <= lastRun /\ runs[r].owner = "request" /\ ~runs[r].done
  /\ runs' = [runs EXCEPT ![r].done = TRUE]
  /\ UNCHANGED <<mode, clock, lastRun, receipt, pc, poll, result>>

Tick ==
  /\ pc # "returned"
  /\ clock < MaxTime
  /\ clock' = clock + 1
  /\ UNCHANGED <<mode, github, receipt, pc, poll, result>>

WaitNext ==
  \/ PrepareDispatch \/ Post \/ BeginObservation \/ GetPage \/ TakeObservation
  \/ EarlierRun \/ OtherRun \/ Tick
  \/ \E r \in RunId : ListRun(r) \/ EndRun(r)

WaitSpec == WaitInit /\ [][WaitNext]_waitVars

FairWait ==
  /\ WaitSpec
  /\ WF_waitVars(PrepareDispatch) /\ WF_waitVars(Post)
  /\ WF_waitVars(BeginObservation) /\ WF_waitVars(GetPage)
  /\ WF_waitVars(TakeObservation) /\ WF_waitVars(Tick)

-----------------------------------------------------------------------------
(* Properties.                                                              *)

\* What the latest observation says is still about the latest enumeration.
Observed == pc \in {"waiting", "returned"} /\ result.status # Absent

\* The run reported active or terminal is the run this request dispatched, on
\* the commit expected: never that of an earlier attempt with the same
\* correlation id, nor another request's on the same commit, whatever appears
\* in the listing while it is read.
MatchIsMine ==
  Observed /\ result.status \in {"MATCHED_ACTIVE", "MATCHED_TERMINAL"} =>
    runs[result.run].owner = "request" /\ runs[result.run].head

\* The request's run is never declared missing, nor waited for, when GitHub
\* listed it before the enumeration began - on whichever page it is, and
\* wherever new runs push it meanwhile.
VisibleIsFound ==
  Observed /\ result.status \in {"NO_MATCH", "PENDING_VISIBILITY"} => ~visible

\* A wait ends: each enumeration has at most MaxPages pages, and the deadline
\* comes.
WaitEnds == pc = "waiting" ~> pc = "returned"
=============================================================================
