---------------------------- MODULE GovernedWrite ----------------------------
(***************************************************************************)
(* The governed write to a foreign repository: one document, one branch,   *)
(* one draft pull request, one green required workflow, and no merge.      *)
(*                                                                         *)
(* Run r of the lane writes a text of its own: create the branch at the    *)
(* pinned base and the file on it, through RepositoryMutation; compare the *)
(* whole branch with the base; find or open the pull request; read it      *)
(* back; wait for the workflow at exactly that head; confirm.  It checks   *)
(* three times that main of the target is still the pinned base, and keeps *)
(* a journal, which the workflow preserves however the run ends.  All this *)
(* time the target belongs to others: they push, move main, close, merge   *)
(* or rename the pull request, delete the branch, and run workflows.       *)
(***************************************************************************)
EXTENDS RepositoryMutation

CONSTANTS
  Lane,         \* the client of the engine that is the lane
  TextOf,       \* [1..MaxRuns -> Texts]: the document of each run
  MaxRuns,      \* bound: runs of the lane, one after the other
  MaxCI,        \* bound: runs of the required workflow for one commit
  MaxTouches    \* bound: what others do to the pull request and to main

ASSUME LaneAssumption ==
  /\ Clients = {Lane} /\ Gated = {}
  /\ MaxRuns \in Nat /\ MaxCI \in Nat /\ MaxTouches \in Nat
  /\ TextOf \in [1..MaxRuns -> Texts]

VARIABLES
  main,     \* target: the commit of main
  pr,       \* target: the newest pull request from the branch
  ci,       \* target: the runs of the required workflow, by commit
  lane,     \* the run: its step, its number, the head it compared
  journal,  \* samuel-codeqa-write-result.json of the run
  effects,  \* history: what this run has changed in the target
  carrier,  \* history: the pull request as this run last read it back
  touches

target == <<main, pr, ci>>
laneVars == <<lane, journal, effects, carrier>>
vars == <<engineVars, target, laneVars, touches>>

LaneSteps ==
  {"idle", "base", "branch", "file", "base_again", "compare", "file_again",
   "list", "open", "readback", "ci", "confirm"}
Lanes == [step : LaneSteps, run : 0..MaxRuns, head : Nat]

PullRequest ==
  [state : {"none", "open", "closed", "merged"}, draft : BOOLEAN,
   run : 0..MaxRuns, head : Nat]

NoPullRequest == [state |-> "none", draft |-> FALSE, run |-> 0, head |-> Base]

\* phase, as the journal names it; plans: the receipts of the engine.
Journal ==
  [status : {"none", "IN_PROGRESS", "HARD_STOP", "CONFIRMED"},
   phase : {"none", "plan_validated", "request_attempted", "mutation_verified",
            "draft_pr_verified", "ci_verified", "complete"},
   plans : Seq({"PASS", "NO_MUTATION_NEEDED"}), pr : BOOLEAN, ci : BOOLEAN]

NoJournal ==
  [status |-> "none", phase |-> "none", plans |-> <<>>, pr |-> FALSE, ci |-> FALSE]

-----------------------------------------------------------------------------
(* The target.                                                              *)

\* An open pull request follows its branch, and closes when that is deleted.
PullRequestFollows ==
  pr' = IF pr.state = "open" /\ head' # head
        THEN IF head' = None THEN [pr EXCEPT !.state = "closed"] ELSE [pr EXCEPT !.head = head']
        ELSE pr

RunsFollow ==
  ci' = [c \in 1..Len(commits') |-> IF c \in DOMAIN ci THEN ci[c] ELSE <<>>]

TargetFollows == PullRequestFollows /\ RunsFollow

Touch ==
  /\ touches < MaxTouches /\ touches' = touches + 1
  /\ \/ \* main moves
        /\ main' = main + 1 /\ UNCHANGED pr
     \/ \* the pull request is closed, merged, made ready, or edited
        /\ pr.state = "open"
        /\ \/ pr' = [pr EXCEPT !.state = "closed"] /\ UNCHANGED main
           \/ pr' = [pr EXCEPT !.state = "merged"] /\ main' = main + 1
           \/ pr' = [pr EXCEPT !.draft = FALSE] /\ UNCHANGED main
           \/ pr' = [pr EXCEPT !.run = 0] /\ UNCHANGED main
  /\ UNCHANGED <<engineVars, ci, laneVars>>

CIMoves ==
  /\ \/ /\ pr.state = "open" /\ Len(ci[pr.head]) < MaxCI
        /\ ci' = [ci EXCEPT ![pr.head] = Append(@, "running")]
     \/ \E c \in DOMAIN ci : \E i \in DOMAIN ci[c], end \in {"success", "failure"} :
          /\ ci[c][i] = "running"
          /\ ci' = [ci EXCEPT ![c][i] = end]
  /\ UNCHANGED <<engineVars, main, pr, laneVars, touches>>

-----------------------------------------------------------------------------
(* The run.                                                                 *)

To(step) == lane' = [lane EXCEPT !.step = step]

\* Mutation of KeptJournal: the receipt of the failure replaces it.
KeptJournalOverwritten == [NoJournal EXCEPT !.status = "HARD_STOP"]
\* main() keeps the journal when run() raises, under another status.
KeptJournal == [journal EXCEPT !.status = "HARD_STOP"]

Stop == To("idle") /\ journal' = KeptJournal

\* The live readback of the target, here and in the readiness workflow.
Attested == main = Base

\* Nothing is planned for a target that is not as the policy pins it.
Begin ==
  /\ lane.step = "idle" /\ lane.run < MaxRuns /\ Attested
  /\ lane' = [step |-> "base", run |-> lane.run + 1, head |-> 0]
  /\ journal' = NoJournal
  /\ effects' = {} /\ carrier' = NoPullRequest
  /\ UNCHANGED <<engineVars, target, touches>>

CheckBase(step, next, journal_) ==
  /\ lane.step = step
  /\ IF main = Base THEN To(next) /\ journal' = journal_ ELSE Stop
  /\ UNCHANGED <<engineVars, target, effects, carrier, touches>>

BaseBefore ==
  CheckBase("base", "branch", [journal EXCEPT !.status = "IN_PROGRESS", !.phase = "plan_validated"])
BaseBetween == CheckBase("base_again", "compare", journal)
BaseAfter ==
  CheckBase("confirm", "idle", [journal EXCEPT !.status = "CONFIRMED", !.phase = "complete"])

\* The manifests of the run: the branch at the pinned base, the document on it.
ManifestOf(step) ==
  IF step = "branch" THEN BranchManifest ELSE FileManifest(None, TextOf[lane.run])

Execute ==
  /\ lane.step \in {"branch", "file"} /\ pc[Lane] = "idle" /\ receipt[Lane] = None
  /\ Call(Lane, ManifestOf(lane.step)) /\ Watch
  /\ UNCHANGED <<target, laneVars, touches>>

\* Every request of the engine is written to the journal before it is made.
Request ==
  /\ EngineStep(Lane) /\ Watch /\ TargetFollows
  /\ journal' = [journal EXCEPT !.phase = "request_attempted"]
  /\ effects' = IF wrote'[Lane] THEN effects \cup {lane.step} ELSE effects
  /\ UNCHANGED <<main, lane, carrier, touches>>

Succeeded(result) == result \in {"PASS", "NO_MUTATION_NEEDED"}

\* The receipt is taken over, and the engine is free for the next manifest.
Record ==
  /\ lane.step \in {"branch", "file"} /\ pc[Lane] = "idle" /\ receipt[Lane] # None
  /\ IF Succeeded(receipt[Lane])
     THEN /\ To(IF lane.step = "branch" THEN "file" ELSE "base_again")
          /\ journal' = [journal EXCEPT !.plans = Append(@, receipt[Lane]),
                                        !.phase = "mutation_verified"]
     ELSE Stop
  /\ receipt' = [receipt EXCEPT ![Lane] = None]
  /\ UNCHANGED <<github, pc, job, seen, attempts, wrote, held, deletion, pushes>>
  /\ UNCHANGED <<target, effects, carrier, touches>>

\* One added file, and nothing else, between the base and the commit c.
OnlyDocument(c) ==
  /\ commits[Base].text = None /\ commits[c].text # None
  /\ ~commits[c].others

Advance(step, condition, next) ==
  /\ lane.step = step
  /\ IF condition THEN To(next) /\ UNCHANGED journal ELSE Stop
  /\ UNCHANGED <<engineVars, target, effects, carrier, touches>>

\* The head is read once, and the comparison is of two commits.
Compare ==
  /\ lane.step = "compare"
  /\ IF head # None /\ OnlyDocument(head)
     THEN lane' = [lane EXCEPT !.step = "file_again", !.head = head] /\ UNCHANGED journal
     ELSE Stop
  /\ UNCHANGED <<engineVars, target, effects, carrier, touches>>

FileAgain == Advance("file_again", Text # None, "list")

List ==
  /\ lane.step = "list"
  /\ To(IF pr.state = "open" THEN "readback" ELSE "open")
  /\ UNCHANGED <<engineVars, target, journal, effects, carrier, touches>>

\* The answer may be lost here as well; the journal does not name this request.
Open ==
  /\ lane.step = "open"
  /\ IF head = None \/ pr.state = "open" THEN Stop /\ UNCHANGED <<pr, effects>>
     ELSE /\ pr' = [state |-> "open", draft |-> TRUE, run |-> lane.run, head |-> head]
          /\ effects' = effects \cup {"pr"}
          /\ (To("readback") /\ UNCHANGED journal) \/ Stop
  /\ UNCHANGED <<engineVars, main, ci, carrier, touches>>

\* Mutation of ExactPullRequest: title and body are not compared.
AnyRunsPullRequest == pr.head = lane.head /\ pr.draft /\ pr.state # "merged"

\* The pull request as it was made by this run, at the head that was compared.
ExactPullRequest ==
  pr.head = lane.head /\ pr.run = lane.run /\ pr.draft /\ pr.state # "merged"

Readback ==
  /\ lane.step = "readback"
  /\ IF ExactPullRequest
     THEN /\ To("ci")
          /\ journal' = [journal EXCEPT !.pr = TRUE, !.phase = "draft_pr_verified"]
     ELSE Stop
  /\ carrier' = pr
  /\ UNCHANGED <<engineVars, target, effects, touches>>

\* Zero runs, or one that goes on: it is asked again, thirty times at most.
RequiredCI ==
  /\ lane.step = "ci"
  /\ LET runs == ci[lane.head] IN
     \/ Len(runs) > 1 /\ Stop
     \/ Len(runs) = 1 /\ runs[1] = "failure" /\ Stop
     \/ /\ Len(runs) = 1 /\ runs[1] = "success"
        /\ To("confirm")
        /\ journal' = [journal EXCEPT !.ci = TRUE, !.phase = "ci_verified"]
  /\ UNCHANGED <<engineVars, target, effects, carrier, touches>>

\* run() raises, or the job is cancelled and main() with it.
End ==
  /\ lane.step # "idle" /\ pc[Lane] = "idle" /\ receipt[Lane] = None
  /\ Stop \/ (To("idle") /\ UNCHANGED journal)
  /\ UNCHANGED <<engineVars, target, effects, carrier, touches>>

LaneStep ==
  \/ Begin \/ BaseBefore \/ Execute \/ Request \/ Record \/ BaseBetween
  \/ Compare \/ FileAgain \/ List \/ Open \/ Readback \/ RequiredCI \/ BaseAfter
  \/ End

-----------------------------------------------------------------------------
\* The owner of the target deletes the branch.
DeleteBranch ==
  /\ head # None /\ deletions < MaxDeletions
  /\ head' = None /\ deletions' = deletions + 1
  /\ UNCHANGED <<commits, validation, client, deleter, pushes>>

Elsewhere ==
  /\ Push \/ DeleteBranch
  /\ Watch /\ TargetFollows
  /\ UNCHANGED <<main, laneVars, touches>>

Init ==
  /\ EngineInit
  /\ main = Base
  /\ pr = NoPullRequest /\ carrier = NoPullRequest
  /\ ci = <<<<>>>>
  /\ lane = [step |-> "idle", run |-> 0, head |-> 0]
  /\ journal = NoJournal
  /\ effects = {}
  /\ touches = 0

Next == LaneStep \/ Elsewhere \/ Touch \/ CIMoves

Spec == Init /\ [][Next]_vars

-----------------------------------------------------------------------------
(* Properties.                                                              *)

TypeOK ==
  /\ EngineTypeOK
  /\ main \in Nat
  /\ pr \in PullRequest /\ carrier \in PullRequest
  /\ ci \in Seq(Seq({"running", "success", "failure"})) /\ Len(ci) = Len(commits)
  /\ lane \in Lanes
  /\ journal \in Journal
  /\ effects \subseteq {"branch", "file", "pr"}
  /\ touches \in Nat

\* A confirmation is about one commit: its whole difference from the pinned base
\* is the one document, its required workflow passed, and when the pull request was
\* read back it was this very run's, a draft, unmerged, and at that commit, whatever
\* was pushed, edited, closed, deleted, or opened by an earlier run in between
\* (codeqa_governed_write.py:96-174).
ConfirmedProof ==
  LET OneAddedFile(c) ==
        commits[Base].text = None /\ commits[c].text # None /\ ~commits[c].others
      Carries(p, c) ==
        p.head = c /\ p.run = lane.run /\ p.draft /\ p.state # "merged"
  IN
  journal.status = "CONFIRMED" =>
    /\ OneAddedFile(lane.head) /\ Carries(carrier, lane.head)
    /\ \E i \in DOMAIN ci[lane.head] : ci[lane.head][i] = "success"
    /\ \A i \in 1..2 : i \in DOMAIN journal.plans

\* What the run has changed in the target can be told from its journal at every
\* moment, also after a failure or a kill: it has the receipt, or it stands at
\* the request that made the change (codeqa_governed_write.py:213-231, 256-272).
Accounted ==
  LET n == Len(journal.plans)
      standing == IF n = 0 THEN "branch" ELSE IF n = 1 THEN "file" ELSE "pr"
  IN
  \A e \in effects :
    \/ e = "branch" /\ n > 0 /\ journal.plans[1] = "PASS"
    \/ e = "file" /\ n > 1 /\ journal.plans[2] = "PASS"
    \/ e = "pr" /\ journal.pr
    \/ /\ e = standing
       /\ journal.phase = IF e = "pr" THEN "mutation_verified" ELSE "request_attempted"
=============================================================================
