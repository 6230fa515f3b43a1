------------------------- MODULE RepositoryMutation -------------------------
(***************************************************************************)
(* The repository mutation engine at work on one branch and one file of    *)
(* it, beside other writers.                                               *)
(*                                                                         *)
(* A client carries one manifest out in separate requests: two listings    *)
(* for the validation gate, the read that decides, the conditional write,  *)
(* and the read that verifies, or, when a creation is refused, the read    *)
(* that finds out why.  Between any two of them somebody may push to the   *)
(* branch or delete it, another client may write, and the job may die; the *)
(* answer to a write may be lost after its effect.  A client may repeat a  *)
(* manifest whatever became of it before.                                  *)
(*                                                                         *)
(* A commit is its index in `commits'.  A text is also its blob sha.  The  *)
(* guarded branch deletion of branch_delete.py is here as well: it has no  *)
(* precondition GitHub checks.                                             *)
(***************************************************************************)
EXTENDS Integers, Sequences

CONSTANTS
  Clients,      \* users of the engine
  Gated,        \* those whose policy turns the validation gate on
  Allowed,      \* the kinds of manifest the policy allows
  Texts,        \* contents of the file
  None,         \* no file, no branch, no receipt
  MaxAttempts,  \* bound: executions of a client
  MaxPushes,    \* bound: pushes by somebody else
  MaxDeletions  \* bound: deletions of the branch

ASSUME ConstantsAssumption ==
  /\ Gated \subseteq Clients
  /\ Allowed \subseteq {"branch create", "file create", "file update", "file delete"}
  /\ None \notin Texts /\ None \notin Nat /\ None \notin {"PASS", "NO_MUTATION_NEEDED", "HARD_STOP"}
  /\ MaxAttempts \in Nat /\ MaxPushes \in Nat /\ MaxDeletions \in Nat

VARIABLES
  commits,     \* GitHub: every commit; the first is the base of main
  head,        \* GitHub: the commit of the branch, or None
  validation,  \* GitHub: the CI run the gate looks for
  pc,          \* client: its next request
  job,         \* client: its manifest
  seen,        \* client: what it read and writes over, None when it creates
  receipt,     \* client: the result of its last execution
  attempts,    \* executions begun
  wrote,       \* history: whether this execution changed the branch
  held,        \* history: whether the desired state held at a moment of it
  deleter,     \* a branch deletion: its step, the sha it expects, its result
  pushes, deletions

github == <<commits, head, validation>>
client == <<pc, job, seen, receipt, attempts, wrote>>
deletion == <<deleter, deletions>>
engineVars == <<github, client, held, deletion, pushes>>

-----------------------------------------------------------------------------
(* Records.                                                                 *)

Base == 1
Commits == 1..Len(commits)

\* others: whether it differs from the base in any other file.
Commit == [text : Texts \cup {None}, others : BOOLEAN]

\* A manifest expects the branch or the file to be in one state, absent for a
\* creation, and desires another, absent for a deletion.
FileManifest(from, to) == [resource |-> "file", expected |-> from, desired |-> to]
BranchManifest == [resource |-> "branch", expected |-> None, desired |-> Base]
FileManifests ==
  {FileManifest(f, t) : f \in Texts \cup {None}, t \in Texts \cup {None}}
Manifests == {BranchManifest} \cup {m \in FileManifests : m.expected # None \/ m.desired # None}

\* The kinds of manifest there are.
Kinds == {"branch create", "file create", "file update", "file delete"}
KindOf(m) ==
  CASE m.resource = "branch" -> "branch create"
    [] m.resource = "file" /\ m.expected = None -> "file create"
    [] m.resource = "file" /\ m.desired = None -> "file delete"
    [] OTHER -> "file update"

Steps == {"idle", "gate", "gate_queued", "read", "write", "conflict", "verify"}
Receipts == {None, "PASS", "NO_MUTATION_NEEDED", "HARD_STOP"}
Deletion ==
  [step : {"idle", "read", "delete", "verify"}, expected : Nat,
   result : Receipts]

-----------------------------------------------------------------------------
(* GitHub.                                                                  *)

\* The contents API answers 404 for a file of a branch that is not there.
Text == IF head = None THEN None ELSE commits[head].text

Current(m) == IF m.resource = "file" THEN Text ELSE head

IsCreation(m) == m.expected = None

\* A write with the sha that was read, or of something that must not exist.
Accepts(m, sha) ==
  /\ Current(m) = sha
  /\ m.resource = "file" => head # None

\* A refusal is 409 or 422, unless the branch is gone, which is 404.
Conflicts(m, sha) == Current(m) # sha /\ (m.resource = "file" => head # None)

Apply(m) ==
  IF m.resource = "branch"
  THEN head' = m.desired /\ UNCHANGED commits
  ELSE /\ commits' = Append(commits, [commits[head] EXCEPT !.text = m.desired])
       /\ head' = Len(commits) + 1

\* Somebody else pushes to the branch: the file, or another one.
Push ==
  /\ head # None /\ pushes < MaxPushes
  /\ \E t \in Texts \cup {None}, o \in BOOLEAN :
       LET c == [text |-> t, others |-> o] IN
       /\ c # commits[head]
       /\ commits' = Append(commits, c)
  /\ head' = Len(commits) + 1
  /\ pushes' = pushes + 1
  /\ UNCHANGED <<validation, client, deletion>>

ValidationMoves ==
  /\ validation' = CASE validation = "none" -> "queued"
                     [] validation = "queued" -> "in_progress"
                     [] validation = "in_progress" -> "none"
  /\ UNCHANGED <<commits, head, client, deletion, pushes>>

-----------------------------------------------------------------------------
(* Engine.                                                                  *)

\* Execution of m by c begins, if the policy allows it.
Call(c, m) ==
  /\ job' = [job EXCEPT ![c] = m]
  /\ IF KindOf(m) \in Allowed
     THEN /\ pc' = [pc EXCEPT ![c] = IF c \in Gated THEN "gate" ELSE "read"]
          /\ receipt' = [receipt EXCEPT ![c] = None]
     ELSE /\ receipt' = [receipt EXCEPT ![c] = "HARD_STOP"]
          /\ UNCHANGED pc
  /\ seen' = [seen EXCEPT ![c] = None]
  /\ wrote' = [wrote EXCEPT ![c] = FALSE]
  /\ attempts' = [attempts EXCEPT ![c] = @ + 1]
  /\ UNCHANGED <<github, deletion, pushes>>

Start(c) ==
  /\ pc[c] = "idle" /\ attempts[c] < MaxAttempts
  /\ \E m \in Manifests : Call(c, m)

Goto(c, step) ==
  /\ pc' = [pc EXCEPT ![c] = step]
  /\ UNCHANGED <<job, receipt, attempts>>

Finish(c, result) ==
  /\ pc' = [pc EXCEPT ![c] = "idle"]
  /\ receipt' = [receipt EXCEPT ![c] = result]
  /\ UNCHANGED <<job, attempts>>

\* The runs in progress are listed first, then the queued ones.
Gate(c) ==
  /\ \/ /\ pc[c] = "gate"
        /\ IF validation = "in_progress" THEN Finish(c, "HARD_STOP") ELSE Goto(c, "gate_queued")
     \/ /\ pc[c] = "gate_queued"
        /\ IF validation = "queued" THEN Finish(c, "HARD_STOP") ELSE Goto(c, "read")
  /\ UNCHANGED <<github, seen, wrote, deletion, pushes>>

\* Mutation of MayWrite: without the comparison with the sha the manifest expects.
MayWriteStale(m, cur) == IsCreation(m) => cur = None
\* Whether a client that finds the state `cur' goes on to write.
MayWrite(m, cur) == cur = m.expected

\* The write carries the sha that was just read, so that it is the read that has
\* to compare it with the manifest's.
Read(c) ==
  /\ pc[c] = "read"
  /\ LET m == job[c] IN
     IF Current(m) = m.desired THEN Finish(c, "NO_MUTATION_NEEDED")
     ELSE IF MayWrite(m, Current(m)) THEN Goto(c, "write")
     ELSE Finish(c, "HARD_STOP")
  /\ seen' = [seen EXCEPT ![c] = Current(job[c])]
  /\ UNCHANGED <<github, wrote, deletion, pushes>>

\* Mutation of AfterConflict: the refusal is read as if the write had been made.
AfterConflictVerify == "verify"
\* What a client does after a refused creation.
AfterConflict == "conflict"

Write(c) ==
  /\ pc[c] = "write"
  /\ LET m == job[c] IN
     \/ /\ Accepts(m, seen[c]) /\ Apply(m)
        /\ wrote' = [wrote EXCEPT ![c] = TRUE]
        /\ Goto(c, "verify")
     \/ /\ Conflicts(m, seen[c]) /\ UNCHANGED <<commits, head, wrote>>
        /\ IF IsCreation(m) THEN Goto(c, AfterConflict) ELSE Finish(c, "HARD_STOP")
     \/ /\ ~Accepts(m, seen[c]) /\ ~Conflicts(m, seen[c]) /\ UNCHANGED <<commits, head, wrote>>
        /\ Finish(c, "HARD_STOP")
  /\ UNCHANGED <<validation, seen, deletion, pushes>>

\* The effect without the answer: a transport failure, or a job that dies.
WriteUnanswered(c) ==
  /\ pc[c] = "write" /\ Accepts(job[c], seen[c]) /\ Apply(job[c])
  /\ wrote' = [wrote EXCEPT ![c] = TRUE]
  /\ Finish(c, "HARD_STOP")
  /\ UNCHANGED <<validation, seen, deletion, pushes>>

\* Another write to the branch has made GitHub refuse, whatever it was.
WriteRaced(c) ==
  /\ pc[c] = "write" /\ IsCreation(job[c]) /\ job[c].resource = "file" /\ head # None
  /\ Goto(c, AfterConflict)
  /\ UNCHANGED <<github, seen, wrote, deletion, pushes>>

Conflict(c) ==
  /\ pc[c] = "conflict"
  /\ Finish(c, IF Current(job[c]) = job[c].desired THEN "NO_MUTATION_NEEDED" ELSE "HARD_STOP")
  /\ UNCHANGED <<github, seen, wrote, deletion, pushes>>

Verify(c) ==
  /\ pc[c] = "verify"
  /\ Finish(c, IF Current(job[c]) = job[c].desired THEN "PASS" ELSE "HARD_STOP")
  /\ UNCHANGED <<github, seen, wrote, deletion, pushes>>

\* A request that fails without effect, or the end of the job.
Fail(c) ==
  /\ pc[c] # "idle"
  /\ Finish(c, "HARD_STOP")
  /\ UNCHANGED <<github, seen, wrote, deletion, pushes>>

EngineStep(c) ==
  \/ Gate(c) \/ Read(c) \/ Write(c) \/ WriteUnanswered(c) \/ WriteRaced(c)
  \/ Conflict(c) \/ Verify(c) \/ Fail(c)

-----------------------------------------------------------------------------
(* delete_branch.                                                           *)

DeleterEnds(result) == deleter' = [deleter EXCEPT !.step = "idle", !.result = result]

DeleteStart ==
  /\ deleter.step = "idle" /\ deletions < MaxDeletions
  /\ \E c \in Commits :
       deleter' = [step |-> "read", expected |-> c, result |-> None]
  /\ deletions' = deletions + 1
  /\ UNCHANGED <<github, client, pushes>>

DeleteRead ==
  /\ deleter.step = "read"
  /\ IF head = None THEN DeleterEnds("NO_MUTATION_NEEDED")
     ELSE IF head # deleter.expected THEN DeleterEnds("HARD_STOP")
     ELSE deleter' = [deleter EXCEPT !.step = "delete"]
  /\ UNCHANGED <<github, client, deletions, pushes>>

\* The request names the branch and no sha.
DeleteRef ==
  /\ deleter.step = "delete"
  /\ IF head = None THEN DeleterEnds("HARD_STOP")
     ELSE deleter' = [deleter EXCEPT !.step = "verify"]
  /\ head' = None
  /\ UNCHANGED <<commits, validation, client, deletions, pushes>>

DeleteVerify ==
  /\ deleter.step = "verify"
  /\ DeleterEnds(IF head = None THEN "PASS" ELSE "HARD_STOP")
  /\ UNCHANGED <<github, client, deletions, pushes>>

DeleteStep == DeleteStart \/ DeleteRead \/ DeleteRef \/ DeleteVerify

-----------------------------------------------------------------------------
EngineInit ==
  /\ \E t \in Texts \cup {None} : commits = <<[text |-> t, others |-> FALSE]>>
  /\ head \in {None, Base}
  /\ validation = "none"
  /\ pc = [c \in Clients |-> "idle"]
  /\ job = [c \in Clients |-> BranchManifest]
  /\ seen = [c \in Clients |-> None]
  /\ receipt = [c \in Clients |-> None]
  /\ attempts = [c \in Clients |-> 0]
  /\ wrote = [c \in Clients |-> FALSE]
  /\ held = [c \in Clients |-> FALSE]
  /\ deleter = [step |-> "idle", expected |-> Base, result |-> None]
  /\ pushes = 0 /\ deletions = 0

Holds(m, commits_, head_) ==
  m.desired = IF m.resource = "branch" THEN head_
              ELSE IF head_ = None THEN None ELSE commits_[head_].text

\* The desired state has held since the execution began, now included.
Watch ==
  held' = [c \in Clients |->
             \/ (attempts'[c] = attempts[c] /\ held[c])
             \/ (pc[c] # "idle" \/ pc'[c] # "idle") /\ Holds(job'[c], commits', head')]

EngineNext ==
  /\ \/ \E c \in Clients : Start(c) \/ EngineStep(c)
     \/ Push \/ ValidationMoves \/ DeleteStep
  /\ Watch

EngineSpec == EngineInit /\ [][EngineNext]_engineVars

-----------------------------------------------------------------------------
(* Properties.                                                              *)

EngineTypeOK ==
  /\ commits \in Seq(Commit) /\ Len(commits) > 0
  /\ head \in Commits \cup {None}
  /\ validation \in {"none", "queued", "in_progress"}
  /\ pc \in [Clients -> Steps]
  /\ job \in [Clients -> Manifests]
  /\ seen \in [Clients -> Texts \cup {None} \cup Commits]
  /\ \A c \in Clients :
       seen[c] \in {None} \cup (IF job[c].resource = "file" THEN Texts ELSE Commits)
  /\ receipt \in [Clients -> Receipts]
  /\ attempts \in [Clients -> Nat]
  /\ wrote \in [Clients -> BOOLEAN] /\ held \in [Clients -> BOOLEAN]
  /\ deleter \in Deletion
  /\ pushes \in Nat /\ deletions \in Nat

\* A client changes the branch or the file only from the state its manifest
\* expects, whatever others did between its requests (mutation.py:397, the sha
\* that is read is compared with the manifest's and sent with the write).
NoLostUpdate ==
  [][\A c \in Clients :
       ~wrote[c] /\ wrote'[c] => Current(job[c]) = job[c].expected]_engineVars

\* A receipt tells what happened: PASS that this execution changed the branch,
\* NO_MUTATION_NEEDED that it did not, and either that the state the manifest
\* desires was there at some moment of the execution, however the requests of
\* others fell between its own (mutation.py:397-441).
ReceiptHonest ==
  \A c \in Clients :
    pc[c] = "idle" /\ receipt[c] \in {"PASS", "NO_MUTATION_NEEDED"} =>
      /\ held[c]
      /\ wrote[c] = (receipt[c] = "PASS")

\* delete_branch removes the branch only at the commit it was told to remove
\* (branch_delete.py:1, "Exact-SHA guarded GitHub branch deletion").
DeleteGuarded ==
  [][deleter.step = "delete" /\ deleter'.step = "verify" =>
       head = deleter.expected]_engineVars
=============================================================================
