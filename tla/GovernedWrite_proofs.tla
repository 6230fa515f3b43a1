------------------------ MODULE GovernedWrite_proofs ------------------------
(***************************************************************************)
(* Proofs about RepositoryMutation, and about GovernedWrite, which uses it *)
(* for its writes.                                                         *)
(*                                                                         *)
(* The engine, for any clients, texts and bounds: its types, that no write *)
(* replaces what its manifest did not expect, and that every receipt is    *)
(* true.  What makes the properties inductive is Program: a client that is *)
(* about to write carries in `seen' exactly what its manifest expects, and *)
(* it knows from its place in the program whether it has changed the       *)
(* branch.  Nothing here uses what is assumed of the lane.                 *)
(*                                                                         *)
(* The lane, for any documents and bounds: that a confirmation is about    *)
(* one commit, and that the journal accounts for every effect.  Its place  *)
(* in the program tells what the journal has (JournalOK), what the engine  *)
(* does for it (EngineOK), what is known of the commit it compared         *)
(* (HeadOK), and what pull request it read back (CarrierOK).               *)
(***************************************************************************)
EXTENDS GovernedWrite, TLAPS, SequenceTheorems

BeforeWrite == {"gate", "gate_queued", "read", "write", "conflict"}

Program ==
  \A c \in Clients :
    /\ pc[c] = "write" => seen[c] = job[c].expected
    /\ pc[c] \in BeforeWrite => ~wrote[c]
    /\ pc[c] = "verify" => wrote[c]

IInv == EngineTypeOK /\ Program /\ ReceiptHonest

\* A client that does nothing is called with some manifest.
Called(c) == pc[c] = "idle" /\ \E m \in Manifests : Call(c, m)

\* A step of the engine or of its surroundings, without the history.
Step ==
  \/ \E c \in Clients : Called(c) \/ EngineStep(c)
  \/ Push \/ ValidationMoves \/ DeleteStep

-----------------------------------------------------------------------------
\* The initial state satisfies the invariant.
LEMMA InitInv == EngineInit => IInv
<1> SUFFICES ASSUME EngineInit PROVE IInv
  OBVIOUS
<1> USE DEF EngineInit
<1>1. PICK t \in Texts \cup {None} : commits = <<[text |-> t, others |-> FALSE]>>
  OBVIOUS
<1>2. commits \in Seq(Commit) /\ Len(commits) = 1
  <2>1. [text |-> t, others |-> FALSE] \in Commit
    BY DEF Commit
  <2>2. ASSUME NEW r \in Commit PROVE <<r>> \in Seq(Commit) /\ Len(<<r>>) = 1
    OBVIOUS
  <2> QED
    BY <1>1, <2>1, <2>2
<1>3. Commits = {1}
  BY <1>2 DEF Commits
<1>3a. head \in Commits \cup {None}
  BY <1>3 DEF Base
<1>4. BranchManifest \in Manifests
  BY DEF Manifests
<1>5. deleter \in Deletion
  BY DEF Deletion, Base, Receipts
<1>6. EngineTypeOK
  BY <1>2, <1>3a, <1>4, <1>5 DEF EngineTypeOK, Steps, Receipts
<1>7. Program
  BY DEF Program, BeforeWrite
<1>8. ReceiptHonest
  BY ConstantsAssumption DEF ConstantsAssumption, ReceiptHonest
<1> QED
  BY <1>6, <1>7, <1>8 DEF IInv

-----------------------------------------------------------------------------
(* Types.                                                                   *)

\* Every manifest of a branch is the one there is.
LEMMA ManifestForm ==
  ASSUME NEW m \in Manifests
  PROVE  /\ m.resource \in {"file", "branch"}
         /\ m.resource = "branch" => m.expected = None /\ m.desired = Base
         /\ m.resource = "file" =>
              m.expected \in Texts \cup {None} /\ m.desired \in Texts \cup {None}
  BY DEF Manifests, BranchManifest, FileManifests, FileManifest

\* What a client reads for its manifest.
LEMMA CurrentType ==
  ASSUME EngineTypeOK, NEW m \in Manifests
  PROVE  /\ m.resource = "file" => Current(m) \in Texts \cup {None}
         /\ m.resource = "branch" => Current(m) \in Commits \cup {None}
<1>1. head # None => commits[head].text \in Texts \cup {None}
  <2> SUFFICES ASSUME head # None PROVE commits[head] \in Commit
    BY DEF Commit
  <2> QED
    BY DEF EngineTypeOK, Commits
<1> QED
  BY <1>1, ManifestForm DEF Current, Text, EngineTypeOK

\* A write that is accepted leaves a branch and its commits.
LEMMA ApplyType ==
  ASSUME EngineTypeOK, NEW m \in Manifests, NEW sha, Accepts(m, sha), Apply(m)
  PROVE  /\ commits' \in Seq(Commit) /\ Len(commits') > 0
         /\ head' \in Commits' \cup {None}
         /\ Commits \subseteq Commits'
<1>1. commits \in Seq(Commit) /\ Len(commits) \in Nat /\ Len(commits) > 0
  BY DEF EngineTypeOK
<1>2. CASE m.resource = "branch"
  BY <1>1, <1>2, ManifestForm DEF Apply, Base, Commits, EngineTypeOK
<1>3. CASE m.resource = "file"
  <2>1. head \in Commits /\ commits[head] \in Commit
    BY <1>1, <1>3 DEF Accepts, Commits, EngineTypeOK
  <2>2. [commits[head] EXCEPT !.text = m.desired] \in Commit
    BY <2>1, <1>3, ManifestForm DEF Commit
  <2>3. /\ commits' = Append(commits, [commits[head] EXCEPT !.text = m.desired])
        /\ head' = Len(commits) + 1
    BY <1>3 DEF Apply
  <2> QED
    BY <1>1, <2>2, <2>3 DEF Commits
<1> QED
  BY <1>2, <1>3, ManifestForm

\* The variables of the clients, their types.
ClientType ==
  /\ pc \in [Clients -> Steps]
  /\ job \in [Clients -> Manifests]
  /\ seen \in [Clients -> Texts \cup {None} \cup Commits]
  /\ \A c \in Clients :
       seen[c] \in {None} \cup (IF job[c].resource = "file" THEN Texts ELSE Commits)
  /\ receipt \in [Clients -> Receipts]
  /\ attempts \in [Clients -> Nat]
  /\ wrote \in [Clients -> BOOLEAN]

GitHubType ==
  /\ commits \in Seq(Commit) /\ Len(commits) > 0
  /\ head \in Commits \cup {None}
  /\ validation \in {"none", "queued", "in_progress"}

RestType == deleter \in Deletion /\ pushes \in Nat /\ deletions \in Nat

\* Where no client moves, more commits keep the types of the clients.
LEMMA ClientKeeps ==
  ASSUME ClientType, UNCHANGED client, UNCHANGED seen, Commits \subseteq Commits'
  PROVE  ClientType'
  BY DEF ClientType, client

\* A step of a client that writes nothing keeps the types.
LEMMA ReadingType ==
  ASSUME EngineTypeOK, NEW c \in Clients,
         \/ Gate(c) \/ Read(c) \/ WriteRaced(c) \/ Conflict(c) \/ Verify(c) \/ Fail(c)
  PROVE  GitHubType' /\ ClientType' /\ RestType'
<1> USE DEF EngineTypeOK, Steps, Receipts
<1>1. UNCHANGED github /\ UNCHANGED <<deletion, pushes>>
  BY DEF Gate, Read, WriteRaced, Conflict, Verify, Fail
<1>2. GitHubType' /\ RestType' /\ Commits' = Commits
  BY <1>1 DEF github, deletion, GitHubType, RestType, Commits
<1>3. CASE Read(c)
  <2>1. Current(job[c]) \in {None} \cup (IF job[c].resource = "file" THEN Texts ELSE Commits)
    BY CurrentType, ManifestForm
  <2> QED
    BY <1>2, <1>3, <2>1 DEF Read, Goto, Finish, ClientType
<1>4. CASE Gate(c) \/ WriteRaced(c) \/ Conflict(c) \/ Verify(c) \/ Fail(c)
  <2>1. UNCHANGED <<job, seen, attempts, wrote>>
    BY <1>4 DEF Gate, WriteRaced, Conflict, Verify, Fail, Goto, Finish
  <2>2. pc' \in [Clients -> Steps] /\ receipt' \in [Clients -> Receipts]
    BY <1>4 DEF Gate, WriteRaced, Conflict, Verify, Fail, Goto, Finish, AfterConflict
  <2> QED
    BY <1>2, <2>1, <2>2 DEF ClientType
<1> QED
  BY <1>3, <1>4

\* Every step keeps the types, but for the history.
LEMMA StepType ==
  ASSUME EngineTypeOK, Step PROVE GitHubType' /\ ClientType' /\ RestType'
<1>0. GitHubType /\ ClientType /\ RestType
  BY DEF EngineTypeOK, GitHubType, ClientType, RestType
<1>1. ASSUME NEW c \in Clients, Called(c) PROVE GitHubType' /\ ClientType' /\ RestType'
  <2>1. PICK m \in Manifests : Call(c, m)
    BY <1>1 DEF Called
  <2>2. GitHubType' /\ RestType' /\ Commits' = Commits
    BY <1>0, <2>1 DEF Call, github, deletion, GitHubType, RestType, Commits
  <2> QED
    BY <1>0, <2>1, <2>2 DEF Call, ClientType, Steps, Receipts
<1>2. ASSUME NEW c \in Clients, Write(c) PROVE GitHubType' /\ ClientType' /\ RestType'
  <2>1. UNCHANGED <<validation, seen, deletion, pushes, job, attempts>>
    BY <1>2 DEF Write, Goto, Finish
  <2>2. pc' \in [Clients -> Steps] /\ receipt' \in [Clients -> Receipts] /\ wrote' \in [Clients -> BOOLEAN]
    BY <1>0, <1>2 DEF Write, Goto, Finish, AfterConflict, ClientType, Steps, Receipts
  <2>3. /\ commits' \in Seq(Commit) /\ Len(commits') > 0
        /\ head' \in Commits' \cup {None} /\ Commits \subseteq Commits'
    <3>1. CASE Accepts(job[c], seen[c]) /\ Apply(job[c])
      BY <1>0, <3>1, ApplyType DEF ClientType
    <3>2. CASE UNCHANGED <<commits, head>>
      BY <1>0, <3>2 DEF GitHubType, Commits
    <3> QED
      BY <1>2, <3>1, <3>2 DEF Write
  <2> QED
    BY <1>0, <2>1, <2>2, <2>3 DEF ClientType, GitHubType, RestType, deletion
<1>3. ASSUME NEW c \in Clients, WriteUnanswered(c) PROVE GitHubType' /\ ClientType' /\ RestType'
  <2>1. UNCHANGED <<validation, seen, deletion, pushes, job, attempts>>
    BY <1>3 DEF WriteUnanswered, Finish
  <2>2. pc' \in [Clients -> Steps] /\ receipt' \in [Clients -> Receipts] /\ wrote' \in [Clients -> BOOLEAN]
    BY <1>0, <1>3 DEF WriteUnanswered, Finish, ClientType, Steps, Receipts
  <2>3. /\ commits' \in Seq(Commit) /\ Len(commits') > 0
        /\ head' \in Commits' \cup {None} /\ Commits \subseteq Commits'
    BY <1>0, <1>3, ApplyType DEF WriteUnanswered, ClientType
  <2> QED
    BY <1>0, <2>1, <2>2, <2>3 DEF ClientType, GitHubType, RestType, deletion
<1>4. ASSUME NEW c \in Clients, EngineStep(c) PROVE GitHubType' /\ ClientType' /\ RestType'
  BY <1>2, <1>3, <1>4, ReadingType DEF EngineStep
<1>5. CASE Push
  <2>1. PICK t \in Texts \cup {None}, o \in BOOLEAN :
          commits' = Append(commits, [text |-> t, others |-> o])
    BY <1>5 DEF Push
  <2>2. commits' \in Seq(Commit) /\ Len(commits') = Len(commits) + 1 /\ Len(commits) \in Nat
    BY <1>0, <2>1 DEF Commit, GitHubType
  <2>3. head' \in Commits' /\ Commits \subseteq Commits'
    BY <1>5, <2>2 DEF Push, Commits
  <2>4. ClientType'
    BY <1>0, <1>5, <2>3, ClientKeeps DEF Push, client
  <2>5. RestType'
    <3>1. pushes' = pushes + 1 /\ deleter' = deleter /\ deletions' = deletions
      BY <1>5 DEF Push, deletion
    <3> QED
      BY <1>0, <3>1 DEF RestType
  <2> QED
    BY <1>0, <1>5, <2>2, <2>3, <2>4, <2>5 DEF Push, GitHubType
<1>6. CASE ValidationMoves \/ DeleteStep
  <2>1. UNCHANGED <<commits, client, pushes>> /\ Commits' = Commits
    BY <1>6 DEF ValidationMoves, DeleteStep, DeleteStart, DeleteRead, DeleteRef, DeleteVerify, github, Commits
  <2>2. head' \in {head, None}
    BY <1>6 DEF ValidationMoves, DeleteStep, DeleteStart, DeleteRead, DeleteRef, DeleteVerify, github
  <2>3. validation' \in {"none", "queued", "in_progress"}
    BY <1>0, <1>6 DEF ValidationMoves, DeleteStep, DeleteStart, DeleteRead, DeleteRef, DeleteVerify, github, GitHubType
  <2>4. deleter' \in Deletion /\ deletions' \in Nat
    <3> USE DEF Deletion, Receipts
    <3>0. deleter \in Deletion /\ deletions \in Nat
      BY <1>0 DEF RestType
    <3>1. CASE ValidationMoves
      BY <3>0, <3>1 DEF ValidationMoves, deletion
    <3>2. CASE DeleteStart
      <4>1. PICK c \in Commits : deleter' = [step |-> "read", expected |-> c, result |-> None]
        BY <3>2 DEF DeleteStart
      <4>2. deletions' = deletions + 1
        BY <3>2 DEF DeleteStart
      <4>3. c \in Nat
        <5>1. Len(commits) \in Nat
          BY <1>0 DEF GitHubType
        <5> QED
          BY <5>1 DEF Commits
      <4> QED
        BY <3>0, <4>1, <4>2, <4>3
    <3>3. CASE DeleteRead
      BY <3>0, <3>3 DEF DeleteRead, DeleterEnds
    <3>4. CASE DeleteRef
      BY <3>0, <3>4 DEF DeleteRef, DeleterEnds
    <3>5. CASE DeleteVerify
      BY <3>0, <3>5 DEF DeleteVerify, DeleterEnds
    <3> QED
      BY <1>6, <3>1, <3>2, <3>3, <3>4, <3>5 DEF DeleteStep
  <2>5. ClientType'
    BY <1>0, <2>1, ClientKeeps DEF client
  <2> QED
    BY <1>0, <2>1, <2>2, <2>3, <2>4, <2>5 DEF GitHubType, RestType
<1> QED
  BY <1>1, <1>4, <1>5, <1>6 DEF Step

-----------------------------------------------------------------------------
(* What a client knows, and its receipts.                                   *)

\* A step of a client moves no other client.
LEMMA OneMoves ==
  ASSUME EngineTypeOK, NEW c \in Clients, Called(c) \/ EngineStep(c),
         NEW d \in Clients, d # c
  PROVE  /\ pc'[d] = pc[d] /\ job'[d] = job[d] /\ seen'[d] = seen[d]
         /\ receipt'[d] = receipt[d] /\ attempts'[d] = attempts[d] /\ wrote'[d] = wrote[d]
<1> USE DEF EngineTypeOK
<1>1. CASE Called(c)
  BY <1>1 DEF Called, Call
<1>2. CASE Gate(c) \/ Read(c)
  BY <1>2 DEF Gate, Read, Goto, Finish
<1>3. CASE Write(c)
  BY <1>3 DEF Write, Goto, Finish
<1>4. CASE WriteUnanswered(c) \/ WriteRaced(c) \/ Conflict(c) \/ Verify(c) \/ Fail(c)
  BY <1>4 DEF WriteUnanswered, WriteRaced, Conflict, Verify, Fail, Goto, Finish
<1> QED
  BY <1>1, <1>2, <1>3, <1>4 DEF EngineStep

\* Where no client moves, nothing of them changes.
LEMMA NoneMoves ==
  ASSUME Push \/ ValidationMoves \/ DeleteStep
  PROVE  UNCHANGED client /\ UNCHANGED seen
  BY DEF Push, ValidationMoves, DeleteStep, DeleteStart, DeleteRead, DeleteRef, DeleteVerify, client

ProgramOf(c) ==
  /\ pc[c] = "write" => seen[c] = job[c].expected
  /\ pc[c] \in BeforeWrite => ~wrote[c]
  /\ pc[c] = "verify" => wrote[c]

\* A client that moves keeps to its program.
LEMMA MoverProgram ==
  ASSUME EngineTypeOK, NEW c \in Clients, ProgramOf(c), Called(c) \/ EngineStep(c)
  PROVE  ProgramOf(c)'
<1> USE DEF EngineTypeOK, ProgramOf, BeforeWrite
<1>1. CASE Called(c)
  BY <1>1 DEF Called, Call
<1>2. CASE Gate(c)
  BY <1>2 DEF Gate, Goto, Finish
<1>3. CASE Read(c)
  BY <1>3 DEF Read, Goto, Finish, MayWrite
<1>4. CASE Write(c)
  BY <1>4 DEF Write, Goto, Finish, AfterConflict
<1>5. CASE WriteUnanswered(c) \/ WriteRaced(c)
  BY <1>5 DEF WriteUnanswered, WriteRaced, Goto, Finish, AfterConflict
<1>6. CASE Conflict(c) \/ Verify(c) \/ Fail(c)
  BY <1>6 DEF Conflict, Verify, Fail, Finish
<1> QED
  BY <1>1, <1>2, <1>3, <1>4, <1>5, <1>6 DEF EngineStep

\* Every step keeps the program.
LEMMA StepProgram ==
  ASSUME EngineTypeOK, Program, Step PROVE Program'
<1>1. Program <=> \A c \in Clients : ProgramOf(c)
  BY DEF Program, ProgramOf
<1>2. ASSUME NEW c \in Clients, Called(c) \/ EngineStep(c), NEW d \in Clients PROVE ProgramOf(d)'
  <2>1. CASE d = c
    BY <1>1, <1>2, <2>1, MoverProgram
  <2>2. CASE d # c
    BY <1>1, <1>2, <2>2, OneMoves DEF ProgramOf
  <2> QED
    BY <2>1, <2>2
<1>3. ASSUME Push \/ ValidationMoves \/ DeleteStep, NEW d \in Clients PROVE ProgramOf(d)'
  BY <1>1, <1>3, NoneMoves DEF ProgramOf, client
<1>4. \A d \in Clients : ProgramOf(d)'
  BY <1>2, <1>3 DEF Step
<1> QED
  BY <1>4 DEF Program, ProgramOf

Honest(c) ==
  pc[c] = "idle" /\ receipt[c] \in {"PASS", "NO_MUTATION_NEEDED"} =>
    held[c] /\ wrote[c] = (receipt[c] = "PASS")

\* The desired state, as a client reads it and as the history records it.
LEMMA HoldsIsCurrent ==
  ASSUME NEW m \in Manifests
  PROVE  Holds(m, commits, head) <=> Current(m) = m.desired
  BY ManifestForm DEF Holds, Current, Text

\* A client that ends with a success has found what it desires.
LEMMA MoverHonest ==
  ASSUME EngineTypeOK, NEW c \in Clients, ProgramOf(c), Called(c) \/ EngineStep(c), Watch
  PROVE  Honest(c)'
<1> USE DEF EngineTypeOK, ProgramOf, BeforeWrite
<1>0. /\ held' \in [Clients -> BOOLEAN]
      /\ pc[c] # "idle" /\ Holds(job'[c], commits', head') => held'[c]
  BY DEF Watch
<1>1. CASE Called(c)
  BY <1>1 DEF Called, Call, Honest
<1>2. CASE Gate(c)
  BY <1>2 DEF Gate, Goto, Finish, Honest
<1>3. CASE Read(c) \/ Conflict(c) \/ Verify(c)
  <2>1. commits' = commits /\ head' = head /\ job' = job /\ wrote' = wrote /\ pc[c] # "idle"
    BY <1>3 DEF Read, Conflict, Verify, Goto, Finish, github
  <2>2. Current(job[c]) = job[c].desired => held'[c]
    BY <1>0, <2>1, HoldsIsCurrent
  <2>3. CASE Read(c)
    BY <2>1, <2>2, <2>3 DEF Read, Goto, Finish, Honest
  <2>4. CASE Conflict(c)
    BY <2>1, <2>2, <2>4 DEF Conflict, Finish, Honest
  <2>5. CASE Verify(c)
    BY <2>1, <2>2, <2>5 DEF Verify, Finish, Honest
  <2> QED
    BY <1>3, <2>3, <2>4, <2>5
<1>4. CASE Write(c)
  BY <1>4 DEF Write, Goto, Finish, AfterConflict, Honest
<1>5. CASE WriteUnanswered(c) \/ WriteRaced(c) \/ Fail(c)
  BY <1>5 DEF WriteUnanswered, WriteRaced, Fail, Goto, Finish, AfterConflict, Honest
<1> QED
  BY <1>1, <1>2, <1>3, <1>4, <1>5 DEF EngineStep

\* Every step keeps the receipts true.
LEMMA StepHonest ==
  ASSUME EngineTypeOK, Program, ReceiptHonest, Step, Watch PROVE ReceiptHonest'
<1>1. \A c \in Clients : ProgramOf(c) /\ Honest(c)
  BY DEF Program, ProgramOf, ReceiptHonest, Honest
<1>2. \A d \in Clients : attempts'[d] = attempts[d] /\ held[d] => held'[d]
  BY DEF Watch, EngineTypeOK
<1>3. ASSUME NEW c \in Clients, Called(c) \/ EngineStep(c), NEW d \in Clients PROVE Honest(d)'
  <2>1. CASE d = c
    BY <1>1, <1>3, <2>1, MoverHonest
  <2>2. CASE d # c
    BY <1>1, <1>2, <1>3, <2>2, OneMoves DEF Honest
  <2> QED
    BY <2>1, <2>2
<1>4. ASSUME Push \/ ValidationMoves \/ DeleteStep, NEW d \in Clients PROVE Honest(d)'
  BY <1>1, <1>2, <1>4, NoneMoves DEF Honest, client
<1>5. \A d \in Clients : Honest(d)'
  BY <1>3, <1>4 DEF Step
<1> QED
  BY <1>5 DEF ReceiptHonest, Honest

-----------------------------------------------------------------------------
(* Theorems.                                                                *)

\* Every step keeps the invariant.
LEMMA StepInv == ASSUME IInv, Step, Watch PROVE IInv'
<1>1. GitHubType' /\ ClientType' /\ RestType'
  BY StepType DEF IInv
<1>2. held' \in [Clients -> BOOLEAN]
  BY DEF Watch
<1>3. EngineTypeOK'
  BY <1>1, <1>2 DEF EngineTypeOK, GitHubType, ClientType, RestType
<1> QED
  BY <1>3, StepProgram, StepHonest DEF IInv

\* Every step of the specification, and every stuttering step, keeps the invariant.
LEMMA NextInv == IInv /\ [EngineNext]_engineVars => IInv'
<1> SUFFICES ASSUME IInv, [EngineNext]_engineVars PROVE IInv'
  OBVIOUS
<1>1. CASE EngineNext
  BY <1>1, StepInv DEF EngineNext, Step, Start, Called
<1>2. CASE UNCHANGED engineVars
  BY <1>2 DEF IInv, EngineTypeOK, Program, ReceiptHonest, engineVars, github, client, deletion, Commits
<1> QED
  BY <1>1, <1>2

\* The variables of the engine have their types, for any clients, any texts and
\* any number of executions, pushes and deletions.
THEOREM TypeCorrect == EngineSpec => []EngineTypeOK
<1>1. IInv => EngineTypeOK
  BY DEF IInv
<1> QED
  BY InitInv, NextInv, <1>1, PTL DEF EngineSpec

\* Every receipt is true: it names a success only if the desired state was there
\* during the execution, and PASS only if this execution made the change.
THEOREM ReceiptsAreTrue == EngineSpec => []ReceiptHonest
<1>1. IInv => ReceiptHonest
  BY DEF IInv
<1> QED
  BY InitInv, NextInv, <1>1, PTL DEF EngineSpec

\* A client changes the branch or its file only from the state its manifest
\* expects, however many others write between its requests.
THEOREM NothingIsLost == EngineSpec => NoLostUpdate
<1>1. ASSUME IInv, EngineNext, NEW c \in Clients, ~wrote[c], wrote'[c]
      PROVE  Current(job[c]) = job[c].expected
  <2> USE <1>1 DEF IInv, EngineTypeOK
  <2>1. PICK d \in Clients : Called(d) \/ EngineStep(d)
    BY NoneMoves DEF EngineNext, client, Start, Called
  <2>2. d = c
    BY <2>1, OneMoves
  <2>3. Write(c) \/ WriteUnanswered(c)
    BY <2>1, <2>2 DEF EngineStep, Called, Call, Gate, Read, WriteRaced, Conflict, Verify, Fail, Goto, Finish
  <2>4. pc[c] = "write" /\ Accepts(job[c], seen[c])
    BY <2>3 DEF Write, WriteUnanswered
  <2> QED
    BY <2>4 DEF Accepts, Program
<1>2. IInv /\ [EngineNext]_engineVars =>
        [\A c \in Clients :
           ~wrote[c] /\ wrote'[c] => Current(job[c]) = job[c].expected]_engineVars
  BY <1>1
<1> QED
  BY InitInv, NextInv, <1>2, PTL DEF EngineSpec, NoLostUpdate

-----------------------------------------------------------------------------
(* The lane.                                                                *)

\* How many receipts the journal has when a run is at a step.
PlansAt(step) == IF step \in {"base", "branch"} THEN 0 ELSE IF step = "file" THEN 1 ELSE 2

AfterCompare == {"file_again", "list", "open", "readback", "ci", "confirm"}

\* Where a run is tells what its journal has, and what it may have changed.
JournalOK ==
  /\ lane.step # "idle" =>
       /\ Len(journal.plans) = PlansAt(lane.step) /\ journal.status # "CONFIRMED"
       /\ lane.run \in 1..MaxRuns
  /\ journal.status = "CONFIRMED" => Len(journal.plans) = 2
  /\ lane.step = "base" => effects = {}
  /\ lane.step = "branch" => effects \subseteq {"branch"}
  /\ lane.step \in {"file", "base_again", "compare", "file_again", "list", "open"} =>
       effects \subseteq {"branch", "file"}
  /\ lane.step \in {"base_again", "compare", "file_again", "list", "open", "readback"} =>
       journal.phase = "mutation_verified"
  /\ lane.step \in {"ci", "confirm"} => journal.pr

\* The engine works for the lane in its two writing steps only, and what it has
\* changed there is still its own to report.
EngineOK ==
  /\ pc[Lane] # "idle" \/ receipt[Lane] # None => lane.step \in {"branch", "file"}
  /\ lane.step \in {"branch", "file"} /\ lane.step \in effects =>
       /\ wrote[Lane] /\ journal.phase = "request_attempted"
       /\ pc[Lane] # "idle" \/ receipt[Lane] # None

\* What was compared, and then tested, is a commit.
HeadOK ==
  /\ pr.head \in Commits
  /\ lane.step \in AfterCompare \/ journal.status = "CONFIRMED" =>
       lane.head \in Commits /\ OnlyDocument(lane.head)
  /\ lane.step = "confirm" \/ journal.status = "CONFIRMED" =>
       \E i \in DOMAIN ci[lane.head] : ci[lane.head][i] = "success"

\* The pull request that was read back is the one that was to be.
Carried ==
  /\ carrier.head = lane.head /\ carrier.run = lane.run
  /\ carrier.draft /\ carrier.state # "merged"

CarrierOK == lane.step \in {"ci", "confirm"} \/ journal.status = "CONFIRMED" => Carried

LaneInv ==
  /\ TypeOK /\ Program /\ ReceiptHonest
  /\ JournalOK /\ EngineOK /\ HeadOK /\ CarrierOK /\ Accounted

\* The steps of a run that ask others nothing, or only read.
LaneAlone ==
  \/ Begin \/ BaseBefore \/ BaseBetween \/ BaseAfter \/ Compare \/ FileAgain \/ List
  \/ Readback \/ RequiredCI \/ End

LEMMA TheLane == Lane \in Clients /\ \A c \in Clients : c = Lane
BY LaneAssumption

LEMMA NoneIsNothing ==
  None \notin Texts /\ None # "PASS" /\ None # "NO_MUTATION_NEEDED" /\ None # "HARD_STOP"
<1>1. None \notin Texts /\ None \notin {"PASS", "NO_MUTATION_NEEDED", "HARD_STOP"}
  BY ConstantsAssumption, Zenon
<1> QED BY <1>1

LEMMA NextCases ==
  ASSUME Next
  PROVE  LaneAlone \/ Execute \/ Request \/ Record \/ Open \/ Elsewhere \/ Touch \/ CIMoves
BY DEF Next, LaneStep, LaneAlone

LEMMA AloneKeeps ==
  ASSUME LaneAlone
  PROVE  UNCHANGED <<engineVars, target, touches>>
<1>1. CASE Begin \/ Compare \/ List \/ Readback \/ RequiredCI \/ End
  BY <1>1 DEF Begin, Compare, List, Readback, RequiredCI, End
<1>2. CASE BaseBefore \/ BaseBetween \/ BaseAfter \/ FileAgain
  BY <1>2 DEF BaseBefore, BaseBetween, BaseAfter, FileAgain, CheckBase, Advance
<1> QED BY <1>1, <1>2 DEF LaneAlone

-----------------------------------------------------------------------------
(* The engine in the lane's hands.                                          *)

\* The lane calls the engine with a manifest of its kind.
LEMMA ExecuteIsCall ==
  ASSUME IInv, JournalOK, lane \in Lanes, Execute
  PROVE  Called(Lane) /\ Watch
<1>1. lane.step \in {"branch", "file"} /\ pc[Lane] = "idle" /\ Call(Lane, ManifestOf(lane.step)) /\ Watch
  BY DEF Execute
<1>2. lane.run \in 1..MaxRuns
  BY <1>1 DEF JournalOK
<1>3. TextOf[lane.run] \in Texts /\ TextOf[lane.run] # None
  BY <1>2, LaneAssumption, NoneIsNothing
<1>4. ManifestOf(lane.step) \in Manifests
  BY <1>3 DEF ManifestOf, Manifests, FileManifests, FileManifest
<1> QED BY <1>1, <1>4 DEF Called

\* A step of the lane or of the target keeps what the engine relies on.
LEMMA EngineKept ==
  ASSUME IInv, JournalOK, lane \in Lanes, Next
  PROVE  IInv'
<1>1. CASE UNCHANGED engineVars
  BY <1>1, NextInv
<1>2. CASE Execute
  BY <1>2, ExecuteIsCall, StepInv, TheLane DEF Step
<1>3. CASE Request
  BY <1>3, StepInv, TheLane DEF Step, Request
<1>4. CASE Record
  <2>1. /\ receipt' = [receipt EXCEPT ![Lane] = None]
        /\ UNCHANGED <<github, pc, job, seen, attempts, wrote, held, deletion, pushes>>
    BY <1>4 DEF Record
  <2>2. \A c \in Clients : receipt'[c] \in {receipt[c], None}
    BY <2>1 DEF IInv, EngineTypeOK
  <2>3. receipt' \in [Clients -> Receipts]
    BY <2>1 DEF IInv, EngineTypeOK, Receipts
  <2>4. EngineTypeOK'
    BY <2>1, <2>3 DEF IInv, EngineTypeOK, github, deletion, Commits
  <2>5. Program'
    BY <2>1 DEF IInv, Program
  <2>6. ReceiptHonest'
    BY <2>1, <2>2, NoneIsNothing DEF IInv, ReceiptHonest
  <2> QED BY <2>4, <2>5, <2>6 DEF IInv
<1>5. CASE Elsewhere /\ Push
  BY <1>5, StepInv DEF Step, Elsewhere
<1>6. CASE Elsewhere /\ DeleteBranch
  <2>1. /\ UNCHANGED <<commits, validation, client, deleter, pushes>> /\ head' = None
        /\ deletions' = deletions + 1 /\ Watch
    BY <1>6 DEF Elsewhere, DeleteBranch
  <2>2. held' \in [Clients -> BOOLEAN]
        /\ \A c \in Clients : attempts'[c] = attempts[c] /\ held[c] => held'[c]
    BY <2>1 DEF Watch, IInv, EngineTypeOK
  <2>3. EngineTypeOK'
    BY <2>1, <2>2 DEF IInv, EngineTypeOK, client, Commits
  <2>4. Program' /\ ReceiptHonest'
    BY <2>1, <2>2 DEF IInv, Program, ReceiptHonest, client
  <2> QED BY <2>3, <2>4 DEF IInv
<1>7. CASE LaneAlone \/ Open \/ Touch \/ CIMoves
  BY <1>1, <1>7, AloneKeeps DEF Open, Touch, CIMoves
<1> QED
  BY <1>2, <1>3, <1>4, <1>5, <1>6, <1>7, NextCases DEF Elsewhere

\* A commit that was made stays what it is.
LEMMA CommitsStay ==
  ASSUME IInv, JournalOK, lane \in Lanes, Next
  PROVE  /\ Commits \subseteq Commits'
         /\ \A c \in Commits : commits'[c] = commits[c]
<1>1. commits \in Seq(Commit) /\ Len(commits) \in Nat
  BY DEF IInv, EngineTypeOK
<1>2. commits' = commits \/ \E c : commits' = Append(commits, c)
  <2>1. CASE UNCHANGED engineVars
    BY <2>1 DEF engineVars, github
  <2>2. CASE Execute
    BY <2>2 DEF Execute, Call, github
  <2>3. CASE Request
    <3>1. ASSUME NEW m, Apply(m) PROVE commits' = commits \/ \E c : commits' = Append(commits, c)
      BY <3>1 DEF Apply
    <3> QED
      BY <2>3, <3>1 DEF Request, EngineStep, Gate, Read, Write, WriteUnanswered, WriteRaced,
                        Conflict, Verify, Fail, github
  <2>4. CASE Record
    BY <2>4 DEF Record, github
  <2>5. CASE Elsewhere
    BY <2>5 DEF Elsewhere, Push, DeleteBranch
  <2>6. CASE LaneAlone \/ Open \/ Touch \/ CIMoves
    BY <2>1, <2>6, AloneKeeps DEF Open, Touch, CIMoves
  <2> QED BY <2>2, <2>3, <2>4, <2>5, <2>6, NextCases
<1>3. CASE commits' = commits
  BY <1>3 DEF Commits
<1>4. ASSUME NEW c, commits' = Append(commits, c)
      PROVE  Commits \subseteq Commits' /\ \A d \in Commits : commits'[d] = commits[d]
  <2>1. IInv'
    BY EngineKept
  <2>2. commits' \in Seq(Commit) /\ Len(commits') \in Nat
    BY <2>1 DEF IInv, EngineTypeOK
  <2>3. DOMAIN commits' = 1..(Len(commits) + 1)
    BY <1>1, <1>4 
  <2>4. Len(commits') = Len(commits) + 1
    BY <1>1, <2>2, <2>3
  <2> QED BY <1>1, <1>4, <2>4 DEF Commits
<1> QED BY <1>2, <1>3, <1>4

-----------------------------------------------------------------------------
(* Types of the lane and of its target.                                     *)

Runs == Seq({"running", "success", "failure"})

LEMMA StopType ==
  ASSUME lane \in Lanes, journal \in Journal, Stop
  PROVE  lane' \in Lanes /\ journal' \in Journal
BY DEF Stop, To, KeptJournal, Lanes, LaneSteps, Journal

LEMMA AloneType ==
  ASSUME TypeOK, JournalOK, LaneAlone
  PROVE  lane' \in Lanes /\ journal' \in Journal /\ effects' \in {effects, {}}
<1>1. lane \in Lanes /\ journal \in Journal
  BY DEF TypeOK
<1>2. CASE Stop
  <2>1. effects' \in {effects, {}}
    BY <1>2 DEF LaneAlone, Begin, BaseBefore, BaseBetween, BaseAfter, CheckBase, Compare,
                FileAgain, Advance, List, Readback, RequiredCI, End
  <2> QED BY <1>1, <1>2, <2>1, StopType
<1>3. CASE Begin
  <2>1. NoJournal \in Journal
    BY DEF NoJournal, Journal
  <2>2. lane.run + 1 \in 0..MaxRuns
    BY <1>1, <1>3, LaneAssumption DEF Begin, Lanes
  <2> QED BY <1>3, <2>1, <2>2 DEF Begin, Lanes, LaneSteps
<1>4. CASE (BaseBefore \/ BaseBetween \/ BaseAfter) /\ ~Stop
  BY <1>1, <1>4 DEF BaseBefore, BaseBetween, BaseAfter, CheckBase, To, Lanes, LaneSteps, Journal
<1>5. CASE Compare /\ ~Stop
  <2>1. head \in Nat /\ lane' = [lane EXCEPT !.step = "file_again", !.head = head]
    <3>1. head # None /\ head \in Commits \cup {None} /\ Len(commits) \in Nat
      BY <1>5 DEF Compare, TypeOK, EngineTypeOK
    <3> QED BY <1>5, <3>1 DEF Compare, Commits
  <2> QED BY <1>1, <1>5, <2>1 DEF Compare, Lanes, LaneSteps
<1>6. CASE (FileAgain \/ List \/ End) /\ ~Stop
  BY <1>1, <1>6 DEF FileAgain, Advance, List, End, To, Lanes, LaneSteps
<1>7. CASE (Readback \/ RequiredCI) /\ ~Stop
  BY <1>1, <1>7 DEF Readback, RequiredCI, To, Lanes, LaneSteps, Journal
<1> QED
  BY <1>2, <1>3, <1>4, <1>5, <1>6, <1>7 DEF LaneAlone

\* The runs of the workflow keep beside the commits.
LEMMA RunsFollowType ==
  ASSUME TypeOK, Len(commits') \in Nat, RunsFollow
  PROVE  ci' \in Seq(Runs) /\ Len(ci') = Len(commits')
<1>1. ci \in Seq(Runs)
  BY DEF TypeOK, Runs
<1>2. \A c \in DOMAIN ci : ci[c] \in Runs
  BY <1>1
<1>3. <<>> \in Runs
  BY DEF Runs
<1> DEFINE f == [c \in 1..Len(commits') |-> IF c \in DOMAIN ci THEN ci[c] ELSE <<>>]
<1>4. \A c \in 1..Len(commits') : f[c] \in Runs
  BY <1>2, <1>3
<1>5. f \in [1..Len(commits') -> Runs]
  BY <1>4
<1>6. f \in Seq(Runs) /\ Len(f) = Len(commits')
  <2> HIDE DEF f
  <2> QED BY <1>5
<1> QED BY <1>6 DEF RunsFollow

\* An open pull request is followed to a commit.
LEMMA FollowsType ==
  ASSUME TypeOK, pr.head \in Commits, Commits \subseteq Commits', Len(commits') \in Nat,
         head' \in Commits' \cup {None}, PullRequestFollows
  PROVE  pr' \in PullRequest /\ pr'.head \in Commits' /\ (pr'.state = "open" => pr.state = "open")
<1>1. pr \in PullRequest /\ pr.head \in Commits' /\ Commits' \subseteq Nat
  BY DEF TypeOK, Commits
<1> QED BY <1>1 DEF PullRequestFollows, PullRequest

LEMMA CIMovesType ==
  ASSUME TypeOK, CIMoves
  PROVE  ci' \in Seq(Runs) /\ Len(ci') = Len(ci)
<1>1. ci \in Seq(Runs) /\ ci \in [1..Len(ci) -> Runs] /\ Len(ci) \in Nat
  BY DEF TypeOK, Runs
<1>2. ASSUME NEW c \in DOMAIN ci, NEW r \in Runs
      PROVE  [ci EXCEPT ![c] = r] \in Seq(Runs) /\ Len([ci EXCEPT ![c] = r]) = Len(ci)
  <2>1. [ci EXCEPT ![c] = r] \in [1..Len(ci) -> Runs]
    BY <1>1, <1>2
  <2> QED BY <1>1, <2>1
<1>3. ASSUME NEW c \in DOMAIN ci PROVE ci[c] \in Runs
  BY <1>1, <1>3
<1>4. CASE ci' = [ci EXCEPT ![pr.head] = Append(@, "running")]
  <2>1. CASE pr.head \in DOMAIN ci
    <3>1. Append(ci[pr.head], "running") \in Runs
      BY <1>3, <2>1 DEF Runs
    <3> QED BY <1>2, <1>4, <2>1, <3>1
  <2>2. CASE pr.head \notin DOMAIN ci
    BY <1>1, <1>4, <2>2
  <2> QED BY <2>1, <2>2
<1>5. ASSUME NEW c \in DOMAIN ci, NEW i \in DOMAIN ci[c], NEW end \in {"success", "failure"},
             ci' = [ci EXCEPT ![c][i] = end]
      PROVE  ci' \in Seq(Runs) /\ Len(ci') = Len(ci)
  <2>1. [ci[c] EXCEPT ![i] = end] \in Runs
    <3>1. ci[c] \in Runs
      BY <1>3
    <3> QED BY <3>1 DEF Runs
  <2>2. ci' = [ci EXCEPT ![c] = [ci[c] EXCEPT ![i] = end]]
    BY <1>5
  <2> QED BY <1>2, <2>1, <2>2
<1> QED BY <1>4, <1>5 DEF CIMoves

\* The engine steps only where the lane writes.
LEMMA RequestStep ==
  ASSUME LaneInv, Request
  PROVE  /\ lane.step \in {"branch", "file"} /\ pc[Lane] # "idle"
         /\ UNCHANGED <<main, lane, touches>> /\ TargetFollows
         /\ journal' = [journal EXCEPT !.phase = "request_attempted"]
         /\ effects' = IF wrote'[Lane] THEN effects \cup {lane.step} ELSE effects
<1>1. EngineStep(Lane)
  BY DEF Request
<1>2. pc[Lane] # "idle"
  BY <1>1 DEF EngineStep, Gate, Read, Write, WriteUnanswered, WriteRaced, Conflict, Verify, Fail
<1>3. lane.step \in {"branch", "file"}
  BY <1>2 DEF LaneInv, EngineOK
<1> QED BY <1>2, <1>3 DEF Request

LEMMA RecordStep ==
  ASSUME LaneInv, Record
  PROVE  /\ lane.step \in {"branch", "file"} /\ pc[Lane] = "idle" /\ pc' = pc
         /\ receipt[Lane] # None /\ receipt'[Lane] = None /\ commits' = commits
         /\ UNCHANGED <<target, effects, touches, wrote>>
         /\ \/ /\ receipt[Lane] \in {"PASS", "NO_MUTATION_NEEDED"}
               /\ lane' = [lane EXCEPT !.step = IF lane.step = "branch" THEN "file" ELSE "base_again"]
               /\ journal' = [journal EXCEPT !.plans = Append(@, receipt[Lane]),
                                             !.phase = "mutation_verified"]
            \/ Stop
<1>1. receipt \in [Clients -> Receipts]
  BY DEF LaneInv, TypeOK, EngineTypeOK
<1>2. receipt'[Lane] = None
  BY <1>1, TheLane DEF Record
<1> QED BY <1>2 DEF Record, Succeeded, To, github

LEMMA OpenedType ==
  ASSUME NEW n \in 0..MaxRuns, NEW h \in Nat
  PROVE  [state |-> "open", draft |-> TRUE, run |-> n, head |-> h] \in PullRequest
BY DEF PullRequest

LEMMA TouchedType ==
  ASSUME NEW p \in PullRequest, NEW q,
         q \in {p, [p EXCEPT !.state = "closed"], [p EXCEPT !.state = "merged"],
                [p EXCEPT !.draft = FALSE], [p EXCEPT !.run = 0]}
  PROVE  q \in PullRequest /\ q.head = p.head
<1>1. 0 \in 0..MaxRuns
  BY LaneAssumption
<1> QED BY <1>1 DEF PullRequest

\* The pull request read back is forgotten by the next run, and replaced by Readback.
LEMMA CarrierMoves ==
  ASSUME Next
  PROVE  /\ carrier' \in {carrier, pr, NoPullRequest}
         /\ ~Begin /\ ~Readback => carrier' = carrier
<1>1. CASE Begin \/ Readback
  BY <1>1 DEF Begin, Readback
<1>2. CASE BaseBefore \/ BaseBetween \/ BaseAfter \/ FileAgain
  BY <1>2 DEF BaseBefore, BaseBetween, BaseAfter, CheckBase, FileAgain, Advance
<1>3. CASE Compare \/ List \/ RequiredCI \/ End \/ Open
  BY <1>3 DEF Compare, List, RequiredCI, End, Open
<1>4. CASE Execute \/ Request \/ Record
  BY <1>4 DEF Execute, Request, Record, laneVars
<1>5. CASE Elsewhere \/ Touch \/ CIMoves
  BY <1>5 DEF Elsewhere, Touch, CIMoves, laneVars
<1> QED BY <1>1, <1>2, <1>3, <1>4, <1>5 DEF Next, LaneStep

LEMMA CarrierType == ASSUME TypeOK, Next PROVE carrier' \in PullRequest
<1>1. NoPullRequest \in PullRequest
  BY LaneAssumption DEF NoPullRequest, PullRequest, Base
<1> QED BY <1>1, CarrierMoves DEF TypeOK

LEMMA TypeKept ==
  ASSUME LaneInv, Next
  PROVE  TypeOK' /\ pr'.head \in Commits'
<1>1. IInv /\ JournalOK /\ lane \in Lanes
  BY DEF LaneInv, IInv, TypeOK
<1>2. EngineTypeOK' /\ Commits \subseteq Commits'
  BY <1>1, EngineKept, CommitsStay DEF IInv
<1>3. /\ Len(commits') \in Nat /\ head' \in Commits' \cup {None} /\ pr.head \in Commits
      /\ TypeOK
  BY <1>2 DEF EngineTypeOK, LaneInv, HeadOK
<1> DEFINE TargetType ==
             /\ main \in Nat /\ pr \in PullRequest /\ pr.head \in Commits
             /\ ci \in Seq(Runs) /\ Len(ci) = Len(commits)
           LaneType ==
             /\ lane \in Lanes /\ journal \in Journal
             /\ effects \subseteq {"branch", "file", "pr"} /\ touches \in Nat
<1>4. TargetType /\ LaneType
  BY <1>3 DEF TypeOK, Runs
<1>5. TargetFollows /\ main' = main => TargetType'
  BY <1>2, <1>3, <1>4, FollowsType, RunsFollowType DEF TargetFollows
<1>6. UNCHANGED <<target, commits>> => TargetType'
  BY <1>4 DEF target, Commits
<1>7. TargetType' /\ LaneType'
  <2>1. CASE LaneAlone
    <3>1. lane' \in Lanes /\ journal' \in Journal /\ effects' \in {effects, {}}
      BY <1>1, <1>3, <2>1, AloneType
    <3>2. UNCHANGED <<target, commits, touches>>
      BY <2>1, AloneKeeps DEF engineVars, github
    <3> QED BY <1>4, <1>6, <3>1, <3>2
  <2>2. CASE Execute
    BY <1>4, <1>6, <2>2 DEF Execute, Call, github, laneVars
  <2>3. CASE Request
    <3>1. journal' \in Journal
      BY <1>4, <2>3, RequestStep DEF Journal
    <3>2. effects' \subseteq {"branch", "file", "pr"}
      BY <1>4, <2>3, RequestStep
    <3> QED BY <1>4, <1>5, <2>3, <3>1, <3>2, RequestStep
  <2>4. CASE Record
    <3>1. CASE Stop
      BY <1>4, <1>6, <2>4, <3>1, RecordStep, StopType
    <3>2. CASE ~Stop
      <4>1. journal' \in Journal
        <5>1. receipt[Lane] \in {"PASS", "NO_MUTATION_NEEDED"}
              /\ journal' = [journal EXCEPT !.plans = Append(@, receipt[Lane]),
                                            !.phase = "mutation_verified"]
          BY <2>4, <3>2, RecordStep
        <5>2. Append(journal.plans, receipt[Lane]) \in Seq({"PASS", "NO_MUTATION_NEEDED"})
          BY <1>4, <5>1 DEF Journal
        <5> QED BY <1>4, <5>1, <5>2 DEF Journal
      <4>2. lane' \in Lanes
        BY <1>4, <2>4, <3>2, RecordStep DEF Lanes, LaneSteps
      <4> QED BY <1>4, <1>6, <2>4, <4>1, <4>2, RecordStep
    <3> QED BY <3>1, <3>2
  <2>5. CASE Open
    <3>1. UNCHANGED <<commits, head, main, ci, touches>>
      BY <2>5 DEF Open, engineVars, github
    <3>2. lane' \in Lanes /\ journal' \in Journal
      <4>1. Stop \/ (To("readback") /\ UNCHANGED journal)
        BY <2>5 DEF Open
      <4>2. To("readback") => lane' \in Lanes
        BY <1>4 DEF To, Lanes, LaneSteps
      <4> QED BY <1>4, <4>1, <4>2, StopType
    <3>3. /\ pr' = pr \/ pr' = [state |-> "open", draft |-> TRUE, run |-> lane.run, head |-> head]
          /\ pr' # pr => head # None
          /\ effects' \in {effects, effects \cup {"pr"}}
      BY <2>5 DEF Open
    <3>4. pr' \in PullRequest /\ pr'.head \in Commits'
      <4>1. CASE pr' = pr
        BY <1>4, <3>1, <4>1 DEF Commits
      <4>2. CASE pr' # pr
        <5>1. head \in Commits' /\ head \in Nat
          BY <1>3, <3>1, <3>3, <4>2 DEF Commits
        <5>2. lane.run \in 0..MaxRuns
          BY <1>4 DEF Lanes
        <5> QED BY <3>3, <4>2, <5>1, <5>2, OpenedType
      <4> QED BY <4>1, <4>2
    <3> QED BY <1>4, <3>1, <3>2, <3>3, <3>4
  <2>6. CASE Elsewhere
    BY <1>4, <1>5, <2>6 DEF Elsewhere, laneVars
  <2>7. CASE Touch
    <3>1. UNCHANGED <<commits, ci, lane, journal, effects>> /\ touches' = touches + 1
      BY <2>7 DEF Touch, engineVars, github, laneVars
    <3>2. main' \in {main, main + 1}
          /\ pr' \in {pr, [pr EXCEPT !.state = "closed"], [pr EXCEPT !.state = "merged"],
                      [pr EXCEPT !.draft = FALSE], [pr EXCEPT !.run = 0]}
      BY <2>7 DEF Touch
    <3>3. main' \in Nat /\ pr' \in PullRequest /\ pr'.head = pr.head
      BY <1>4, <3>2, TouchedType
    <3> QED BY <1>4, <3>1, <3>3 DEF Commits
  <2>8. CASE CIMoves
    <3>1. UNCHANGED <<commits, main, pr, lane, journal, effects, touches>>
      BY <2>8 DEF CIMoves, engineVars, github, laneVars
    <3>2. ci' \in Seq(Runs) /\ Len(ci') = Len(ci)
      BY <1>3, <2>8, CIMovesType
    <3> QED BY <1>4, <3>1, <3>2 DEF Commits
  <2> QED BY <2>1, <2>2, <2>3, <2>4, <2>5, <2>6, <2>7, <2>8, NextCases
<1> QED BY <1>2, <1>3, <1>7, CarrierType DEF TypeOK, Runs

-----------------------------------------------------------------------------
(* The journal.                                                             *)

\* A run that stops leaves its journal as it is, but for its status.
LEMMA StopKeeps ==
  ASSUME LaneInv, Stop
  PROVE  /\ lane'.step = "idle" /\ lane'.run = lane.run /\ lane'.head = lane.head
         /\ journal'.status = "HARD_STOP" /\ journal'.plans = journal.plans
         /\ journal'.phase = journal.phase /\ journal'.pr = journal.pr
BY DEF Stop, To, KeptJournal, LaneInv, TypeOK, Lanes, Journal

LEMMA AtRest ==
  ASSUME lane'.step = "idle", journal'.status = "CONFIRMED" => Len(journal'.plans) = 2
  PROVE  JournalOK'
BY DEF JournalOK

\* The changes of a run keep accounted for where it stops.
LEMMA AccountedKept ==
  ASSUME LaneInv, effects' \subseteq effects, journal'.plans = journal.plans,
         journal'.phase = journal.phase, journal'.pr = journal.pr
  PROVE  Accounted'
BY DEF LaneInv, Accounted

LEMMA StopAccounted ==
  ASSUME LaneInv, Stop, effects' = effects
  PROVE  JournalOK' /\ Accounted'
<1>1. journal'.status # "CONFIRMED"
  BY StopKeeps
<1> QED BY <1>1, StopKeeps, AtRest, AccountedKept

\* Effects that are accounted for by receipts.
LEMMA ByOneReceipt ==
  ASSUME Len(journal'.plans) = 1, effects' \subseteq {"branch"},
         "branch" \in effects' => journal'.plans[1] = "PASS"
  PROVE  Accounted'
<1> SUFFICES ASSUME NEW e \in effects'
             PROVE  e = "branch" /\ Len(journal'.plans) > 0 /\ journal'.plans[1] = "PASS"
  BY DEF Accounted
<1> QED OBVIOUS

LEMMA ByTwoReceipts ==
  ASSUME Len(journal'.plans) = 2, effects' \subseteq {"branch", "file", "pr"},
         "branch" \in effects' => journal'.plans[1] = "PASS",
         "file" \in effects' => journal'.plans[2] = "PASS",
         "pr" \in effects' => journal'.pr \/ journal'.phase = "mutation_verified"
  PROVE  Accounted'
<1> SUFFICES ASSUME NEW e \in effects'
             PROVE  \/ e = "branch" /\ Len(journal'.plans) > 0 /\ journal'.plans[1] = "PASS"
                    \/ e = "file" /\ Len(journal'.plans) > 1 /\ journal'.plans[2] = "PASS"
                    \/ e = "pr" /\ journal'.pr
                    \/ /\ e = "pr" /\ journal'.phase = "mutation_verified"
                       /\ Len(journal'.plans) # 0 /\ Len(journal'.plans) # 1
  BY DEF Accounted
<1> QED OBVIOUS

LEMMA JournalAlone ==
  ASSUME LaneInv, LaneAlone
  PROVE  JournalOK' /\ Accounted'
<1>1. /\ lane \in Lanes /\ journal \in Journal
      /\ JournalOK /\ Accounted
  BY DEF LaneInv, TypeOK
<1>2. CASE Stop /\ effects' = effects
  BY <1>2, StopAccounted
<1>3. CASE Begin
  <2>1. /\ lane.run \in 0..MaxRuns /\ lane.run < MaxRuns /\ effects' = {}
        /\ lane' = [step |-> "base", run |-> lane.run + 1, head |-> 0] /\ journal' = NoJournal
    BY <1>1, <1>3 DEF Begin, Lanes
  <2>2. lane'.run \in 1..MaxRuns
    BY <2>1, LaneAssumption
  <2>3. Len(journal'.plans) = 0 /\ journal'.status = "none"
    BY <2>1 DEF NoJournal
  <2>4. JournalOK'
    BY <2>1, <2>2, <2>3 DEF JournalOK, PlansAt
  <2> QED BY <2>1, <2>4 DEF Accounted
<1>4. CASE BaseBefore /\ ~Stop
  <2>1. /\ lane.step = "base" /\ lane' = [lane EXCEPT !.step = "branch"] /\ effects' = {}
        /\ journal' = [journal EXCEPT !.status = "IN_PROGRESS", !.phase = "plan_validated"]
    BY <1>1, <1>4 DEF BaseBefore, CheckBase, To, JournalOK
  <2>2. /\ lane'.step = "branch" /\ lane'.run = lane.run
        /\ journal'.plans = journal.plans /\ journal'.status = "IN_PROGRESS"
    BY <1>1, <2>1 DEF Lanes, Journal
  <2>3. JournalOK'
    BY <1>1, <2>1, <2>2 DEF JournalOK, PlansAt
  <2> QED BY <2>1, <2>3 DEF Accounted
<1>5. CASE BaseAfter /\ ~Stop
  <2>1. /\ lane.step = "confirm" /\ lane' = [lane EXCEPT !.step = "idle"] /\ effects' = effects
        /\ journal' = [journal EXCEPT !.status = "CONFIRMED", !.phase = "complete"]
    BY <1>5 DEF BaseAfter, CheckBase, To
  <2>2. /\ lane'.step = "idle" /\ journal'.plans = journal.plans /\ journal'.pr = journal.pr
    BY <1>1, <2>1 DEF Lanes, Journal
  <2>3. Len(journal.plans) = 2 /\ journal.pr
    BY <1>1, <2>1 DEF JournalOK, PlansAt
  <2>4. JournalOK'
    BY <2>2, <2>3, AtRest
  <2>5. \A e \in effects : e # "pr" => \/ e = "branch" /\ journal.plans[1] = "PASS"
                                       \/ e = "file" /\ journal.plans[2] = "PASS"
    BY <1>1, <2>3 DEF Accounted
  <2>6. \A e \in effects : e = "pr" => journal'.pr
    BY <2>2, <2>3
  <2> QED BY <2>1, <2>2, <2>3, <2>4, <2>5, <2>6 DEF Accounted
<1>6. CASE (BaseBetween \/ Compare \/ FileAgain \/ List) /\ ~Stop
  <2>1. /\ lane.step \in {"base_again", "compare", "file_again", "list"}
        /\ lane'.step \in {"compare", "file_again", "list", "readback", "open"}
        /\ lane'.run = lane.run /\ effects' = effects /\ journal' = journal
    BY <1>1, <1>6
       DEF BaseBetween, CheckBase, To, Compare, FileAgain, Advance, List, Lanes
  <2>2. Len(journal.plans) = 2 /\ effects \subseteq {"branch", "file"}
        /\ journal.phase = "mutation_verified" /\ lane.run \in 1..MaxRuns
        /\ journal.status # "CONFIRMED"
    BY <1>1, <2>1 DEF JournalOK, PlansAt
  <2>3. JournalOK'
    BY <2>1, <2>2 DEF JournalOK, PlansAt
  <2> QED BY <1>1, <2>1, <2>3 DEF Accounted
<1>7. CASE (Readback \/ RequiredCI) /\ ~Stop
  <2>1. /\ lane.step = "readback" \/ (lane.step = "ci" /\ journal'.pr = journal.pr)
        /\ lane.step = "readback" => journal'.pr
        /\ lane'.step \in {"ci", "confirm"} /\ lane'.run = lane.run /\ effects' = effects
        /\ journal'.plans = journal.plans /\ journal'.status = journal.status
    BY <1>1, <1>7 DEF Readback, RequiredCI, To, Lanes, Journal
  <2>2. Len(journal.plans) = 2 /\ lane.run \in 1..MaxRuns /\ journal.status # "CONFIRMED" /\ journal'.pr
    BY <1>1, <2>1 DEF JournalOK, PlansAt
  <2>3. JournalOK'
    BY <2>1, <2>2 DEF JournalOK, PlansAt
  <2>4. \A e \in effects : e # "pr" => \/ e = "branch" /\ journal.plans[1] = "PASS"
                                       \/ e = "file" /\ journal.plans[2] = "PASS"
    BY <1>1, <2>2 DEF Accounted
  <2> QED BY <2>1, <2>2, <2>3, <2>4 DEF Accounted
<1>8. CASE End /\ ~Stop
  <2>1. lane'.step = "idle" /\ journal' = journal /\ effects' = effects
    BY <1>1, <1>8 DEF End, To, Lanes
  <2> QED BY <1>1, <2>1, AtRest, AccountedKept DEF JournalOK
<1>9. LaneAlone /\ ~Begin => effects' = effects
  BY DEF LaneAlone, BaseBefore, BaseBetween, BaseAfter, CheckBase, Compare,
         FileAgain, Advance, List, Readback, RequiredCI, End
<1> QED
  BY <1>2, <1>3, <1>4, <1>5, <1>6, <1>7, <1>8, <1>9 DEF LaneAlone

LEMMA JournalStep ==
  ASSUME LaneInv, Next
  PROVE  JournalOK' /\ Accounted'
<1>1. /\ lane \in Lanes /\ journal \in Journal /\ effects \subseteq {"branch", "file", "pr"}
      /\ JournalOK /\ Accounted /\ EngineOK
  BY DEF LaneInv, TypeOK
<1>2. CASE UNCHANGED laneVars
  BY <1>1, <1>2 DEF laneVars, JournalOK, Accounted
<1>3. CASE Request
  <2>1. /\ lane.step \in {"branch", "file"} /\ lane' = lane
        /\ effects' \subseteq effects \cup {lane.step}
        /\ journal'.plans = journal.plans /\ journal'.status = journal.status
        /\ journal'.phase = "request_attempted"
    BY <1>1, <1>3, RequestStep DEF Journal
  <2>2. CASE lane.step = "branch"
    BY <1>1, <2>1, <2>2 DEF JournalOK, PlansAt, Accounted
  <2>3. CASE lane.step = "file"
    <3>1. effects \subseteq {"branch", "file"} /\ Len(journal.plans) = 1
      BY <1>1, <2>3 DEF JournalOK, PlansAt
    <3>2. "branch" \in effects => journal.plans[1] = "PASS"
      BY <1>1, <3>1 DEF Accounted
    <3>3. JournalOK'
      BY <1>1, <2>1, <2>3, <3>1 DEF JournalOK, PlansAt
    <3> QED BY <2>1, <2>3, <3>1, <3>2, <3>3 DEF Accounted
  <2> QED BY <2>1, <2>2, <2>3
<1>4. CASE Record
  <2>1. CASE Stop
    BY <1>4, <2>1, RecordStep, StopAccounted
  <2>2. CASE ~Stop
    <3>1. /\ lane.step \in {"branch", "file"} /\ effects' = effects /\ lane'.run = lane.run
          /\ lane'.step = IF lane.step = "branch" THEN "file" ELSE "base_again"
          /\ receipt[Lane] \in {"PASS", "NO_MUTATION_NEEDED"}
          /\ journal'.plans = Append(journal.plans, receipt[Lane])
          /\ journal'.phase = "mutation_verified" /\ journal'.status = journal.status
      BY <1>1, <1>4, <2>2, RecordStep DEF Lanes, Journal
    <3>2. journal.plans \in Seq({"PASS", "NO_MUTATION_NEEDED"})
      BY <1>1 DEF Journal
    <3>3. lane.step \in effects => receipt[Lane] = "PASS"
      <4>1. lane.step \in effects => wrote[Lane]
        BY <1>1, <3>1 DEF EngineOK
      <4>2. wrote[Lane] = (receipt[Lane] = "PASS")
        BY <1>4, <3>1, RecordStep, TheLane DEF LaneInv, ReceiptHonest
      <4> QED BY <4>1, <4>2
    <3>4. CASE lane.step = "branch"
      <4>1. effects \subseteq {"branch"} /\ Len(journal.plans) = 0
        BY <1>1, <3>4 DEF JournalOK, PlansAt
      <4>2. Len(journal'.plans) = 1 /\ journal'.plans[1] = receipt[Lane]
        BY <3>1, <3>2, <4>1
      <4>3. JournalOK'
        BY <1>1, <3>1, <3>4, <4>1, <4>2 DEF JournalOK, PlansAt
      <4> QED BY <3>1, <3>3, <3>4, <4>1, <4>2, <4>3, ByOneReceipt
    <3>5. CASE lane.step = "file"
      <4>1. effects \subseteq {"branch", "file"} /\ Len(journal.plans) = 1
        BY <1>1, <3>5 DEF JournalOK, PlansAt
      <4>2. Len(journal'.plans) = 2 /\ journal'.plans[1] = journal.plans[1]
            /\ journal'.plans[2] = receipt[Lane]
        BY <3>1, <3>2, <4>1
      <4>3. "branch" \in effects => journal.plans[1] = "PASS"
        BY <1>1, <4>1 DEF Accounted
      <4>4. JournalOK'
        BY <1>1, <3>1, <3>5, <4>1, <4>2 DEF JournalOK, PlansAt
      <4> QED BY <3>1, <3>3, <3>5, <4>1, <4>2, <4>3, <4>4 DEF Accounted
    <3> QED BY <3>1, <3>4, <3>5
  <2> QED BY <2>1, <2>2
<1>5. CASE Open
  <2>1. lane.step = "open"
    BY <1>5 DEF Open
  <2>2. /\ Len(journal.plans) = 2 /\ effects \subseteq {"branch", "file"}
        /\ journal.phase = "mutation_verified"
        /\ lane.run \in 1..MaxRuns /\ journal.status # "CONFIRMED"
    BY <1>1, <2>1 DEF JournalOK, PlansAt
  <2>3. effects' \subseteq effects \cup {"pr"}
    BY <1>5 DEF Open
  <2>4. \A e \in effects : \/ e = "branch" /\ journal.plans[1] = "PASS"
                           \/ e = "file" /\ journal.plans[2] = "PASS"
    BY <1>1, <2>2 DEF Accounted
  <2>5. journal'.plans = journal.plans /\ journal'.phase = journal.phase
        /\ journal'.status # "CONFIRMED"
    <3>1. Stop \/ journal' = journal
      BY <1>5 DEF Open
    <3> QED BY <2>2, <3>1, StopKeeps
  <2>6. Accounted'
    BY <2>2, <2>3, <2>4, <2>5, ByTwoReceipts
  <2>7. CASE Stop
    <3>1. lane'.step = "idle"
      BY <2>7, StopKeeps
    <3> QED BY <2>5, <2>6, <3>1, AtRest
  <2>8. CASE ~Stop
    <3>1. lane'.step = "readback" /\ lane'.run = lane.run
      BY <1>1, <1>5, <2>8 DEF Open, To, Lanes
    <3> QED BY <2>2, <2>5, <2>6, <3>1 DEF JournalOK, PlansAt
  <2> QED BY <2>7, <2>8
<1>6. CASE LaneAlone
  BY <1>6, JournalAlone
<1>7. CASE Execute \/ Elsewhere \/ Touch \/ CIMoves
  BY <1>2, <1>7 DEF Execute, Elsewhere, Touch, CIMoves
<1> QED BY <1>3, <1>4, <1>5, <1>6, <1>7, NextCases

-----------------------------------------------------------------------------
(* The engine and the commit.                                               *)

\* A request leaves the engine busy or with a receipt, and unwrites nothing.
LEMMA EngineReports ==
  ASSUME EngineTypeOK, EngineStep(Lane)
  PROVE  /\ pc'[Lane] # "idle" \/ receipt'[Lane] # None
         /\ wrote[Lane] => wrote'[Lane]
<1> USE TheLane, NoneIsNothing
<1>2. CASE Gate(Lane) \/ Read(Lane) \/ WriteRaced(Lane)
  BY <1>2 DEF Gate, Read, WriteRaced, Goto, Finish, AfterConflict, EngineTypeOK
<1>3. CASE Write(Lane) \/ WriteUnanswered(Lane)
  BY <1>3 DEF Write, WriteUnanswered, Goto, Finish, AfterConflict, EngineTypeOK
<1>4. CASE Conflict(Lane) \/ Verify(Lane) \/ Fail(Lane)
  BY <1>4 DEF Conflict, Verify, Fail, Finish, EngineTypeOK
<1> QED BY <1>2, <1>3, <1>4 DEF EngineStep

LEMMA EngineOKStep ==
  ASSUME LaneInv, Next
  PROVE  EngineOK'
<1>1. /\ lane \in Lanes /\ journal \in Journal /\ effects \subseteq {"branch", "file", "pr"}
      /\ JournalOK /\ EngineOK /\ EngineTypeOK
  BY DEF LaneInv, TypeOK
<1>2. ASSUME UNCHANGED <<pc, receipt, wrote>>, pc[Lane] = "idle", receipt[Lane] = None,
             lane'.step \in {"branch", "file"} => lane'.step \notin effects'
      PROVE  EngineOK'
  BY <1>2 DEF EngineOK
<1>3. CASE LaneAlone
  <2>1. UNCHANGED <<pc, receipt, wrote>>
    BY <1>3, AloneKeeps DEF engineVars, client
  <2>2. pc[Lane] = "idle" /\ receipt[Lane] = None
    <3>1. End \/ lane.step \notin {"branch", "file"}
      BY <1>3 DEF LaneAlone, Begin, BaseBefore, BaseBetween, BaseAfter, CheckBase, Compare,
                  FileAgain, Advance, List, Readback, RequiredCI
    <3>2. End => pc[Lane] = "idle" /\ receipt[Lane] = None
      BY DEF End
    <3> QED BY <1>1, <3>1, <3>2 DEF EngineOK
  <2>3. lane'.step \in {"branch", "file"} => lane.step = "base" /\ effects' = effects
    <3>1. CASE Stop
      BY <3>1, StopKeeps
    <3>2. CASE BaseBefore
      BY <3>2 DEF BaseBefore, CheckBase
    <3>3. CASE ~Stop /\ ~BaseBefore
      <4>1. CASE Begin
        BY <4>1 DEF Begin
      <4>2. CASE BaseBetween \/ BaseAfter \/ FileAgain
        BY <1>1, <3>3, <4>2 DEF BaseBetween, BaseAfter, FileAgain, CheckBase, Advance, To, Lanes
      <4>3. CASE Compare \/ List \/ End
        BY <1>1, <3>3, <4>3 DEF Compare, List, End, To, Lanes
      <4>4. CASE Readback \/ RequiredCI
        BY <1>1, <3>3, <4>4 DEF Readback, RequiredCI, To, Lanes
      <4> QED BY <1>3, <3>3, <4>1, <4>2, <4>3, <4>4 DEF LaneAlone
    <3> QED BY <3>1, <3>2, <3>3
  <2> QED BY <1>1, <1>2, <2>1, <2>2, <2>3 DEF JournalOK
<1>4. CASE Execute
  <2>1. /\ pc[Lane] = "idle" /\ receipt[Lane] = None /\ lane.step \in {"branch", "file"}
        /\ UNCHANGED <<lane, journal, effects>>
    BY <1>4 DEF Execute, laneVars
  <2>2. lane.step \notin effects
    BY <1>1, <2>1 DEF EngineOK
  <2> QED BY <2>1, <2>2 DEF EngineOK
<1>5. CASE Request
  <2>1. EngineStep(Lane)
    BY <1>5 DEF Request
  <2>2. /\ lane.step \in {"branch", "file"} /\ lane' = lane
        /\ journal'.phase = "request_attempted"
        /\ effects' = IF wrote'[Lane] THEN effects \cup {lane.step} ELSE effects
    BY <1>1, <1>5, RequestStep DEF Journal
  <2>3. lane.step \in effects' => wrote'[Lane]
    BY <1>1, <2>1, <2>2, EngineReports DEF EngineOK
  <2> QED BY <1>1, <2>1, <2>2, <2>3, EngineReports DEF EngineOK
<1>6. CASE Record
  <2>1. /\ pc'[Lane] = "idle" /\ receipt'[Lane] = None /\ effects' = effects
        /\ lane.step \in {"branch", "file"}
    BY <1>6, RecordStep
  <2>2. lane'.step = "file" => lane.step = "branch"
    <3>1. CASE Stop
      BY <3>1, StopKeeps
    <3>2. CASE ~Stop
      BY <1>1, <1>6, <3>2, RecordStep DEF Lanes
    <3> QED BY <3>1, <3>2
  <2>3. lane'.step # "branch"
    <3>1. CASE Stop
      BY <3>1, StopKeeps
    <3>2. CASE ~Stop
      BY <1>1, <1>6, <3>2, RecordStep DEF Lanes
    <3> QED BY <3>1, <3>2
  <2> QED BY <1>1, <2>1, <2>2, <2>3 DEF EngineOK, JournalOK
<1>7. CASE Open
  <2>1. lane.step = "open" /\ UNCHANGED <<pc, receipt, wrote>>
    BY <1>7 DEF Open, engineVars, client
  <2>2. lane'.step \in {"idle", "readback"}
    <3>1. Stop \/ To("readback")
      BY <1>7 DEF Open
    <3> QED BY <1>1, <3>1, StopKeeps DEF To, Lanes
  <2> QED BY <1>1, <1>2, <2>1, <2>2 DEF EngineOK
<1>8. CASE Elsewhere \/ Touch \/ CIMoves
  BY <1>1, <1>8 DEF Elsewhere, Push, DeleteBranch, Touch, CIMoves, client, engineVars, laneVars, EngineOK
<1> QED BY <1>3, <1>4, <1>5, <1>6, <1>7, <1>8, NextCases

\* A commit that passed its workflow has passed it for good.
LEMMA SuccessStays ==
  ASSUME LaneInv, Next, NEW c \in Commits, NEW i \in DOMAIN ci[c], ci[c][i] = "success"
  PROVE  i \in DOMAIN ci'[c] /\ ci'[c][i] = "success"
<1>1. ci \in Seq(Runs) /\ DOMAIN ci = Commits /\ ci[c] \in Runs
  BY DEF LaneInv, TypeOK, Runs, Commits
<1>2. CASE ci' = ci
  BY <1>2
<1>3. CASE RunsFollow
  <2>1. c \in 1..Len(commits')
    BY CommitsStay DEF LaneInv, IInv, TypeOK, Commits
  <2> QED BY <1>1, <1>3, <2>1 DEF RunsFollow
<1>4. CASE CIMoves
  <2>1. CASE ci' = [ci EXCEPT ![pr.head] = Append(@, "running")]
    <3>1. CASE pr.head = c
      <4>1. ci'[c] = Append(ci[c], "running")
        BY <1>1, <2>1, <3>1
      <4>2. i \in 1..Len(ci[c]) /\ ci[c] \in Seq({"running", "success", "failure"})
        BY <1>1 DEF Runs
      <4> QED BY <4>1, <4>2
    <3>2. CASE pr.head # c
      BY <1>1, <2>1, <3>2
    <3> QED BY <3>1, <3>2
  <2>2. ASSUME NEW d \in DOMAIN ci, NEW j \in DOMAIN ci[d], NEW end,
               ci[d][j] = "running", ci' = [ci EXCEPT ![d][j] = end]
        PROVE  i \in DOMAIN ci'[c] /\ ci'[c][i] = "success"
    <3>1. CASE d = c
      <4>1. ci'[c] = [ci[c] EXCEPT ![j] = end] /\ i # j
        BY <1>1, <2>2, <3>1
      <4> QED BY <4>1
    <3>2. CASE d # c
      BY <1>1, <2>2, <3>2
    <3> QED BY <3>1, <3>2
  <2> QED BY <1>4, <2>1, <2>2 DEF CIMoves
<1>5. CASE LaneAlone \/ Execute \/ Record \/ Open \/ Touch
  BY <1>2, <1>5, AloneKeeps, RecordStep DEF Execute, Open, Touch, target
<1>6. CASE Request \/ Elsewhere
  BY <1>3, <1>6 DEF Request, Elsewhere, TargetFollows
<1> QED BY <1>4, <1>5, <1>6, NextCases

LEMMA HeadStep ==
  ASSUME LaneInv, Next
  PROVE  HeadOK'
<1>1. /\ lane \in Lanes /\ journal \in Journal /\ EngineTypeOK /\ Base \in Commits
      /\ JournalOK /\ HeadOK
  BY DEF LaneInv, TypeOK, EngineTypeOK, Base, Commits
<1>2. pr'.head \in Commits'
  BY TypeKept
<1>3. Commits \subseteq Commits' /\ \A c \in Commits : commits'[c] = commits[c]
  BY CommitsStay DEF LaneInv, IInv, TypeOK
<1>4. \A c \in Commits : OnlyDocument(c) => OnlyDocument(c)'
  BY <1>1, <1>3 DEF OnlyDocument
<1> DEFINE Compared == lane.head \in Commits /\ OnlyDocument(lane.head)
           Passed == \E i \in DOMAIN ci[lane.head] : ci[lane.head][i] = "success"
<1>5. Compared /\ lane'.head = lane.head => Compared'
  BY <1>3, <1>4 DEF OnlyDocument
<1>6. Compared /\ Passed /\ lane'.head = lane.head => Passed'
  BY SuccessStays
<1>7. SUFFICES
        /\ lane'.step \in AfterCompare \/ journal'.status = "CONFIRMED" => Compared'
        /\ lane'.step = "confirm" \/ journal'.status = "CONFIRMED" => Passed'
  BY <1>2 DEF HeadOK
<1> HIDE DEF Compared, Passed
<1>8. /\ lane.step \in AfterCompare \/ journal.status = "CONFIRMED" => Compared
      /\ lane.step = "confirm" \/ journal.status = "CONFIRMED" => Compared /\ Passed
  BY <1>1 DEF HeadOK, AfterCompare, Compared, Passed
<1>9. CASE UNCHANGED laneVars
  BY <1>5, <1>6, <1>8, <1>9 DEF laneVars
<1>10. lane.step # "idle" => journal.status # "CONFIRMED"
  BY <1>1 DEF JournalOK
<1>11. CASE Stop
  BY <1>11, StopKeeps DEF AfterCompare
<1>12. CASE LaneAlone /\ ~Stop
  <2>1. CASE Begin
    BY <2>1 DEF Begin, NoJournal, AfterCompare
  <2>2. CASE BaseBefore \/ BaseBetween
    <3>1. lane'.step \in {"branch", "compare"} /\ journal'.status # "CONFIRMED"
      BY <1>1, <1>10, <1>12, <2>2 DEF BaseBefore, BaseBetween, CheckBase, To, Lanes, Journal
    <3> QED BY <3>1 DEF AfterCompare
  <2>3. CASE BaseAfter
    <3>1. lane.step = "confirm" /\ lane'.head = lane.head
      BY <1>1, <1>12, <2>3 DEF BaseAfter, CheckBase, To, Lanes
    <3> QED BY <1>5, <1>6, <1>8, <3>1
  <2>4. CASE Compare
    <3>1. /\ head # None /\ OnlyDocument(head) /\ journal' = journal /\ lane.step = "compare"
          /\ lane'.head = head /\ lane'.step = "file_again" /\ commits' = commits
      BY <1>1, <1>12, <2>4 DEF Compare, Lanes, engineVars, github
    <3>2. head \in Commits
      BY <1>1, <3>1 DEF EngineTypeOK
    <3>3. Compared'
      BY <1>3, <1>4, <3>1, <3>2 DEF Compared, OnlyDocument
    <3> QED BY <1>10, <3>1, <3>3
  <2>5. CASE FileAgain \/ List \/ Readback
    <3>1. /\ lane.step \in {"file_again", "list", "readback"} /\ lane'.head = lane.head
          /\ lane'.step \in {"list", "open", "readback", "ci"}
          /\ journal'.status = journal.status
      BY <1>1, <1>12, <2>5 DEF FileAgain, Advance, List, Readback, To, Lanes, Journal
    <3> QED BY <1>5, <1>8, <1>10, <3>1 DEF AfterCompare
  <2>6. CASE RequiredCI
    <3>1. /\ lane.step = "ci" /\ lane'.head = lane.head
          /\ Len(ci[lane.head]) = 1 /\ ci[lane.head][1] = "success"
          /\ journal'.status = journal.status
      BY <1>1, <1>12, <2>6 DEF RequiredCI, To, Lanes, Journal
    <3>2. Compared
      BY <1>8, <3>1 DEF AfterCompare
    <3>3. Passed
      <4>1. ci[lane.head] \in Runs
        BY <3>2 DEF Compared, LaneInv, TypeOK, Runs, Commits
      <4>2. 1 \in DOMAIN ci[lane.head]
        BY <3>1, <4>1 DEF Runs
      <4> QED BY <3>1, <4>2 DEF Passed
    <3> QED BY <1>5, <1>6, <3>1, <3>2, <3>3
  <2>7. CASE End
    <3>1. lane.step # "idle" /\ lane'.step = "idle" /\ journal' = journal
      BY <1>1, <1>12, <2>7 DEF End, To, Lanes
    <3> QED BY <1>10, <3>1 DEF AfterCompare
  <2> QED BY <1>12, <2>1, <2>2, <2>3, <2>4, <2>5, <2>6, <2>7 DEF LaneAlone
<1>13. CASE Request \/ (Record /\ ~Stop)
  <2>1. /\ lane'.step \in {"branch", "file", "base_again"} /\ lane.step # "idle"
        /\ journal'.status = journal.status
    BY <1>1, <1>13, RequestStep, RecordStep DEF Lanes, Journal
  <2> QED BY <1>10, <2>1 DEF AfterCompare
<1>14. CASE Open /\ ~Stop
  <2>1. /\ lane.step = "open" /\ lane'.step = "readback" /\ lane'.head = lane.head
        /\ journal' = journal
    BY <1>1, <1>14 DEF Open, To, Lanes
  <2> QED BY <1>5, <1>8, <1>10, <2>1 DEF AfterCompare
<1>15. CASE Execute \/ Elsewhere \/ Touch \/ CIMoves
  BY <1>9, <1>15 DEF Execute, Elsewhere, Touch, CIMoves
<1> QED BY <1>11, <1>12, <1>13, <1>14, <1>15, NextCases

\* What was read back is what the run asks the workflow of, and then confirms.
LEMMA CarrierStep ==
  ASSUME LaneInv, Next
  PROVE  CarrierOK'
<1>1. lane \in Lanes /\ journal \in Journal /\ JournalOK /\ CarrierOK
  BY DEF LaneInv, TypeOK
<1>2. lane.step # "idle" => journal.status # "CONFIRMED"
  BY <1>1 DEF JournalOK
<1>3. ASSUME carrier' = carrier, lane'.head = lane.head, lane'.run = lane.run,
             Carried
      PROVE  Carried'
  BY <1>3 DEF Carried
<1>4. CASE Stop
  BY <1>4, StopKeeps DEF CarrierOK
<1>5. CASE UNCHANGED laneVars
  BY <1>1, <1>5 DEF laneVars, CarrierOK, Carried
<1>6. CASE Begin
  BY <1>6 DEF Begin, NoJournal, CarrierOK
<1>7. CASE Readback /\ ~Stop
  <2>1. ExactPullRequest /\ carrier' = pr /\ lane'.head = lane.head /\ lane'.run = lane.run
    BY <1>1, <1>7 DEF Readback, To, Lanes
  <2> QED BY <2>1 DEF ExactPullRequest, Carried, CarrierOK
<1>8. CASE (RequiredCI \/ BaseAfter) /\ ~Stop
  <2>1. lane.step \in {"ci", "confirm"} /\ lane'.head = lane.head /\ lane'.run = lane.run
    BY <1>1, <1>8 DEF RequiredCI, BaseAfter, CheckBase, To, Lanes
  <2>2. carrier' = carrier
    BY <1>8 DEF RequiredCI, BaseAfter, CheckBase
  <2> QED BY <1>1, <1>3, <2>1, <2>2 DEF CarrierOK
<1>9. CASE (BaseBefore \/ BaseBetween \/ Compare \/ FileAgain \/ List \/ End) /\ ~Stop
  <2>1. lane.step # "idle" /\ lane'.step \notin {"ci", "confirm"}
    BY <1>1, <1>9 DEF BaseBefore, BaseBetween, CheckBase, Compare, FileAgain, Advance,
                      List, End, To, Lanes
  <2>2. journal'.status # "CONFIRMED"
    BY <1>1, <1>2, <1>9, <2>1
       DEF BaseBefore, BaseBetween, CheckBase, Compare, FileAgain, Advance, List, End, Journal
  <2> QED BY <2>1, <2>2 DEF CarrierOK
<1>10. CASE (Request \/ Record) /\ ~Stop
  <2>1. /\ lane'.step \in {"branch", "file", "base_again"} /\ lane.step # "idle"
        /\ journal'.status = journal.status
    BY <1>1, <1>10, RequestStep, RecordStep DEF Lanes, Journal
  <2> QED BY <1>2, <2>1 DEF CarrierOK
<1>11. CASE Open /\ ~Stop
  <2>1. lane.step = "open" /\ lane'.step = "readback" /\ journal' = journal
    BY <1>1, <1>11 DEF Open, To, Lanes
  <2> QED BY <1>2, <2>1 DEF CarrierOK
<1>12. CASE Execute \/ Elsewhere \/ Touch \/ CIMoves
  BY <1>5, <1>12 DEF Execute, Elsewhere, Touch, CIMoves
<1> QED
  BY <1>4, <1>6, <1>7, <1>8, <1>9, <1>10, <1>11, <1>12, NextCases DEF LaneAlone

-----------------------------------------------------------------------------
(* Theorems about the lane.                                                 *)

LEMMA LaneInit == Init => LaneInv
<1> SUFFICES ASSUME Init PROVE LaneInv
  OBVIOUS
<1>1. IInv
  BY InitInv DEF Init
<1>2. Len(commits) = 1
  BY DEF Init, EngineInit
<1>3. /\ lane \in Lanes /\ journal \in Journal /\ main \in Nat
      /\ pr \in PullRequest /\ carrier \in PullRequest
  BY LaneAssumption DEF Init, NoPullRequest, Lanes, LaneSteps, NoJournal, Journal, PullRequest, Base
<1>4. ci \in Seq(Runs) /\ Len(ci) = Len(commits)
  <2>1. <<>> \in Runs
    BY DEF Runs
  <2> QED BY <1>2, <2>1 DEF Init
<1>5. TypeOK
  BY <1>1, <1>3, <1>4 DEF Init, TypeOK, IInv, Runs
<1>6. JournalOK /\ HeadOK /\ CarrierOK /\ Accounted
  BY <1>2 DEF Init, NoPullRequest, JournalOK, HeadOK, CarrierOK, Accounted, NoJournal, AfterCompare, Commits, Base
<1>7. EngineOK
  BY TheLane DEF Init, EngineInit, EngineOK
<1> QED BY <1>1, <1>5, <1>6, <1>7 DEF LaneInv, IInv

LEMMA LaneStutter == ASSUME LaneInv, UNCHANGED vars PROVE LaneInv'
<1>1. IInv
  BY DEF LaneInv, TypeOK, IInv
<1>2. IInv'
  BY <1>1, NextInv DEF vars
<1> QED
  BY <1>2 DEF vars, target, laneVars, engineVars, github, client, LaneInv, TypeOK, IInv,
              JournalOK, EngineOK, HeadOK, CarrierOK, Carried, Accounted, Commits, OnlyDocument

LEMMA LaneNext == LaneInv /\ [Next]_vars => LaneInv'
<1> SUFFICES ASSUME LaneInv, Next PROVE LaneInv'
  BY LaneStutter
<1>1. IInv'
  BY EngineKept DEF LaneInv, IInv, TypeOK
<1>2. TypeOK' /\ JournalOK' /\ Accounted' /\ EngineOK' /\ HeadOK' /\ CarrierOK'
  BY TypeKept, JournalStep, EngineOKStep, HeadStep, CarrierStep
<1> QED BY <1>1, <1>2 DEF LaneInv, IInv

\* The lane, its journal and its target have their types, for any documents, and any
\* number of runs, workflows and touches.
THEOREM LaneTypeCorrect == Spec => []TypeOK
<1>1. LaneInv => TypeOK
  BY DEF LaneInv
<1> QED BY LaneInit, LaneNext, <1>1, PTL DEF Spec

\* A confirmation is about one commit that adds the document and nothing else, that
\* the run's own draft, unmerged, carried when it was read back, and whose required
\* workflow passed, whatever others do to the branch, to the pull
\* request and to its workflows meanwhile.
THEOREM ConfirmationIsProof == Spec => []ConfirmedProof
<1>1. LaneInv => ConfirmedProof
  <2> SUFFICES ASSUME LaneInv, journal.status = "CONFIRMED" PROVE ConfirmedProof
    BY DEF ConfirmedProof
  <2>1. OnlyDocument(lane.head) /\ \E i \in DOMAIN ci[lane.head] : ci[lane.head][i] = "success"
    BY DEF LaneInv, HeadOK
  <2>2. Len(journal.plans) = 2 /\ journal.plans \in Seq({"PASS", "NO_MUTATION_NEEDED"})
    BY DEF LaneInv, JournalOK, TypeOK, Journal
  <2>3. \A i \in 1..2 : i \in DOMAIN journal.plans
    BY <2>2
  <2>4. Carried
    BY DEF LaneInv, CarrierOK
  <2> QED BY <2>1, <2>3, <2>4 DEF ConfirmedProof, OnlyDocument, Carried
<1> QED BY LaneInit, LaneNext, <1>1, PTL DEF Spec

\* What a run has changed can be told from its journal at every moment, also when it
\* failed, was cancelled, or never got the answer to the request that made it.
THEOREM EffectsAreAccounted == Spec => []Accounted
<1>1. LaneInv => Accounted
  BY DEF LaneInv
<1> QED BY LaneInit, LaneNext, <1>1, PTL DEF Spec
=============================================================================
