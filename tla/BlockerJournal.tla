--------------------------- MODULE BlockerJournal ---------------------------
(***************************************************************************)
(* The journal of denied mutations and the gate before a write.            *)
(*                                                                         *)
(* The journal is a list of comments of one issue.  Each carries a payload *)
(* and the hash of everything before it; a hash is the history it commits  *)
(* to, so "previous" is a sequence of payloads.  Comments that are not     *)
(* entries are skipped by every reader and are not represented.  There is  *)
(* no lock: a writer reads the chain, checks, posts, and reads back.       *)
(*                                                                         *)
(* Writers record denials and clearances, enrol work, or migrate the known *)
(* denials of old work and enrol it last.  Engines (the mutation engine,   *)
(* the execution kernel, the execution gateway) pass the gate before they  *)
(* write.  Any of them may stop between two steps, by an error or because  *)
(* its process dies: both leave nothing behind but the comments.           *)
(***************************************************************************)
EXTENDS Integers, Sequences, FiniteSets

CONSTANTS
  Writers,        \* processes that append to the journal
  Engines,        \* processes that mutate the repository
  Works,          \* controller-issued work identities (logical intents)
  Registrations,  \* payloads REGISTERED that writers may append
  Blockers,       \* payloads BLOCKED that writers may append
  Clearances,     \* payloads CLEARED that writers may append
  Genuine,        \* those of the clearances that their authority confirms
  Inventory,      \* for each work, its denials from before the journal
  Enrolment,      \* for each work, the registration that ends its migration
  NoWork,         \* the work of an engine that does nothing
  Delays,         \* may a POST whose sender timed out arrive later?
  MaxEntries,     \* bound: comments in the journal
  MaxHead,        \* bound: commits of the target branch
  MaxDeletions    \* bound: comments people delete

\* Where a denial came from; an HTTP denial by the class of its status.
Source ==
  {"tool_safety", "repository_policy", "http_access", "http_conflict",
   "http_transient", "http_other", "stale_identity", "workflow_governance",
   "ci", "review", "provider_transport", "unknown"}

Kind ==
  {"SHA_REPLANNED", "EXACT_HEAD_CI_PASS", "WORKFLOW_PROVENANCE_PASS",
   "CURRENT_HEAD_REVIEW", "TARGET_ACCESS_RESTORED", "TRANSIENT_RECOVERED",
   "OWNER_POLICY_AUTHORIZED", "UPSTREAM_SAFETY_CLEARED"}

Payload == Registrations \cup Blockers \cup Clearances

ASSUME ConstantsAssumption ==
  /\ \A x \in Registrations : x.event = "REGISTERED" /\ x.work \in Works
  /\ \A x \in Blockers :
       x.event = "BLOCKED" /\ x.work \in Works /\ x.source \in Source
  /\ \A x \in Clearances :
       x.event = "CLEARED" /\ x.work \in Works /\ x.kind \in Kind
  /\ Genuine \subseteq Clearances
  /\ Inventory \in [Works -> Seq(Blockers)]
  /\ Enrolment \in [Works -> Registrations]
  /\ \A w \in Works : Enrolment[w].work = w
  /\ NoWork \notin Works /\ Delays \in BOOLEAN
  /\ MaxEntries \in Nat /\ MaxHead \in Nat \ {0} /\ MaxDeletions \in Nat

VARIABLES
  comments,  \* the journal's comments, oldest first
  limbo,     \* posted comments whose sender gave up and that may still arrive
  anchored,  \* does the deployment configure a checkpoint reader?
  anchor,    \* the history the checkpoint attests
  deleted,   \* comments deleted so far
  head,      \* the commit of the target branch
  writer,    \* the append or migration each writer is in
  engine,    \* the mutation each engine is in
  acked      \* the denials whose recording returned, while none can be deleted

journal == <<comments, limbo>>
outside == <<anchored, anchor, deleted, head>>
vars == <<journal, outside, writer, engine, acked>>

Comment == [previous : Seq(Payload), payload : Payload]

WriterIdle == [pc |-> "idle", todo |-> <<>>, base |-> <<>>]
EngineIdle ==
  [pc |-> "idle", work |-> NoWork, expected |-> 0, known |-> {}]

-----------------------------------------------------------------------------
(* Reading.                                                                 *)

\* The payloads of the journal, in the order of its comments.
Events == [i \in 1..Len(comments) |-> comments[i].payload]

Before(s, i) == SubSeq(s, 1, i - 1)

\* The entries of a history that record denial "ref" of a work.
Denials(s, w, ref) ==
  {i \in 1..Len(s) : s[i].event = "BLOCKED" /\ s[i].work = w /\ s[i].ref = ref}

Enrolments(s, w) ==
  {i \in 1..Len(s) : s[i].event = "REGISTERED" /\ s[i].work = w}

\* What read demands of an entry beyond its place in the hash chain.
Coherent(before, x) ==
  /\ x.event = "REGISTERED" => Enrolments(before, x.work) = {}
  /\ x.event = "CLEARED" => Cardinality(Denials(before, x.work, x.about)) = 1

Readable ==
  \A i \in 1..Len(comments) :
    /\ comments[i].previous = Before(Events, i)
    /\ Coherent(Before(Events, i), comments[i].payload)

Occurs(x, s) == \E i \in 1..Len(s) : s[i] = x

-----------------------------------------------------------------------------
(* Appending: read, check, post, read back.                                 *)

\* A writer goes on to the next step of what it has to do.
Go(p, pc, todo) ==
  /\ writer' = [writer EXCEPT ![p] = [pc |-> pc, todo |-> todo, base |-> <<>>]]
  /\ UNCHANGED acked

\* The first of what it had to do is recorded: a migration goes on with the
\* rest, everybody else returns.
Done(p, todo) ==
  LET x == Head(todo)
      rest == Tail(todo) IN
  /\ writer' = [writer EXCEPT ![p] =
       IF rest = <<>> THEN WriterIdle
       ELSE [pc |-> "import", todo |-> rest, base |-> <<>>]]
  /\ acked' = IF x.event = "BLOCKED" /\ ~anchored THEN acked \cup {x} ELSE acked

\* Mutation of Permitted: identical content may be recorded again.
PermittedAgain(before, x) ==
  x.event = "CLEARED" => Denials(before, x.work, x.about) # {}

\* What append checks before it posts.
Permitted(before, x) ==
  /\ ~Occurs(x, before)
  /\ x.event = "CLEARED" => Denials(before, x.work, x.about) # {}

\* The first half of append: what is there already needs no entry.
ReadFor(p, todo) ==
  /\ Readable
  /\ \/ /\ Occurs(Head(todo), Events)
        /\ Done(p, todo)
     \/ /\ Permitted(Events, Head(todo))
        /\ writer' = [writer EXCEPT
             ![p] = [pc |-> "post", todo |-> todo, base |-> Events]]
        /\ UNCHANGED acked

\* A deployment with a checkpoint serializes its writers.
Free(p) ==
  /\ writer[p].pc = "idle"
  /\ anchored => \A q \in Writers : writer[q].pc = "idle"

\* record_blocker and record_clearance
RecordEvent(p, x) ==
  /\ Free(p)
  /\ ReadFor(p, <<x>>)
  /\ UNCHANGED <<journal, outside, engine>>

\* A work is enrolled once: its registration cannot be replaced.
Enrollable(x) ==
  Readable /\ \A i \in Enrolments(Events, x.work) : Events[i] = x

\* register_work reads, and then the append it calls reads again.
RegisterWork(p, x) ==
  /\ Free(p)
  /\ Enrollable(x)
  /\ Go(p, "append", <<x>>)
  /\ UNCHANGED <<journal, outside, engine>>

AppendRead(p) ==
  /\ writer[p].pc = "append"
  /\ ReadFor(p, writer[p].todo)
  /\ UNCHANGED <<journal, outside, engine>>

Entry(p) ==
  [previous |-> writer[p].base, payload |-> Head(writer[p].todo)]

Post(p) ==
  /\ writer[p].pc = "post"
  /\ Len(comments) < MaxEntries
  /\ comments' = Append(comments, Entry(p))
  /\ writer' = [writer EXCEPT ![p].pc = "verify"]
  /\ UNCHANGED <<limbo, outside, engine, acked>>

\* The request times out and is not lost.
PostTimesOut(p) ==
  /\ writer[p].pc = "post"
  /\ Delays /\ limbo = {}
  /\ limbo' = {Entry(p)}
  /\ writer' = [writer EXCEPT ![p] = WriterIdle]
  /\ UNCHANGED <<comments, outside, engine, acked>>

LatePost ==
  /\ Len(comments) < MaxEntries
  /\ \E c \in limbo : comments' = Append(comments, c)
  /\ limbo' = {}
  /\ UNCHANGED <<outside, writer, engine, acked>>

Verify(p) ==
  /\ writer[p].pc = "verify" /\ Readable
  /\ Events = Append(writer[p].base, Head(writer[p].todo))
  /\ Done(p, writer[p].todo)
  /\ UNCHANGED <<journal, outside, engine>>

\* Any error, a journal that cannot be read, or the end of the process.
GiveUp(p) ==
  /\ writer[p].pc # "idle"
  /\ writer' = [writer EXCEPT ![p] = WriterIdle]
  /\ UNCHANGED <<journal, outside, engine, acked>>

-----------------------------------------------------------------------------
(* Migration of the denials that are older than the journal.                *)

\* The verified inventory is imported only for work not enrolled yet.
Migrate(p, w) ==
  /\ Free(p) /\ Inventory[w] # <<>>
  /\ Readable /\ Enrolments(Events, w) = {}
  /\ Go(p, "import", Append(Inventory[w], Enrolment[w]))
  /\ UNCHANGED <<journal, outside, engine>>

\* Mutation of Import: a denial counts as imported once it has been posted.
ImportUnchecked(p) ==
  LET todo == writer[p].todo IN
  /\ writer[p].pc = "import" /\ Readable
  /\ Go(p, "append", <<todo[Len(todo)]>>)
  /\ UNCHANGED <<journal, outside, engine>>

\* The next denial is there already, or is recorded; the last step is to
\* look for all of them and to enrol.
Import(p) ==
  LET todo == writer[p].todo
      x == Head(todo) IN
  /\ writer[p].pc = "import" /\ Readable
  /\ \/ /\ x.event = "BLOCKED" /\ Denials(Events, x.work, x.ref) = {}
        /\ Go(p, "append", todo)
     \/ /\ x.event = "BLOCKED"
        /\ \E i \in Denials(Events, x.work, x.ref) :
             Denials(Events, x.work, x.ref) = {i} /\ Events[i] = x
        /\ Done(p, todo)
     \/ /\ x.event = "REGISTERED"
        /\ \A i \in 1..Len(Inventory[x.work]) :
             Denials(Events, x.work, Inventory[x.work][i].ref) # {}
        /\ Enrollable(x)
        /\ Go(p, "append", todo)
  /\ UNCHANGED <<journal, outside, engine>>

-----------------------------------------------------------------------------
(* What a denial means.                                                     *)

\* The evidence that may clear a denial; for some none does.
EligibleKind(source) ==
  CASE source = "tool_safety" -> {"UPSTREAM_SAFETY_CLEARED"}
    [] source = "repository_policy" -> {"OWNER_POLICY_AUTHORIZED"}
    [] source \in {"stale_identity", "http_conflict"} -> {"SHA_REPLANNED"}
    [] source = "workflow_governance" -> {"WORKFLOW_PROVENANCE_PASS"}
    [] source = "ci" -> {"EXACT_HEAD_CI_PASS"}
    [] source = "review" -> {"CURRENT_HEAD_REVIEW"}
    [] source = "http_access" -> {"TARGET_ACCESS_RESTORED"}
    [] source = "http_transient" -> {"TRANSIENT_RECOVERED"}
    [] OTHER -> {}

\* classify_blocker
RecoveryAction(source) ==
  CASE source \in {"http_conflict", "stale_identity"} -> "READ_ONLY_REPLAN"
    [] source = "http_transient" -> "RETRY_SAME_PROVIDER"
    [] source \in {"workflow_governance", "ci", "review"} ->
         "REPAIR_AND_REVALIDATE"
    [] OTHER -> "ESCALATE_NO_WRITE"

BlockersOf(s, w) ==
  {i \in 1..Len(s) : s[i].event = "BLOCKED" /\ s[i].work = w}

\* Mutation of Continuation: the last denial decides alone.
ContinuationByLast(s, w, provider) ==
  IF BlockersOf(s, w) = {} THEN "ESCALATE_NO_WRITE"
  ELSE LET last == CHOOSE i \in BlockersOf(s, w) :
                     \A j \in BlockersOf(s, w) : j <= i IN
       RecoveryAction(s[last].source)

\* decide_mutation_continuation: what a retry with a provider may do next.
Continuation(s, w, provider) ==
  LET seen == BlockersOf(s, w)
      last == CHOOSE i \in seen : \A j \in seen : j <= i IN
  CASE seen = {} -> "ESCALATE_NO_WRITE"
    [] \E i \in seen : RecoveryAction(s[i].source) = "ESCALATE_NO_WRITE" ->
         "ESCALATE_NO_WRITE"
    [] OTHER ->
         IF /\ RecoveryAction(s[last].source) = "RETRY_SAME_PROVIDER"
            /\ s[last].provider # provider
           THEN "ESCALATE_NO_WRITE" ELSE RecoveryAction(s[last].source)

-----------------------------------------------------------------------------
(* The gate and the write behind it.                                        *)

\* A trusted runtime hands a mutation its work and the head it was made for;
\* with any other head than the one the gate reads, it ends here.
\* "known" is not in the code: the denials it could have known of.
GateHead(e, w) ==
  /\ engine[e].pc = "idle"
  /\ engine' = [engine EXCEPT
       ![e] = [pc |-> "gate", work |-> w, expected |-> head,
               known |-> IF anchored THEN {anchor[i] : i \in BlockersOf(anchor, w)}
                         ELSE {x \in acked : x.work = w}]]
  /\ UNCHANGED <<journal, outside, writer, acked>>

\* Mutation of RequireCheckpoint: only the number of events is compared.
RequireCheckpointByLength(s) == anchored => Len(s) = Len(anchor)

RequireCheckpoint(s) == anchored => s # <<>> /\ s = anchor

\* The trusted adapters look at the head once more.
Verified(c) == c \in Genuine /\ c.head = head

\* evaluate_clearance
Resolves(b, c, expected) ==
  /\ c.event = "CLEARED" /\ c.work = b.work /\ c.about = b.ref
  /\ c.kind \in EligibleKind(b.source)
  /\ c.head = expected /\ Verified(c)

NoActiveBlocker(s, w, expected) ==
  /\ Cardinality(Enrolments(s, w)) = 1
  /\ \A i \in BlockersOf(s, w) :
       \E j \in 1..Len(s) : Resolves(s[i], s[j], expected)

\* The journal, then the checkpoint, then the adapters: what is read later can
\* only refuse what an earlier read allowed.
GateJournal(e) ==
  /\ engine[e].pc = "gate" /\ Readable
  /\ RequireCheckpoint(Events)
  /\ NoActiveBlocker(Events, engine[e].work, engine[e].expected)
  /\ engine' = [engine EXCEPT ![e].pc = "write"]
  /\ UNCHANGED <<journal, outside, writer, acked>>

\* The write, or an error before it or in it: an error never goes on to
\* another provider.
EngineEnds(e) ==
  /\ engine[e].pc # "idle"
  /\ engine' = [engine EXCEPT ![e] = EngineIdle]
  /\ UNCHANGED <<journal, outside, writer, acked>>

-----------------------------------------------------------------------------
(* GitHub, people, and the keeper of the checkpoint.                        *)

MoveHead ==
  /\ head < MaxHead
  /\ head' = head + 1
  /\ UNCHANGED <<journal, anchored, anchor, deleted, writer, engine, acked>>

\* Whoever keeps the checkpoint moves it only along the history it attests.
AdvanceAnchor ==
  /\ anchored /\ Readable
  /\ Len(anchor) < Len(Events) /\ SubSeq(Events, 1, Len(anchor)) = anchor
  /\ anchor' = Events
  /\ UNCHANGED <<journal, anchored, deleted, head, writer, engine, acked>>

\* A chain cannot show the loss of its end: without a checkpoint the code
\* excludes it by assumption.  Other edits and deletions are left out: they leave a
\* journal that does not read, but for one that removes one of two racing entries.
DeleteLast ==
  /\ anchored /\ deleted < MaxDeletions
  /\ comments # <<>> /\ Readable
  /\ comments' = Before(comments, Len(comments))
  /\ deleted' = deleted + 1
  /\ UNCHANGED <<limbo, anchored, anchor, head, writer, engine, acked>>

-----------------------------------------------------------------------------
Init ==
  /\ comments = <<>> /\ limbo = {}
  /\ anchored \in BOOLEAN /\ anchor = <<>>
  /\ deleted = 0 /\ head = 1
  /\ writer = [p \in Writers |-> WriterIdle]
  /\ engine = [e \in Engines |-> EngineIdle]
  /\ acked = {}

Write(p) ==
  \/ \E x \in Blockers \cup Clearances : RecordEvent(p, x)
  \* The registration of a migration is written by that migration only.
  \/ \E x \in Registrations \ {Enrolment[w] : w \in Works} : RegisterWork(p, x)
  \/ AppendRead(p) \/ Post(p) \/ PostTimesOut(p) \/ Verify(p)
  \/ \E w \in Works : Migrate(p, w)
  \/ Import(p) \/ GiveUp(p)

Mutate(e) ==
  \/ \E w \in Works : GateHead(e, w)
  \/ GateJournal(e) \/ EngineEnds(e)

Next ==
  \/ \E p \in Writers : Write(p)
  \/ LatePost
  \/ \E e \in Engines : Mutate(e)
  \/ MoveHead \/ AdvanceAnchor \/ DeleteLast

Spec == Init /\ [][Next]_vars

-----------------------------------------------------------------------------
(* Properties.                                                              *)

WriterState ==
  [pc : {"idle", "append", "post", "verify", "import"},
   todo : Seq(Payload), base : Seq(Payload)]

EngineState ==
  [pc : {"idle", "gate", "write"},
   work : Works \cup {NoWork}, expected : 0..MaxHead, known : SUBSET Blockers]

\* Types; a writer that is not idle has something to append.
TypeOK ==
  /\ comments \in Seq(Comment) /\ Len(comments) <= MaxEntries
  /\ limbo \in SUBSET Comment
  /\ anchored \in BOOLEAN /\ anchor \in Seq(Payload)
  /\ deleted \in 0..MaxDeletions /\ head \in 1..MaxHead
  /\ writer \in [Writers -> WriterState]
  /\ \A p \in Writers : writer[p].pc # "idle" => writer[p].todo # <<>>
  /\ engine \in [Engines -> EngineState]
  /\ acked \in SUBSET Blockers

\* The chain is the lock.  An append checks and posts in two steps, and no
\* reader looks for repetitions; still no event is in a readable journal
\* twice, whatever writers race, give up, repeat or arrive late and whatever
\* people delete: an entry made from an outdated reading breaks the chain.
RecordedOnce ==
  Readable => \A i, j \in 1..Len(Events) : Events[i] = Events[j] => i = j

\* A write begins only if every denial that was on record before the mutation
\* was started (acknowledged to its writer or, where comments may be deleted,
\* attested by the checkpoint) has been cleared on the head the mutation is
\* made for by evidence of the kind its source demands.
DenialStops ==
  [][\A e \in Engines :
       engine[e].pc # "write" /\ engine'[e].pc = "write" =>
         \A b \in engine[e].known :
           \E i \in 1..Len(Events) :
             LET c == Events[i] IN
             /\ c \in Genuine /\ c.work = b.work /\ c.about = b.ref
             /\ c.kind \in EligibleKind(b.source)
             /\ c.head = engine[e].expected]_vars

\* Work whose denials were migrated is enrolled behind all of them, however
\* often the migration was interrupted, repeated or run twice at once.
MigratedFirst ==
  ~anchored /\ Readable =>
    \A w \in Works, i \in 1..Len(Events) :
      Inventory[w] # <<>> /\ Events[i] = Enrolment[w] =>
        \A j \in 1..Len(Inventory[w]) : Occurs(Inventory[w][j], Before(Events, i))

\* A denial that must be escalated is never washed away by what is recorded
\* after it: no provider is told anything else about that work again.
EscalationSticks ==
  ~anchored /\ Readable =>
    \A b \in acked, c \in Blockers :
      RecoveryAction(b.source) = "ESCALATE_NO_WRITE" =>
        Continuation(Events, b.work, c.provider) = "ESCALATE_NO_WRITE"

\* One writer at a time, every POST answered and nobody else in the issue:
\* the journal stays readable.  It does not: the append of a clearance asks
\* for a denial with its reference, the read for exactly one.
StaysReadable == Readable

=============================================================================
