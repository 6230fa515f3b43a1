------------------------- MODULE WorkRecords_proofs -------------------------
(***************************************************************************)
(* Proofs about two records of the work on issues that outlive a run, for  *)
(* every value of the constants: BlockerJournal, the journal of what       *)
(* blocks a work, and, from `The acceptance loop' on, Workload, the one    *)
(* slot of durable state with the admission ledger beside it.              *)
(* The two share no name, so one module extends both.                      *)
(***************************************************************************)
EXTENDS BlockerJournal, Workload, TLAPS, SequenceTheorems, WellFoundedInduction

-----------------------------------------------------------------------------
(* Data.                                                                    *)

\* The three kinds of events are told apart by their name.
LEMMA EventKinds ==
  /\ \A x \in Payload : x.event = "BLOCKED" => x \in Blockers
  /\ \A x \in Blockers : x \in Payload /\ x.event = "BLOCKED" /\ x.work \in Works
  /\ \A x \in Registrations : x \in Payload /\ x.event = "REGISTERED"
  /\ \A x \in Clearances : x \in Payload /\ x.event = "CLEARED"
  /\ \A w \in Works : /\ Inventory[w] \in Seq(Blockers)
                      /\ Enrolment[w] \in Registrations
                      /\ Enrolment[w].work = w
  BY ConstantsAssumption DEF Payload

\* Appending keeps what occurs and adds the last.
LEMMA OccursInAppend ==
  ASSUME NEW S, NEW s \in Seq(S), NEW y \in S
  PROVE  /\ Append(s, y) \in Seq(S)
         /\ Occurs(y, Append(s, y))
         /\ \A x : Occurs(x, s) => Occurs(x, Append(s, y))
         /\ \A x : Occurs(x, Append(s, y)) => Occurs(x, s) \/ x = y
<1>1. /\ Append(s, y) \in Seq(S) /\ Len(Append(s, y)) = Len(s) + 1
      /\ \A i \in 1..Len(s) : Append(s, y)[i] = s[i]
      /\ Append(s, y)[Len(s) + 1] = y
      /\ Len(s) \in Nat
  BY AppendProperties
<1>. QED
  BY <1>1 DEF Occurs

\* What a sequence contains is its head or in its tail.
LEMMA OccursInTail ==
  ASSUME NEW S, NEW s \in Seq(S), s # <<>>
  PROVE  /\ Head(s) \in S /\ Tail(s) \in Seq(S)
         /\ Head(s) = s[1] /\ Len(s) \in Nat \ {0}
         /\ Len(Tail(s)) = Len(s) - 1
         /\ \A i \in 1..Len(s) - 1 : Tail(s)[i] = s[i + 1]
         /\ \A x : Occurs(x, s) => x = Head(s) \/ Occurs(x, Tail(s))
         /\ \A x : Occurs(x, Tail(s)) => Occurs(x, s)
<1>1. /\ Head(s) \in S /\ Tail(s) \in Seq(S)
      /\ Head(s) = s[1] /\ Len(s) \in Nat \ {0}
      /\ Len(Tail(s)) = Len(s) - 1
      /\ \A i \in 1..Len(s) - 1 : Tail(s)[i] = s[i + 1]
  BY HeadTailProperties, EmptySeq
<1>2. ASSUME NEW x, Occurs(x, s) PROVE x = Head(s) \/ Occurs(x, Tail(s))
  <2>1. PICK i \in 1..Len(s) : s[i] = x
    BY <1>2 DEF Occurs
  <2>2. CASE i = 1
    BY <2>1, <2>2, <1>1
  <2>3. CASE i # 1
    <3>1. i - 1 \in 1..Len(Tail(s)) /\ Tail(s)[i - 1] = x
      BY <2>1, <2>3, <1>1
    <3>. QED
      BY <3>1 DEF Occurs
  <2>. QED
    BY <2>2, <2>3
<1>3. ASSUME NEW x, Occurs(x, Tail(s)) PROVE Occurs(x, s)
  <2>1. PICK i \in 1..Len(Tail(s)) : Tail(s)[i] = x
    BY <1>3 DEF Occurs
  <2>2. i + 1 \in 1..Len(s) /\ s[i + 1] = x
    BY <2>1, <1>1
  <2>. QED
    BY <2>2 DEF Occurs
<1>. QED
  BY <1>1, <1>2, <1>3

\* A sequence of one.
LEMMA OccursInSingle ==
  ASSUME NEW S, NEW y \in S
  PROVE  /\ <<y>> \in Seq(S) /\ <<y>> # <<>> /\ Head(<<y>>) = y
         /\ Tail(<<y>>) = <<>> /\ Len(<<y>>) = 1
         /\ \A x : Occurs(x, <<y>>) => x = y
  BY DEF Occurs

\* A history contains what is in it before a place.
LEMMA BeforeHas ==
  ASSUME NEW S, NEW s \in Seq(S), NEW i \in 1..Len(s), NEW j \in 1..Len(s), i < j
  PROVE  Occurs(s[i], Before(s, j))
<1>. DEFINE n == j - 1
<1>1. Len(s) \in Nat /\ n \in Nat /\ i \in 1..n /\ n - 1 + 1 = n
  BY LenProperties
<1>2. \A k \in 1..n : s[k] \in S
  BY ElementOfSeq, LenProperties
<1>3. Before(s, j) = SubSeq(s, 1, n)
  BY DEF Before
<1>. HIDE DEF n
<1>4. /\ Len(SubSeq(s, 1, n)) = IF 1 <= n THEN n - 1 + 1 ELSE 0
      /\ \A k \in 1..(n - 1 + 1) : SubSeq(s, 1, n)[k] = s[1 + k - 1]
  BY <1>1, <1>2, SubSeqProperties
<1>5. i \in 1..Len(SubSeq(s, 1, n)) /\ SubSeq(s, 1, n)[i] = s[i]
  <2>1. 1 + i - 1 = i /\ 1 <= n
    BY <1>1
  <2>. QED
    BY <1>1, <1>4, <2>1
<1>. QED
  BY <1>3, <1>5 DEF Occurs

\* The payloads of the journal are as many as its comments.
LEMMA EventsOfComments ==
  ASSUME comments \in Seq(Comment)
  PROVE  /\ Events \in Seq(Payload) /\ Len(Events) = Len(comments)
         /\ Len(comments) \in Nat
         /\ \A i \in 1..Len(comments) :
              /\ comments[i] \in Comment
              /\ Events[i] = comments[i].payload
              /\ Events[i] \in Payload
<1>1. Len(comments) \in Nat /\ \A i \in 1..Len(comments) : comments[i] \in Comment
  BY ElementOfSeq, LenProperties
<1>2. \A i \in 1..Len(comments) : comments[i].payload \in Payload
  BY <1>1 DEF Comment
<1>3. /\ Events \in Seq(Payload) /\ Len(Events) = Len(comments)
  BY <1>1, <1>2, IsASeq DEF Events
<1>4. \A i \in 1..Len(comments) : Events[i] = comments[i].payload
  BY DEF Events
<1>. QED
  BY <1>1, <1>2, <1>3, <1>4


-----------------------------------------------------------------------------
(* The inductive invariant.                                                 *)

\* Every denial in the inventory of a work is in one of two histories.
Covered(w, s, todo) ==
  \A j \in 1..Len(Inventory[w]) :
    Occurs(Inventory[w][j], s) \/ Occurs(Inventory[w][j], todo)

\* An entry is made after the history it commits to: it is not in there, and
\* if it ends a migration, what was migrated is.
WellMade(before, x) ==
  /\ ~Occurs(x, before)
  /\ ~anchored => \A w \in Works : x = Enrolment[w] => Covered(w, before, <<>>)

\* A registration is the last a writer has to append.
EnrolsLast(todo) ==
  \A k \in 1..Len(todo) : todo[k].event = "REGISTERED" => k = Len(todo)

\* Whoever is going to enrol a migrated work has the denials that are not in
\* the journal still before him.
EnrolsBehind(todo) ==
  ~anchored =>
    \A w \in Works : Occurs(Enrolment[w], todo) => Covered(w, Events, todo)

GoodWriter(r) ==
  /\ r \in WriterState
  /\ r.pc # "idle" =>
       r.todo # <<>> /\ EnrolsLast(r.todo) /\ EnrolsBehind(r.todo)
  /\ r.pc = "post" => WellMade(r.base, Head(r.todo))

\* What a mutation could have known of is of its work, and is still in the
\* history that its gate will read.
GoodEngine(r) ==
  /\ r \in EngineState
  /\ \A b \in r.known :
       b.work = r.work /\ IF anchored THEN Occurs(b, anchor) ELSE b \in acked

GoodJournal ==
  /\ comments \in Seq(Comment) /\ Len(comments) <= MaxEntries
  /\ limbo \in SUBSET Comment
  /\ \A i \in 1..Len(comments) : WellMade(comments[i].previous, comments[i].payload)
  /\ \A c \in limbo : WellMade(c.previous, c.payload)

GoodOutside ==
  /\ anchored \in BOOLEAN /\ anchor \in Seq(Payload)
  /\ deleted \in 0..MaxDeletions /\ head \in 1..MaxHead

\* What was acknowledged is on record.
GoodAcked ==
  /\ acked \in SUBSET Blockers
  /\ ~anchored => \A b \in acked : Occurs(b, Events)

Invariant ==
  /\ GoodJournal /\ GoodOutside /\ GoodAcked
  /\ writer \in [Writers -> WriterState]
  /\ \A p \in Writers : GoodWriter(writer[p])
  /\ engine \in [Engines -> EngineState]
  /\ \A e \in Engines : GoodEngine(engine[e])

-----------------------------------------------------------------------------
(* Steps of a writer that leave the journal alone.                          *)

\* A writer takes a good state, and what it acknowledges is on record.
GoesOn(p) ==
  \E r : /\ GoodWriter(r) /\ writer' = [writer EXCEPT ![p] = r]
         /\ acked' \in SUBSET Blockers /\ acked \subseteq acked'
         /\ ~anchored => \A b \in acked' : Occurs(b, Events)

LEMMA IdleIsGood == GoodWriter(WriterIdle)
<1>1. <<>> \in Seq(Payload)
  BY EmptySeq
<1>. QED
  BY <1>1 DEF GoodWriter, WriterIdle, WriterState

LEMMA GoesOnStep ==
  ASSUME Invariant, NEW p \in Writers, GoesOn(p),
         UNCHANGED <<journal, outside, engine>>
  PROVE  Invariant'
<1>. USE DEF journal, outside
<1>1. PICK r : /\ GoodWriter(r) /\ writer' = [writer EXCEPT ![p] = r]
               /\ acked' \in SUBSET Blockers /\ acked \subseteq acked'
               /\ ~anchored => \A b \in acked' : Occurs(b, Events)
  BY DEF GoesOn
<1>2. /\ comments' = comments /\ limbo' = limbo /\ anchored' = anchored
      /\ anchor' = anchor /\ deleted' = deleted /\ head' = head
      /\ engine' = engine
  OBVIOUS
<1>3. Events' = Events
  BY <1>2 DEF Events
<1>4. GoodJournal' /\ GoodOutside'
  BY <1>2 DEF Invariant, GoodJournal, GoodOutside, WellMade, Covered, Occurs
<1>5. GoodAcked'
  BY <1>1, <1>2, <1>3 DEF GoodAcked, Occurs
<1>7. /\ writer' \in [Writers -> WriterState]
      /\ \A q \in Writers : GoodWriter(writer[q])'
  <2>1. /\ writer \in [Writers -> WriterState] /\ r \in WriterState
        /\ \A q \in Writers : GoodWriter(writer[q])
    BY <1>1 DEF Invariant, GoodWriter
  <2>2. \A q \in Writers : writer'[q] = IF q = p THEN r ELSE writer[q]
    BY <1>1, <2>1
  <2>3. ASSUME NEW q \in Writers PROVE GoodWriter(writer'[q])
    BY <1>1, <2>1, <2>2
  <2>4. \A q \in Writers : writer'[q] \in WriterState \cup {r}
    BY <2>1, <2>2
  <2>5. ASSUME NEW q \in Writers PROVE GoodWriter(writer[q])'
    <3>1. GoodWriter(writer'[q])
      BY <2>3
    <3>2. anchored' = anchored
      BY <1>2
    <3>3. \A todo : EnrolsBehind(todo) => EnrolsBehind(todo)'
      BY <1>3, <3>2 DEF EnrolsBehind, Covered, Occurs
    <3>4. \A before, x : WellMade(before, x) => WellMade(before, x)'
      BY <3>2 DEF WellMade, Covered, Occurs
    <3>. QED
      BY <3>1, <3>3, <3>4 DEF GoodWriter, EnrolsLast
  <2>. QED
    BY <1>1, <2>1, <2>5
<1>8. /\ engine' \in [Engines -> EngineState]
      /\ \A e \in Engines : GoodEngine(engine[e])'
  BY <1>1, <1>2 DEF Invariant, GoodEngine, Occurs
<1>. QED
  BY <1>4, <1>5, <1>7, <1>8 DEF Invariant

\* Moving on with the same list, or giving up, is good.
LEMMA GoStep ==
  ASSUME Invariant, NEW p \in Writers, NEW pc \in {"append", "import"},
         NEW todo \in Seq(Payload), todo # <<>>,
         EnrolsLast(todo), EnrolsBehind(todo), Go(p, pc, todo)
  PROVE  GoesOn(p)
<1>. DEFINE r == [pc |-> pc, todo |-> todo, base |-> <<>>]
<1>1. GoodWriter(r)
  BY EmptySeq DEF GoodWriter, WriterState
<1>. QED
  BY <1>1 DEF GoesOn, Go, Invariant, GoodAcked

\* The rest of a good list is good, once its head is recorded.
LEMMA TailIsGood ==
  ASSUME Invariant, NEW todo \in Seq(Payload), todo # <<>>,
         EnrolsLast(todo), EnrolsBehind(todo), Occurs(Head(todo), Events)
  PROVE  EnrolsLast(Tail(todo)) /\ EnrolsBehind(Tail(todo))
<1>1. EnrolsLast(Tail(todo))
  BY OccursInTail DEF EnrolsLast
<1>2. ASSUME ~anchored, NEW w \in Works, Occurs(Enrolment[w], Tail(todo))
      PROVE  Covered(w, Events, Tail(todo))
  <2>1. Occurs(Enrolment[w], todo)
    BY <1>2, OccursInTail
  <2>2. Covered(w, Events, todo)
    BY <1>2, <2>1 DEF EnrolsBehind
  <2>. QED
    BY <2>2, OccursInTail DEF Covered
<1>. QED
  BY <1>1, <1>2 DEF EnrolsBehind

LEMMA DoneStep ==
  ASSUME Invariant, NEW p \in Writers, NEW todo \in Seq(Payload), todo # <<>>,
         EnrolsLast(todo), EnrolsBehind(todo), Occurs(Head(todo), Events),
         Done(p, todo)
  PROVE  GoesOn(p)
<1>. DEFINE r == IF Tail(todo) = <<>> THEN WriterIdle
                 ELSE [pc |-> "import", todo |-> Tail(todo), base |-> <<>>]
<1>1. writer' = [writer EXCEPT ![p] = r]
  BY DEF Done
<1>2. GoodWriter(r)
  <2>1. Tail(todo) \in Seq(Payload)
    BY OccursInTail
  <2>. QED
    BY <2>1, IdleIsGood, TailIsGood, EmptySeq DEF GoodWriter, WriterState
<1>3. /\ acked' \in SUBSET Blockers /\ acked \subseteq acked'
      /\ ~anchored => \A b \in acked' : Occurs(b, Events)
  <2>1. Head(todo).event = "BLOCKED" => Head(todo) \in Blockers
    BY OccursInTail, EventKinds
  <2>. QED
    BY <2>1 DEF Done, Invariant, GoodAcked
<1>. QED
  BY <1>1, <1>2, <1>3 DEF GoesOn

LEMMA ReadForStep ==
  ASSUME Invariant, NEW p \in Writers, NEW todo \in Seq(Payload), todo # <<>>,
         EnrolsLast(todo), EnrolsBehind(todo), ReadFor(p, todo)
  PROVE  GoesOn(p)
<1>1. CASE Occurs(Head(todo), Events) /\ Done(p, todo)
  BY <1>1, DoneStep
<1>2. CASE /\ Permitted(Events, Head(todo)) /\ UNCHANGED acked
           /\ writer' = [writer EXCEPT
                ![p] = [pc |-> "post", todo |-> todo, base |-> Events]]
  <2>. DEFINE r == [pc |-> "post", todo |-> todo, base |-> Events]
  <2>1. ASSUME ~anchored, NEW w \in Works, Head(todo) = Enrolment[w]
        PROVE  Covered(w, Events, <<>>)
    <3>1. Len(todo) = 1 /\ Occurs(Enrolment[w], todo)
      <4>1. 1 \in 1..Len(todo) /\ todo[1] = Enrolment[w]
        BY <2>1, OccursInTail
      <4>2. Enrolment[w].event = "REGISTERED"
        BY EventKinds
      <4>. QED
        BY <4>1, <4>2 DEF EnrolsLast, Occurs
    <3>2. Covered(w, Events, todo)
      BY <2>1, <3>1 DEF EnrolsBehind
    <3>3. \A x : Occurs(x, todo) => x = Enrolment[w]
      BY <2>1, <3>1, OccursInTail DEF Occurs
    <3>4. \A j \in 1..Len(Inventory[w]) : Inventory[w][j] \in Blockers
      BY EventKinds, ElementOfSeq
    <3>5. \A j \in 1..Len(Inventory[w]) : Inventory[w][j] # Enrolment[w]
      BY <3>4, EventKinds
    <3>. QED
      BY <3>2, <3>3, <3>5 DEF Covered
  <2>2. WellMade(Events, Head(todo))
    BY <1>2, <2>1 DEF WellMade, Permitted
  <2>3. GoodWriter(r)
    BY <2>2, EventsOfComments DEF GoodWriter, WriterState, Invariant, GoodJournal
  <2>. QED
    BY <1>2, <2>3 DEF GoesOn, Invariant, GoodAcked
<1>. QED
  BY <1>1, <1>2 DEF ReadFor

-----------------------------------------------------------------------------
(* Steps of the journal.                                                    *)

\* An entry at the end of the journal spoils nothing.
LEMMA AppendStep ==
  ASSUME Invariant, NEW c \in Comment, WellMade(c.previous, c.payload),
         Len(comments) < MaxEntries, comments' = Append(comments, c),
         limbo' \in SUBSET limbo, UNCHANGED <<outside, engine, acked>>,
         writer' \in [Writers -> WriterState],
         \A q \in Writers : GoodWriter(writer'[q])
  PROVE  Invariant'
<1>. USE DEF outside
<1>1. /\ comments' \in Seq(Comment) /\ Len(comments') = Len(comments) + 1
      /\ Len(comments) \in Nat /\ MaxEntries \in Nat
      /\ \A i \in 1..Len(comments) : comments'[i] = comments[i]
      /\ comments'[Len(comments) + 1] = c
  BY AppendProperties, LenProperties, ConstantsAssumption
     DEF Invariant, GoodJournal
<1>2. \A x : Occurs(x, Events) => Occurs(x, Events')
  <2>1. /\ Len(Events) = Len(comments) /\ Len(Events') = Len(comments')
        /\ \A i \in 1..Len(comments) : Events[i] = comments[i].payload
        /\ \A i \in 1..Len(comments') : Events'[i] = comments'[i].payload
    BY <1>1 DEF Events
  <2>. QED
    BY <1>1, <2>1 DEF Occurs
<1>3. GoodJournal'
  <2>1. \A i \in 1..Len(comments') :
          WellMade(comments'[i].previous, comments'[i].payload)
    BY <1>1 DEF Invariant, GoodJournal
  <2>2. \A d \in limbo' : WellMade(d.previous, d.payload)
    BY DEF Invariant, GoodJournal
  <2>. QED
    BY <1>1, <2>1, <2>2 DEF Invariant, GoodJournal, WellMade, Covered, Occurs
<1>4. GoodOutside' /\ GoodAcked'
  BY <1>2 DEF Invariant, GoodOutside, GoodAcked, Occurs
<1>5. ASSUME NEW q \in Writers PROVE GoodWriter(writer[q])'
  <2>1. GoodWriter(writer'[q])
    OBVIOUS
  <2>2. ASSUME ~anchored', NEW w \in Works, writer'[q].pc # "idle",
               Occurs(Enrolment[w], writer'[q].todo)
        PROVE  Covered(w, Events', writer'[q].todo)
    <3>1. Covered(w, Events, writer'[q].todo)
      BY <2>1, <2>2 DEF GoodWriter, EnrolsBehind
    <3>. QED
      BY <3>1, <1>2 DEF Covered
  <2>3. writer'[q].pc # "idle" => EnrolsBehind(writer[q].todo)'
    BY <2>2 DEF EnrolsBehind, Covered, Occurs
  <2>4. writer'[q].pc = "post" => WellMade(writer[q].base, Head(writer[q].todo))'
    BY <2>1 DEF GoodWriter, WellMade, Covered, Occurs
  <2>. QED
    BY <2>1, <2>3, <2>4 DEF GoodWriter, EnrolsLast
<1>6. /\ engine' \in [Engines -> EngineState]
      /\ \A e \in Engines : GoodEngine(engine[e])'
  BY DEF Invariant, GoodEngine, Occurs
<1>. QED
  BY <1>3, <1>4, <1>5, <1>6 DEF Invariant

LEMMA EntryIsGood ==
  ASSUME Invariant, NEW p \in Writers, writer[p].pc = "post"
  PROVE  /\ Entry(p) \in Comment
         /\ WellMade(Entry(p).previous, Entry(p).payload)
<1>1. GoodWriter(writer[p])
  BY DEF Invariant
<1>2. Head(writer[p].todo) \in Payload
  BY <1>1, OccursInTail DEF GoodWriter, WriterState
<1>. QED
  BY <1>1, <1>2 DEF Entry, Comment, GoodWriter, WriterState

LEMMA PostStep ==
  ASSUME Invariant, NEW p \in Writers, Post(p)
  PROVE  Invariant'
<1>. DEFINE r == [writer[p] EXCEPT !.pc = "verify"]
<1>1. GoodWriter(writer[p]) /\ writer[p].pc = "post"
  BY DEF Invariant, Post
<1>2. GoodWriter(r)
  BY <1>1 DEF GoodWriter, WriterState
<1>3. writer' = [writer EXCEPT ![p] = r]
  BY DEF Post
<1>4. /\ writer' \in [Writers -> WriterState]
      /\ \A q \in Writers : GoodWriter(writer'[q])
  BY <1>2, <1>3 DEF Invariant, GoodWriter
<1>. QED
  BY <1>1, <1>4, EntryIsGood, AppendStep DEF Post

LEMMA LatePostStep ==
  ASSUME Invariant, LatePost
  PROVE  Invariant'
<1>1. PICK c \in limbo : comments' = Append(comments, c)
  BY DEF LatePost
<1>2. c \in Comment /\ WellMade(c.previous, c.payload)
  BY DEF Invariant, GoodJournal
<1>. QED
  BY <1>1, <1>2, AppendStep DEF LatePost, Invariant

LEMMA PostTimesOutStep ==
  ASSUME Invariant, NEW p \in Writers, PostTimesOut(p)
  PROVE  Invariant'
<1>1. UNCHANGED <<comments, outside, engine, acked>>
  BY DEF PostTimesOut
<1>2. Events' = Events
  BY <1>1 DEF Events
<1>3. GoodJournal'
  <2>1. limbo' = {Entry(p)} /\ writer[p].pc = "post"
    BY DEF PostTimesOut
  <2>2. limbo' \in SUBSET Comment
        /\ \A c \in limbo' : WellMade(c.previous, c.payload)
    BY <2>1, EntryIsGood
  <2>3. anchored' = anchored /\ comments' = comments
    BY <1>1 DEF outside
  <2>4. \A b, x : WellMade(b, x) => WellMade(b, x)'
    BY <2>3 DEF WellMade, Covered, Occurs
  <2>5. GoodJournal
    BY DEF Invariant
  <2>. QED
    BY <2>2, <2>3, <2>4, <2>5 DEF GoodJournal
<1>4. /\ GoodOutside' /\ GoodAcked'
      /\ engine' \in [Engines -> EngineState]
      /\ \A e \in Engines : GoodEngine(engine[e])'
  BY <1>1, <1>2
     DEF Invariant, GoodOutside, GoodAcked, GoodEngine, Occurs, outside
<1>5. /\ writer' \in [Writers -> WriterState]
      /\ \A q \in Writers : GoodWriter(writer'[q])
  BY IdleIsGood DEF PostTimesOut, Invariant, GoodWriter
<1>6. ASSUME NEW q \in Writers PROVE GoodWriter(writer[q])'
  BY <1>1, <1>2, <1>5
     DEF GoodWriter, EnrolsLast, EnrolsBehind, WellMade, Covered, Occurs, outside
<1>. QED
  BY <1>3, <1>4, <1>5, <1>6 DEF Invariant

\* Without a checkpoint nothing is deleted, so nothing that was on record is
\* lost; with one the journal shrinks to a journal.
LEMMA DeleteLastStep ==
  ASSUME Invariant, DeleteLast
  PROVE  Invariant'
<1>1. /\ anchored /\ UNCHANGED <<limbo, anchored, anchor, head, writer, engine, acked>>
      /\ deleted' \in 0..MaxDeletions
  BY ConstantsAssumption DEF DeleteLast, Invariant, GoodOutside
<1>2. /\ comments' \in Seq(Comment) /\ Len(comments') <= Len(comments)
      /\ \A i \in 1..Len(comments') : i \in 1..Len(comments)
                                      /\ comments'[i] = comments[i]
      /\ Len(comments) \in Nat /\ Len(comments') \in Nat
  <2>1. /\ comments \in Seq(Comment) /\ comments # <<>>
        /\ comments' = SubSeq(comments, 1, Len(comments) - 1)
    BY DEF DeleteLast, Before, Invariant, GoodJournal
  <2>2. Len(comments) \in Nat \ {0}
    BY <2>1, OccursInTail
  <2>. DEFINE n == Len(comments) - 1
  <2>3. n \in Nat /\ \A i \in 1..n : comments[i] \in Comment
    BY <2>1, <2>2, ElementOfSeq
  <2>. HIDE DEF n
  <2>4. /\ SubSeq(comments, 1, n) \in Seq(Comment)
        /\ Len(SubSeq(comments, 1, n)) = IF 1 <= n THEN n - 1 + 1 ELSE 0
        /\ \A i \in 1..(n - 1 + 1) : SubSeq(comments, 1, n)[i] = comments[1 + i - 1]
    BY <2>3, SubSeqProperties
  <2>5. comments' = SubSeq(comments, 1, n)
    BY <2>1 DEF n
  <2>6. n - 1 + 1 = n /\ (IF 1 <= n THEN n - 1 + 1 ELSE 0) = n
    BY <2>3
  <2>7. Len(comments') = n
    BY <2>4, <2>5, <2>6
  <2>8. ASSUME NEW i \in 1..n PROVE comments'[i] = comments[i]
    <3>1. 1 + i - 1 = i
      BY <2>3
    <3>. QED
      BY <2>4, <2>5, <2>6, <3>1
  <2>9. n < Len(comments) /\ \A i \in 1..n : i \in 1..Len(comments)
    BY <2>2 DEF n
  <2>. QED
    BY <2>2, <2>3, <2>4, <2>5, <2>7, <2>8, <2>9
<1>3. GoodJournal'
  <2>1. Len(comments') <= MaxEntries
    BY <1>2, ConstantsAssumption DEF Invariant, GoodJournal
  <2>2. \A i \in 1..Len(comments') :
          WellMade(comments'[i].previous, comments'[i].payload)
    BY <1>2 DEF Invariant, GoodJournal
  <2>. QED
    BY <1>1, <1>2, <2>1, <2>2
       DEF Invariant, GoodJournal, WellMade, Covered, Occurs
<1>4. /\ GoodOutside' /\ GoodAcked'
      /\ engine' \in [Engines -> EngineState]
      /\ \A e \in Engines : GoodEngine(engine[e])'
  BY <1>1 DEF Invariant, GoodOutside, GoodAcked, GoodEngine, Occurs
<1>5. \A q \in Writers : GoodWriter(writer[q])'
  BY <1>1 DEF Invariant, GoodWriter, EnrolsLast, EnrolsBehind, WellMade, Occurs
<1>. QED
  BY <1>1, <1>3, <1>4, <1>5 DEF Invariant

-----------------------------------------------------------------------------
(* Steps of the engines and of the world around the journal.                *)

LEMMA OutsideStep ==
  ASSUME Invariant, UNCHANGED <<journal, anchored, deleted, writer, engine, acked>>,
         anchor' \in Seq(Payload), head' \in 1..MaxHead,
         \A b : Occurs(b, anchor) => Occurs(b, anchor')
  PROVE  Invariant'
<1>. USE DEF journal
<1>1. Events' = Events
  BY DEF Events
<1>2. GoodJournal' /\ GoodOutside' /\ GoodAcked'
  BY <1>1 DEF Invariant, GoodJournal, GoodOutside, GoodAcked, WellMade,
              Covered, Occurs
<1>3. \A q \in Writers : GoodWriter(writer[q])'
  BY <1>1 DEF Invariant, GoodWriter, EnrolsLast, EnrolsBehind, WellMade,
              Covered, Occurs
<1>4. ASSUME NEW e \in Engines PROVE GoodEngine(engine[e])'
  BY DEF Invariant, GoodEngine, Occurs
<1>. QED
  BY <1>2, <1>3, <1>4 DEF Invariant

LEMMA MoveHeadStep ==
  ASSUME Invariant, MoveHead
  PROVE  Invariant'
<1>1. head' \in 1..MaxHead /\ anchor \in Seq(Payload)
  BY ConstantsAssumption DEF MoveHead, Invariant, GoodOutside
<1>2. anchor' = anchor
  BY DEF MoveHead
<1>. QED
  BY <1>1, <1>2, OutsideStep DEF MoveHead

LEMMA AdvanceAnchorStep ==
  ASSUME Invariant, AdvanceAnchor
  PROVE  Invariant'
<1>1. /\ Events \in Seq(Payload) /\ anchor \in Seq(Payload)
      /\ head \in 1..MaxHead
  BY EventsOfComments DEF Invariant, GoodJournal, GoodOutside
<1>2. /\ Len(anchor) \in Nat /\ Len(Events) \in Nat /\ Len(anchor) < Len(Events)
      /\ SubSeq(Events, 1, Len(anchor)) = anchor /\ anchor' = Events
  BY <1>1, LenProperties DEF AdvanceAnchor
<1>3. \A i \in 1..Len(anchor) : anchor[i] = Events[i] /\ i \in 1..Len(Events)
  <2>1. \A i \in 1..Len(anchor) : Events[i] \in Payload
    BY <1>1, <1>2, ElementOfSeq
  <2>2. \A i \in 1..(Len(anchor) - 1 + 1) :
          SubSeq(Events, 1, Len(anchor))[i] = Events[1 + i - 1]
    BY <1>2, <2>1, SubSeqProperties
  <2>. QED
    BY <1>2, <2>2
<1>4. \A b : Occurs(b, anchor) => Occurs(b, anchor')
  BY <1>2, <1>3 DEF Occurs
<1>. QED
  BY <1>1, <1>2, <1>4, OutsideStep DEF AdvanceAnchor

LEMMA EngineStep ==
  ASSUME Invariant, NEW e \in Engines, NEW r, GoodEngine(r),
         engine' = [engine EXCEPT ![e] = r],
         UNCHANGED <<journal, outside, writer, acked>>
  PROVE  Invariant'
<1>. USE DEF journal, outside
<1>1. Events' = Events
  BY DEF Events
<1>2. GoodJournal' /\ GoodOutside' /\ GoodAcked'
  BY <1>1 DEF Invariant, GoodJournal, GoodOutside, GoodAcked, WellMade,
              Covered, Occurs
<1>3. \A q \in Writers : GoodWriter(writer[q])'
  BY <1>1 DEF Invariant, GoodWriter, EnrolsLast, EnrolsBehind, WellMade,
              Covered, Occurs
<1>4. /\ engine' \in [Engines -> EngineState]
      /\ \A f \in Engines : GoodEngine(engine'[f])
  BY DEF Invariant, GoodEngine
<1>5. ASSUME NEW f \in Engines PROVE GoodEngine(engine[f])'
  BY <1>4 DEF GoodEngine, Occurs
<1>. QED
  BY <1>2, <1>3, <1>4, <1>5 DEF Invariant

LEMMA GateHeadStep ==
  ASSUME Invariant, NEW e \in Engines, NEW w \in Works, GateHead(e, w)
  PROVE  Invariant'
<1>. DEFINE known == IF anchored THEN {anchor[i] : i \in BlockersOf(anchor, w)}
                     ELSE {x \in acked : x.work = w}
            r == [pc |-> "gate", work |-> w, expected |-> head, known |-> known]
<1>1. ASSUME anchored, NEW b \in known
      PROVE  b \in Blockers /\ b.work = w /\ Occurs(b, anchor)
  <2>1. PICK i \in 1..Len(anchor) :
          anchor[i] = b /\ b.event = "BLOCKED" /\ b.work = w
    BY <1>1 DEF BlockersOf
  <2>2. anchor[i] \in Payload
    BY ElementOfSeq DEF Invariant, GoodOutside
  <2>. QED
    BY <2>1, <2>2, EventKinds DEF Occurs
<1>2. ASSUME ~anchored, NEW b \in known
      PROVE  b \in Blockers /\ b.work = w /\ b \in acked
  BY <1>2 DEF Invariant, GoodAcked
<1>3. head \in 0..MaxHead
  BY DEF Invariant, GoodOutside
<1>4. known \in SUBSET Blockers
  BY <1>1, <1>2
<1>. HIDE DEF known
<1>5. GoodEngine(r)
  BY <1>1, <1>2, <1>3, <1>4 DEF GoodEngine, EngineState
<1>6. engine' = [engine EXCEPT ![e] = r]
  BY DEF GateHead, known
<1>. HIDE DEF r
<1>. QED
  BY <1>5, <1>6, EngineStep DEF GateHead

LEMMA GateJournalStep ==
  ASSUME Invariant, NEW e \in Engines, GateJournal(e)
  PROVE  Invariant'
<1>. DEFINE r == [engine[e] EXCEPT !.pc = "write"]
<1>1. GoodEngine(r)
  BY DEF Invariant, GoodEngine, EngineState
<1>2. engine' = [engine EXCEPT ![e] = r]
  BY DEF GateJournal
<1>. QED
  BY <1>1, <1>2, EngineStep DEF GateJournal

LEMMA EngineEndsStep ==
  ASSUME Invariant, NEW e \in Engines, EngineEnds(e)
  PROVE  Invariant'
<1>1. GoodEngine(EngineIdle)
  BY ConstantsAssumption DEF GoodEngine, EngineIdle, EngineState
<1>. QED
  BY <1>1, EngineStep DEF EngineEnds

-----------------------------------------------------------------------------
(* Steps of the writers that only read.                                     *)

LEMMA ListOf ==
  ASSUME Invariant, NEW p \in Writers, writer[p].pc # "idle"
  PROVE  /\ writer[p].todo \in Seq(Payload) /\ writer[p].todo # <<>>
         /\ EnrolsLast(writer[p].todo) /\ EnrolsBehind(writer[p].todo)
  BY DEF Invariant, GoodWriter, WriterState

\* One event that does not end a migration is a good list.
LEMMA SingleIsGood ==
  ASSUME NEW x \in Payload, \A w \in Works : x # Enrolment[w]
  PROVE  /\ <<x>> \in Seq(Payload) /\ <<x>> # <<>> /\ Head(<<x>>) = x
         /\ EnrolsLast(<<x>>) /\ EnrolsBehind(<<x>>)
<1>1. /\ <<x>> \in Seq(Payload) /\ <<x>> # <<>> /\ Head(<<x>>) = x
      /\ Len(<<x>>) = 1 /\ \A y : Occurs(y, <<x>>) => y = x
  BY OccursInSingle
<1>. QED
  BY <1>1 DEF EnrolsLast, EnrolsBehind

LEMMA RecordEventStep ==
  ASSUME Invariant, NEW p \in Writers, NEW x \in Blockers \cup Clearances,
         RecordEvent(p, x)
  PROVE  Invariant'
<1>1. x \in Payload /\ \A w \in Works : x # Enrolment[w]
  BY EventKinds
<1>. QED
  BY <1>1, SingleIsGood, ReadForStep, GoesOnStep DEF RecordEvent

LEMMA RegisterWorkStep ==
  ASSUME Invariant, NEW p \in Writers,
         NEW x \in Registrations \ {Enrolment[w] : w \in Works},
         RegisterWork(p, x)
  PROVE  Invariant'
<1>1. x \in Payload /\ \A w \in Works : x # Enrolment[w]
  BY EventKinds
<1>. QED
  BY <1>1, SingleIsGood, GoStep, GoesOnStep DEF RegisterWork

LEMMA AppendReadStep ==
  ASSUME Invariant, NEW p \in Writers, AppendRead(p)
  PROVE  Invariant'
  BY ListOf, ReadForStep, GoesOnStep DEF AppendRead

LEMMA VerifyStep ==
  ASSUME Invariant, NEW p \in Writers, Verify(p)
  PROVE  Invariant'
<1>1. /\ writer[p].pc # "idle" /\ writer[p].base \in Seq(Payload)
      /\ Events = Append(writer[p].base, Head(writer[p].todo))
  BY DEF Verify, Invariant, GoodWriter, WriterState
<1>2. Head(writer[p].todo) \in Payload
  BY <1>1, ListOf, OccursInTail
<1>3. Occurs(Head(writer[p].todo), Events)
  BY <1>1, <1>2, OccursInAppend
<1>. QED
  BY <1>1, <1>3, ListOf, DoneStep, GoesOnStep DEF Verify

LEMMA GiveUpStep ==
  ASSUME Invariant, NEW p \in Writers, GiveUp(p)
  PROVE  Invariant'
<1>1. GoesOn(p)
  BY IdleIsGood DEF GoesOn, GiveUp, Invariant, GoodAcked
<1>. QED
  BY <1>1, GoesOnStep DEF GiveUp

\* The whole inventory and then the enrolment is a good list.
LEMMA MigrationIsGood ==
  ASSUME NEW w \in Works
  PROVE  LET todo == Append(Inventory[w], Enrolment[w]) IN
         /\ todo \in Seq(Payload) /\ todo # <<>>
         /\ EnrolsLast(todo) /\ EnrolsBehind(todo)
<1>. DEFINE todo == Append(Inventory[w], Enrolment[w])
<1>1. /\ Inventory[w] \in Seq(Payload) /\ Enrolment[w] \in Payload
      /\ Len(Inventory[w]) \in Nat
      /\ \A i \in 1..Len(Inventory[w]) : Inventory[w][i] \in Blockers
  <2>1. Inventory[w] \in Seq(Blockers) /\ Blockers \subseteq Payload
    BY EventKinds
  <2>2. Inventory[w] \in Seq(Payload)
    BY <2>1, SeqMonotonic
  <2>. QED
    BY <2>1, <2>2, EventKinds, ElementOfSeq, LenProperties
<1>2. /\ todo \in Seq(Payload) /\ Len(todo) = Len(Inventory[w]) + 1
      /\ \A i \in 1..Len(Inventory[w]) : todo[i] = Inventory[w][i]
  BY <1>1, AppendProperties
<1>3. todo # <<>>
  <2>1. Len(todo) # 0 /\ Len(<<>>) = 0
    BY <1>1, <1>2
  <2>. HIDE DEF todo
  <2>. QED
    BY <2>1
<1>4. EnrolsLast(todo)
  <2>1. \A k \in 1..Len(todo) : k = Len(todo) \/ k \in 1..Len(Inventory[w])
    BY <1>1, <1>2
  <2>2. \A k \in 1..Len(Inventory[w]) : todo[k].event = "BLOCKED"
    BY <1>1, <1>2, EventKinds
  <2>. QED
    BY <2>1, <2>2 DEF EnrolsLast
<1>5. ASSUME NEW v \in Works, Occurs(Enrolment[v], todo)
      PROVE  Covered(v, Events, todo)
  <2>1. ~Occurs(Enrolment[v], Inventory[w])
    BY <1>1, EventKinds DEF Occurs
  <2>2. Enrolment[v] = Enrolment[w]
    BY <1>1, <1>5, <2>1, OccursInAppend
  <2>3. v = w
    BY <2>2, EventKinds
  <2>4. \A j \in 1..Len(Inventory[w]) : Occurs(Inventory[w][j], Inventory[w])
    BY DEF Occurs
  <2>. QED
    BY <1>1, <2>3, <2>4, OccursInAppend DEF Covered
<1>. QED
  BY <1>2, <1>3, <1>4, <1>5 DEF EnrolsBehind

LEMMA MigrateStep ==
  ASSUME Invariant, NEW p \in Writers, NEW w \in Works, Migrate(p, w)
  PROVE  Invariant'
<1>. DEFINE todo == Append(Inventory[w], Enrolment[w])
<1>1. /\ todo \in Seq(Payload) /\ todo # <<>>
      /\ EnrolsLast(todo) /\ EnrolsBehind(todo)
  BY MigrationIsGood
<1>2. Go(p, "import", todo) /\ UNCHANGED <<journal, outside, engine>>
  BY DEF Migrate
<1>. HIDE DEF todo
<1>. QED
  BY <1>1, <1>2, GoStep, GoesOnStep

LEMMA ImportStep ==
  ASSUME Invariant, NEW p \in Writers, Import(p)
  PROVE  Invariant'
<1>. DEFINE todo == writer[p].todo
<1>1. /\ todo \in Seq(Payload) /\ todo # <<>>
      /\ EnrolsLast(todo) /\ EnrolsBehind(todo)
  BY ListOf DEF Import
<1>2. UNCHANGED <<journal, outside, engine>>
  BY DEF Import
<1>3. CASE Go(p, "append", todo)
  BY <1>1, <1>2, <1>3, GoStep, GoesOnStep
<1>4. CASE /\ \E i \in Denials(Events, Head(todo).work, Head(todo).ref) :
                Events[i] = Head(todo)
           /\ Done(p, todo)
  <2>1. Occurs(Head(todo), Events)
    BY <1>4 DEF Denials, Occurs
  <2>. QED
    BY <1>1, <1>2, <1>4, <2>1, DoneStep, GoesOnStep
<1>. QED
  BY <1>3, <1>4 DEF Import

-----------------------------------------------------------------------------
(* The invariant holds.                                                     *)

LEMMA InitialInvariant == Init => Invariant
<1>. SUFFICES ASSUME Init PROVE Invariant
  OBVIOUS
<1>1. <<>> \in Seq(Payload) /\ <<>> \in Seq(Comment) /\ Len(<<>>) = 0
  BY EmptySeq
<1>2. GoodJournal /\ GoodOutside /\ GoodAcked
  BY <1>1, ConstantsAssumption DEF Init, GoodJournal, GoodOutside, GoodAcked
<1>3. \A p \in Writers : GoodWriter(writer[p])
  BY IdleIsGood DEF Init
<1>4. \A e \in Engines : GoodEngine(engine[e])
  BY ConstantsAssumption DEF Init, EngineIdle, GoodEngine, EngineState
<1>. QED
  BY <1>2, <1>3, <1>4 DEF Init, Invariant, GoodWriter, GoodEngine

LEMMA InvariantStep ==
  ASSUME Invariant, [Next]_vars
  PROVE  Invariant'
<1>1. CASE UNCHANGED vars
  <2>1. Events' = Events
    BY <1>1 DEF vars, journal, Events
  <2>2. UNCHANGED <<journal, anchored, deleted, writer, engine, acked>>
        /\ anchor' = anchor /\ head' = head
    BY <1>1 DEF vars, outside
  <2>. QED
    BY <2>2, OutsideStep DEF Invariant, GoodOutside
<1>2. ASSUME NEW p \in Writers, Write(p) PROVE Invariant'
  BY <1>2, RecordEventStep, RegisterWorkStep, AppendReadStep, PostStep,
     PostTimesOutStep, VerifyStep, MigrateStep, ImportStep, GiveUpStep
     DEF Write
<1>3. CASE LatePost
  BY <1>3, LatePostStep
<1>4. ASSUME NEW e \in Engines, Mutate(e) PROVE Invariant'
  BY <1>4, GateHeadStep, GateJournalStep, EngineEndsStep DEF Mutate
<1>5. CASE MoveHead \/ AdvanceAnchor \/ DeleteLast
  BY <1>5, MoveHeadStep, AdvanceAnchorStep, DeleteLastStep
<1>. QED
  BY <1>1, <1>2, <1>3, <1>4, <1>5 DEF Next

LEMMA AlwaysInvariant == Spec => []Invariant
  BY InitialInvariant, InvariantStep, PTL DEF Spec

-----------------------------------------------------------------------------
(* What follows from it.                                                    *)

\* Every reachable state is well typed.
THEOREM TypeCorrect == Spec => []TypeOK
<1>1. Invariant => TypeOK
  BY DEF Invariant, GoodJournal, GoodOutside, GoodAcked, GoodWriter, TypeOK
<1>. QED
  BY <1>1, AlwaysInvariant, PTL

\* The chain is the lock of the journal: whatever writers race, give up or
\* arrive late, no readable journal has an event twice (_append, read).
THEOREM EventsAreRecordedOnce == Spec => []RecordedOnce
<1>1. Invariant => RecordedOnce
  <2>. SUFFICES ASSUME Invariant, Readable,
                       NEW i \in 1..Len(Events), NEW j \in 1..Len(Events),
                       Events[i] = Events[j], i < j
                PROVE  FALSE
    BY EventsOfComments DEF RecordedOnce, Invariant, GoodJournal
  <2>1. /\ Len(Events) = Len(comments) /\ Len(Events) \in Nat
        /\ Events \in Seq(Payload)
        /\ comments[j].payload = Events[j]
    BY EventsOfComments DEF Invariant, GoodJournal
  <2>2. comments[j].previous = Before(Events, j)
    BY <2>1 DEF Readable
  <2>3. ~Occurs(Events[j], Before(Events, j))
    BY <2>1, <2>2 DEF Invariant, GoodJournal, WellMade
  <2>4. Occurs(Events[i], Before(Events, j))
    BY <2>1, BeforeHas
  <2>. QED
    BY <2>3, <2>4
<1>. QED
  BY <1>1, AlwaysInvariant, PTL

\* A migration enrols its work behind all of its denials, however often it is
\* interrupted and replayed (reconcile_legacy_blockers).
THEOREM MigrationEnrolsLast == Spec => []MigratedFirst
<1>1. Invariant => MigratedFirst
  <2>. SUFFICES ASSUME Invariant, ~anchored, Readable, NEW w \in Works,
                       NEW i \in 1..Len(Events), Events[i] = Enrolment[w],
                       NEW j \in 1..Len(Inventory[w])
                PROVE  Occurs(Inventory[w][j], Before(Events, i))
    BY DEF MigratedFirst
  <2>1. /\ Len(Events) = Len(comments) /\ comments[i].payload = Events[i]
    BY EventsOfComments DEF Invariant, GoodJournal
  <2>2. Covered(w, Before(Events, i), <<>>)
    BY <2>1 DEF Readable, Invariant, GoodJournal, WellMade
  <2>3. ~Occurs(Inventory[w][j], <<>>)
    BY EmptySeq DEF Occurs
  <2>. QED
    BY <2>2, <2>3 DEF Covered
<1>. QED
  BY <1>1, AlwaysInvariant, PTL

\* What must be escalated is escalated for ever after
\* (decide_mutation_continuation over the journal's history).
THEOREM EscalationsStick == Spec => []EscalationSticks
<1>1. Invariant => EscalationSticks
  <2>. SUFFICES ASSUME Invariant, ~anchored, NEW b \in acked, NEW c \in Blockers,
                       RecoveryAction(b.source) = "ESCALATE_NO_WRITE"
                PROVE  Continuation(Events, b.work, c.provider) = "ESCALATE_NO_WRITE"
    BY DEF EscalationSticks
  <2>1. PICK i \in 1..Len(Events) : Events[i] = b
    BY DEF Invariant, GoodAcked, Occurs
  <2>2. b.event = "BLOCKED"
    BY EventKinds DEF Invariant, GoodAcked
  <2>3. i \in BlockersOf(Events, b.work)
    BY <2>1, <2>2 DEF BlockersOf
  <2>. QED
    BY <2>1, <2>3 DEF Continuation
<1>. QED
  BY <1>1, AlwaysInvariant, PTL

\* No write begins before every denial that the mutation could have known of
\* is cleared by genuine evidence of the kind its source demands, for the head
\* the mutation was made for (CommonPreWriteGate, evaluate_clearance).
THEOREM DenialsStopWrites == Spec => DenialStops
<1>. DEFINE Past(e) ==
       \A b \in engine[e].known :
         \E i \in 1..Len(Events) :
           LET c == Events[i] IN
           /\ c \in Genuine /\ c.work = b.work /\ c.about = b.ref
           /\ c.kind \in EligibleKind(b.source)
           /\ c.head = engine[e].expected
     DeniedHere ==
       \A e \in Engines :
         engine[e].pc # "write" /\ engine'[e].pc = "write" => Past(e)
<1>1. ASSUME Invariant, [Next]_vars PROVE DeniedHere
  <2>. SUFFICES ASSUME NEW e \in Engines,
                       engine[e].pc # "write", engine'[e].pc = "write"
                PROVE  Past(e)
    OBVIOUS
  <2>1. GateJournal(e)
    <3>1. engine' # engine
      OBVIOUS
    <3>2. PICK f \in Engines : Mutate(f)
      BY <1>1, <3>1
         DEF Next, Write, vars, RecordEvent, RegisterWork, AppendRead, Post,
             PostTimesOut, LatePost, Verify, GiveUp, Migrate, Import, MoveHead,
             AdvanceAnchor, DeleteLast
    <3>3. engine \in [Engines -> EngineState]
      BY <1>1 DEF Invariant
    <3>4. \A w \in Works : ~GateHead(f, w) \/ f # e
      BY <3>3 DEF GateHead
    <3>5. ~EngineEnds(f) \/ f # e
      BY <3>3 DEF EngineEnds, EngineIdle
    <3>6. f = e
      BY <3>2, <3>3 DEF Mutate, GateHead, GateJournal, EngineEnds
    <3>. QED
      BY <3>2, <3>4, <3>5, <3>6 DEF Mutate
  <2>. SUFFICES ASSUME NEW b \in engine[e].known
                PROVE  \E i \in 1..Len(Events) :
                         LET c == Events[i] IN
                         /\ c \in Genuine /\ c.work = b.work /\ c.about = b.ref
                         /\ c.kind \in EligibleKind(b.source)
                         /\ c.head = engine[e].expected
    OBVIOUS
  <2>2. b \in Blockers /\ b.work = engine[e].work /\ Occurs(b, Events)
    <3>1. /\ engine[e].known \in SUBSET Blockers /\ b.work = engine[e].work
          /\ IF anchored THEN Occurs(b, anchor) ELSE b \in acked
      BY <1>1 DEF Invariant, GoodEngine, EngineState
    <3>2. anchored => Events = anchor
      BY <2>1 DEF GateJournal, RequireCheckpoint
    <3>. QED
      BY <1>1, <3>1, <3>2 DEF Invariant, GoodAcked
  <2>3. PICK i \in 1..Len(Events) : Events[i] = b
    BY <2>2 DEF Occurs
  <2>4. i \in BlockersOf(Events, engine[e].work)
    BY <2>2, <2>3, EventKinds DEF BlockersOf
  <2>5. PICK j \in 1..Len(Events) : Resolves(b, Events[j], engine[e].expected)
    BY <2>1, <2>3, <2>4 DEF GateJournal, NoActiveBlocker
  <2>. QED
    BY <2>5 DEF Resolves, Verified
<1>2. DenialStops <=> [][DeniedHere]_vars
  BY DEF DenialStops
<1>. QED
  BY <1>1, AlwaysInvariant, PTL DEF Spec, DenialStops

-----------------------------------------------------------------------------
(***************************************************************************)
(* The acceptance loop.                                                    *)
(*                                                                         *)
(* What is invariant: what GitHub holds, a pull request is from a branch   *)
(* there is (GitHubOK); the workload's queue holds plans that can be       *)
(* carried out, and each of them is about a criterion that was due, all    *)
(* that comes before it being integrated (Good); and an issue that is      *)
(* being worked on is the owner of the state (OneWorkload).                *)
(*                                                                         *)
(* A plan is due when it is queued, for it is about the target of its      *)
(* cycle (TargetForm), and it stays due because evidence is never taken    *)
(* back: a later view of the workload and of the pull requests counts all  *)
(* that an earlier one did (Later, IntegratedGrows).  IntegratedWith is    *)
(* Integrated with GitHub's pull requests as an argument, so that the two  *)
(* views can be compared.                                                  *)
(***************************************************************************)

\* What a workload counts as integrated when GitHub's pull requests are P.
CountsWith(p, s, P) ==
  /\ p \in VerifiedPlans(s)
  /\ \/ p.act = "create_pr" /\ \E n \in MergedPRs(s) : P[n].plan = p
     \/ p.act = "merge_pr"
     \/ /\ p.act = "file"
        /\ \E n \in MergedPRs(s) : P[n].plan \in VerifiedPlans(s) /\ p.branch = P[n].branch

IntegratedWith(s, P) == {p.crit : p \in {p \in VerifiedPlans(s) : CountsWith(p, s, P)}} \ {None}

\* A plan that can be carried out on the branches B and the pull requests P: what
\* it is about exists.
Executable(p, B, P) ==
  /\ p.act \in {"branch", "file", "create_pr"} => p.branch \in Branches
  /\ p.act \in {"file", "create_pr"} => B[p.branch] \in SUBSET Criteria
  /\ p.act = "file" => p.crit \in Criteria
  /\ p.act = "merge_pr" => p.pr \in DOMAIN P

\* All that comes before the criterion c in the issue i is integrated.
Due(c, i, integrated) ==
  \A n \in DOMAIN CriteriaOf[i] :
    c = CriteriaOf[i][n] => \A m \in 1..(n - 1) : CriteriaOf[i][m] \in integrated

\* A workload whose queue holds plans that can be carried out, and each of them
\* about a criterion that is due.
Good(s, B, P) ==
  /\ s \in State
  /\ \A p \in DOMAIN s.queue :
       Executable(p, B, P) /\ Due(p.crit, s.owner, IntegratedWith(s, P))

StateOK == state # NoState => Good(state, branch, prs)

\* What GitHub holds.  A pull request is from a branch there is.
GitHubOK ==
  /\ issue \in [Issues -> {"absent", "open", "closed"}]
  /\ branch \in [Branches -> (SUBSET Criteria) \cup {None}]
  /\ prs \in Seq(PullRequest)
  /\ \A n \in DOMAIN prs : branch[prs[n].branch] \in SUBSET Criteria
  /\ onMain \subseteq Criteria

StatusOK ==
  /\ status \in [Issues -> Lifecycle \cup {"absent"}]
  /\ crashes \in 0..MaxCrashes

\* An issue nobody labelled is not in the ledger and has no workload.
Listed ==
  \A i \in Issues : issue[i] = "absent" => status[i] = "absent" /\ state.owner # i

\* The inductive invariant.
LoopInvariant == GitHubOK /\ StatusOK /\ StateOK /\ Listed /\ OneWorkload

\* A set of numbers has a least one.
LEMMA LeastNumber ==
  ASSUME NEW S, S \subseteq Nat, S # {}
  PROVE  \E n \in S : \A m \in S : n <= m
<1>1. PICK n \in S : \A m \in S : ~(<<m, n>> \in OpToRel(<, Nat))
  BY NatLessThanWellFounded, WFMin
<1>2. \A m \in S : ~(m < n)
  BY <1>1 DEF OpToRel
<1> QED BY <1>2

-----------------------------------------------------------------------------
(* Evidence.                                                                *)

LEMMA IntegratedIs ==
  /\ \A s : Integrated(s) = IntegratedWith(s, prs)
  /\ Integrated(state)' = IntegratedWith(state', prs')
<1>1. \A s : \A p : Counts(p, s) <=> CountsWith(p, s, prs)
  BY DEF Counts, CountsWith, MergedHeads
<1>2. \A s : Integrated(s) = IntegratedWith(s, prs)
  BY <1>1 DEF Integrated, IntegratedWith
<1>3. \A p : Counts(p, state)' <=> CountsWith(p, state', prs')
  BY DEF Counts, CountsWith, MergedHeads, MergedPRs, VerifiedPlans
<1>4. Integrated(state)' = IntegratedWith(state', prs')
  BY <1>3 DEF Integrated, IntegratedWith, VerifiedPlans
<1> QED BY <1>2, <1>4

\* The criteria of an issue are different, and none of them is None.
LEMMA CriteriaForm ==
  ASSUME NEW i \in Issues
  PROVE  /\ CriteriaOf[i] \in Seq(Criteria)
         /\ DOMAIN CriteriaOf[i] \subseteq Nat
         /\ \A n \in DOMAIN CriteriaOf[i] :
              /\ CriteriaOf[i][n] \in Criteria /\ CriteriaOf[i][n] # None
              /\ 1..(n - 1) \subseteq DOMAIN CriteriaOf[i]
         /\ \A m, n \in DOMAIN CriteriaOf[i] :
              CriteriaOf[i][m] = CriteriaOf[i][n] => m = n
<1>1. CriteriaOf[i] \in Seq(Criteria)
  BY LoopAssumption
<1>2. \A m, n \in DOMAIN CriteriaOf[i] : CriteriaOf[i][m] = CriteriaOf[i][n] => m = n
  BY LoopAssumption
<1>3. \A c \in Criteria : c # None
  BY LoopAssumption
<1> QED BY <1>1, <1>2, <1>3

\* The target is the first criterion that is left, so that it is due.
LEMMA TargetForm ==
  ASSUME NEW s, s.owner \in Issues
  PROVE  /\ Target(s) \in Criteria \cup {None}
         /\ Due(Target(s), s.owner, Integrated(s))
<1> DEFINE c == CriteriaOf[s.owner]
           left == Eligible(s)
<1>1. /\ DOMAIN c \subseteq Nat
      /\ \A n \in DOMAIN c : c[n] \in Criteria /\ c[n] # None /\ 1..(n - 1) \subseteq DOMAIN c
      /\ \A m, n \in DOMAIN c : c[m] = c[n] => m = n
  BY CriteriaForm
<1>2. left = {n \in DOMAIN c : c[n] \notin Integrated(s)}
  BY DEF Eligible
<1>3. CASE left = {}
  <2>1. Target(s) = None
    BY <1>3 DEF Target
  <2> QED BY <1>1, <2>1 DEF Due
<1>4. CASE left # {}
  <2> DEFINE first == CHOOSE n \in left : \A m \in left : n <= m
  <2>1. Target(s) = c[first]
    BY <1>4 DEF Target
  <2>2. left \subseteq Nat
    BY <1>1, <1>2
  <2> HIDE DEF left, c
  <2>3. \E n \in left : \A m \in left : n <= m
    BY <1>4, <2>2, LeastNumber
  <2>4. first \in left /\ \A m \in left : first <= m
    BY <2>3
  <2> HIDE DEF first
  <2>5. first \in DOMAIN c
    BY <1>2, <2>4
  <2>6. ASSUME NEW m \in 1..(first - 1)
        PROVE  c[m] \in Integrated(s)
    <3>1. m \in DOMAIN c /\ first \in Nat /\ ~(first <= m)
      BY <1>1, <2>5
    <3> QED BY <1>2, <2>4, <3>1
  <2>7. \A n \in DOMAIN c : Target(s) = c[n] => n = first
    BY <1>1, <2>1, <2>5
  <2>8. Target(s) \in Criteria
    BY <1>1, <2>1, <2>5
  <2> QED BY <2>6, <2>7, <2>8 DEF c, Due
<1> QED BY <1>3, <1>4

\* A later view of a workload, t, and of the pull requests, Q.
Later(s, t, P, Q) ==
  /\ DOMAIN s.queue \subseteq DOMAIN t.queue
  /\ \A p \in DOMAIN s.queue : s.queue[p] = "complete" => t.queue[p] = "complete"
  /\ \A n \in DOMAIN P : n \in DOMAIN Q /\ Q[n].plan = P[n].plan /\ Q[n].branch = P[n].branch

\* What is integrated stays integrated.
LEMMA IntegratedGrows ==
  ASSUME NEW s, NEW t, NEW P, NEW Q, Later(s, t, P, Q),
         \A p \in DOMAIN s.queue : p.act = "merge_pr" => p.pr \in DOMAIN P
  PROVE  IntegratedWith(s, P) \subseteq IntegratedWith(t, Q)
<1>1. VerifiedPlans(s) \subseteq VerifiedPlans(t)
  BY DEF VerifiedPlans, Later
<1>2. MergedPRs(s) \subseteq MergedPRs(t)
  BY <1>1 DEF MergedPRs
<1>3. \A n \in MergedPRs(s) : Q[n].plan = P[n].plan /\ Q[n].branch = P[n].branch
  BY DEF MergedPRs, VerifiedPlans, Later
<1>4. ASSUME NEW p, CountsWith(p, s, P)
      PROVE  CountsWith(p, t, Q)
  <2>1. p \in VerifiedPlans(t)
    BY <1>1, <1>4 DEF CountsWith
  <2>2. CASE p.act = "create_pr" /\ \E n \in MergedPRs(s) : P[n].plan = p
    BY <1>2, <1>3, <2>1, <2>2 DEF CountsWith
  <2>3. CASE /\ p.act = "file"
             /\ \E n \in MergedPRs(s) : P[n].plan \in VerifiedPlans(s) /\ p.branch = P[n].branch
    <3>1. PICK n \in MergedPRs(s) : P[n].plan \in VerifiedPlans(s) /\ p.branch = P[n].branch
      BY <2>3
    <3>2. n \in MergedPRs(t) /\ Q[n].plan \in VerifiedPlans(t) /\ p.branch = Q[n].branch
      BY <1>1, <1>2, <1>3, <3>1
    <3> QED BY <2>1, <2>3, <3>2 DEF CountsWith
  <2>4. CASE p.act = "merge_pr"
    BY <2>1, <2>4 DEF CountsWith
  <2> QED BY <1>4, <2>2, <2>3, <2>4 DEF CountsWith
<1> QED BY <1>1, <1>4 DEF IntegratedWith

\* No branch that there is goes away.
Kept(B, C) == \A b \in Branches : B[b] \in SUBSET Criteria => C[b] \in SUBSET Criteria

\* A workload stays good if the plans that are new can be carried out and are due.
LEMMA StaysGood ==
  ASSUME NEW s, NEW t, NEW B, NEW C, NEW P, NEW Q, Good(s, B, P),
         t \in State, t.owner = s.owner, Later(s, t, P, Q), Kept(B, C),
         \A p \in DOMAIN t.queue \ DOMAIN s.queue :
           Executable(p, C, Q) /\ Due(p.crit, s.owner, IntegratedWith(s, P))
  PROVE  Good(t, C, Q)
<1>1. \A p \in DOMAIN s.queue : p.act = "merge_pr" => p.pr \in DOMAIN P
  BY DEF Good, Executable
<1>2. IntegratedWith(s, P) \subseteq IntegratedWith(t, Q)
  BY <1>1, IntegratedGrows
<1>3. \A c : Due(c, s.owner, IntegratedWith(s, P)) => Due(c, t.owner, IntegratedWith(t, Q))
  BY <1>2 DEF Due
<1>4. \A p \in DOMAIN s.queue : Executable(p, C, Q)
  BY DEF Good, Executable, Kept, Later
<1>5. \A p \in DOMAIN s.queue : Due(p.crit, s.owner, IntegratedWith(s, P))
  BY DEF Good
<1> QED BY <1>3, <1>4, <1>5 DEF Good

-----------------------------------------------------------------------------
(* Workloads.                                                               *)

Queues == UNION {[S -> {"pending", "complete"}] : S \in SUBSET Plan}
Failures == UNION {[S -> ActiveStatuses \cup {"resolved"}] : S \in SUBSET Failure}

LEMMA StateForm ==
  /\ State = [owner : Issues, unread : BOOLEAN, retired : BOOLEAN,
              queue : Queues, failures : Failures]
  /\ \A q : q \in Queues <=> /\ DOMAIN q \subseteq Plan
                             /\ q \in [DOMAIN q -> {"pending", "complete"}]
  /\ \A q : q \in Failures <=> /\ DOMAIN q \subseteq Failure
                               /\ q \in [DOMAIN q -> ActiveStatuses \cup {"resolved"}]
<1>1. \A q : q \in Queues <=> /\ DOMAIN q \subseteq Plan
                              /\ q \in [DOMAIN q -> {"pending", "complete"}]
  <2> DEFINE V == {"pending", "complete"}
  <2>1. \A q : q \in UNION {[S -> V] : S \in SUBSET Plan} <=>
                 \E S \in SUBSET Plan : q \in [S -> V]
    OBVIOUS
  <2>2. \A q : \A S \in SUBSET Plan : q \in [S -> V] => DOMAIN q = S
    OBVIOUS
  <2> HIDE DEF V
  <2>3. \A q : (\E S \in SUBSET Plan : q \in [S -> V]) <=>
                 DOMAIN q \subseteq Plan /\ q \in [DOMAIN q -> V]
    BY <2>2
  <2> QED BY <2>1, <2>3 DEF Queues, V
<1>2. \A q : q \in Failures <=> /\ DOMAIN q \subseteq Failure
                                /\ q \in [DOMAIN q -> ActiveStatuses \cup {"resolved"}]
  <2> DEFINE V == ActiveStatuses \cup {"resolved"}
  <2>1. \A q : q \in UNION {[S -> V] : S \in SUBSET Failure} <=>
                 \E S \in SUBSET Failure : q \in [S -> V]
    OBVIOUS
  <2>2. \A q : \A S \in SUBSET Failure : q \in [S -> V] => DOMAIN q = S
    OBVIOUS
  <2> HIDE DEF V
  <2>3. \A q : (\E S \in SUBSET Failure : q \in [S -> V]) <=>
                 DOMAIN q \subseteq Failure /\ q \in [DOMAIN q -> V]
    BY <2>2
  <2> QED BY <2>1, <2>3 DEF Failures, V
<1> QED BY <1>1, <1>2 DEF State, Queues, Failures

\* An action is added to the queue.
LEMMA QueuedForm ==
  ASSUME NEW s \in State, NEW p \in Plan, p \notin DOMAIN s.queue
  PROVE  /\ Queued(s, p) \in State
         /\ Queued(s, p).owner = s.owner
         /\ DOMAIN Queued(s, p).queue = DOMAIN s.queue \cup {p}
         /\ \A x \in DOMAIN s.queue : Queued(s, p).queue[x] = s.queue[x]
<1> DEFINE q == Extend(s.queue, p, "pending")
<1>1. /\ s.queue \in [DOMAIN s.queue -> {"pending", "complete"}]
      /\ DOMAIN s.queue \subseteq Plan
  BY StateForm
<1>2. /\ q \in [DOMAIN s.queue \cup {p} -> {"pending", "complete"}]
      /\ DOMAIN q = DOMAIN s.queue \cup {p}
      /\ \A y \in DOMAIN s.queue : y # p => q[y] = s.queue[y]
  BY <1>1 DEF Extend
<1> HIDE DEF q
<1>3. q \in Queues
  BY <1>1, <1>2, StateForm
<1>4. Queued(s, p) = [s EXCEPT !.queue = q]
  BY DEF Queued, q
<1>5. [s EXCEPT !.queue = q] \in State /\ [s EXCEPT !.queue = q].owner = s.owner
      /\ [s EXCEPT !.queue = q].queue = q
  BY <1>3, StateForm
<1> QED BY <1>2, <1>4, <1>5

\* A failure of a workload is recorded, or resolved: its queue stays.
LEMMA RecordedForm ==
  ASSUME NEW s \in State, NEW f \in Failure
  PROVE  Recorded(s, f) \in State /\ Recorded(s, f).owner = s.owner
         /\ Recorded(s, f).queue = s.queue
<1> DEFINE v == IF f \notin DOMAIN s.failures
                  THEN IF f.text = Forbidden THEN "blocked" ELSE "retryable"
                ELSE IF s.failures[f] = "retryable" THEN "escalated"
                ELSE s.failures[f]
           g == Extend(s.failures, f, v)
<1>1. /\ s.failures \in [DOMAIN s.failures -> ActiveStatuses \cup {"resolved"}]
      /\ DOMAIN s.failures \subseteq Failure
  BY StateForm
<1>2. v \in ActiveStatuses \cup {"resolved"}
  BY <1>1 DEF ActiveStatuses
<1> HIDE DEF v
<1>3. /\ g \in [DOMAIN s.failures \cup {f} -> ActiveStatuses \cup {"resolved"}]
      /\ DOMAIN g = DOMAIN s.failures \cup {f}
  BY <1>1, <1>2 DEF Extend
<1> HIDE DEF g
<1>4. g \in Failures
  BY <1>1, <1>3, StateForm
<1>5. Recorded(s, f) = [s EXCEPT !.failures = g]
  BY DEF Recorded, g, v
<1> QED BY <1>4, <1>5, StateForm

LEMMA AnsweredForm ==
  ASSUME NEW s \in State
  PROVE  Answered(s) \in State /\ Answered(s).owner = s.owner
         /\ Answered(s).queue = s.queue
<1> DEFINE g == [f \in DOMAIN s.failures |->
                  IF s.failures[f] = "retryable" /\ f.target = Target(s) THEN "resolved"
                  ELSE s.failures[f]]
<1>1. /\ s.failures \in [DOMAIN s.failures -> ActiveStatuses \cup {"resolved"}]
      /\ DOMAIN s.failures \subseteq Failure
  BY StateForm
<1>2. g \in [DOMAIN s.failures -> ActiveStatuses \cup {"resolved"}]
      /\ DOMAIN g = DOMAIN s.failures
  BY <1>1
<1>3. Answered(s) = [s EXCEPT !.unread = FALSE, !.failures = g]
  BY DEF Answered
<1> HIDE DEF g
<1>4. g \in Failures
  BY <1>1, <1>2, StateForm
<1> QED BY <1>3, <1>4, StateForm

\* The workload of a cycle: that of the slot, or a fresh one.
LEMMA FreshForm ==
  ASSUME NEW i \in Issues
  PROVE  /\ Fresh(i) \in State /\ Fresh(i).owner = i
         /\ DOMAIN Fresh(i).queue = {} /\ DOMAIN Fresh(i).failures = {}
<1>1. DOMAIN <<>> = {}
  OBVIOUS
<1>2. \A V : <<>> \in [{} -> V]
  OBVIOUS
<1>3. <<>> \in Queues /\ <<>> \in Failures
  BY <1>1, <1>2, StateForm
<1>4. /\ NoState \in [owner : {None}, unread : BOOLEAN, retired : BOOLEAN,
                      queue : Queues, failures : Failures]
      /\ NoState.queue = <<>> /\ NoState.failures = <<>>
  BY <1>3 DEF NoState
<1> QED BY <1>1, <1>4, StateForm DEF Fresh

LEMMA NoStateForm == NoState \notin State
<1>1. NoState.owner = None
  BY DEF NoState
<1>2. None \notin Issues
  BY LoopAssumption
<1> QED BY <1>1, <1>2, StateForm

LEMMA SlotForm ==
  ASSUME StateOK, NEW i \in Issues
  PROVE  /\ Slot = i => state # NoState /\ state.owner = i
         /\ Work(i).owner = i /\ Good(Work(i), branch, prs)
<1>1. None \notin Issues
  BY LoopAssumption
<1>2. Slot = i => state # NoState /\ state.owner = i
  BY <1>1 DEF Slot
<1>3. Good(Fresh(i), branch, prs)
  BY FreshForm DEF Good
<1> QED BY <1>2, <1>3, FreshForm DEF Work, StateOK

-----------------------------------------------------------------------------
(* Answers.                                                                 *)

LEMMA PlausibleForm ==
  ASSUME GitHubOK, NEW p \in Plausible
  PROVE  /\ p \in Plan /\ p.act # "none"
         /\ p.act \in {"branch", "file", "create_pr"} => p.branch \in Branches
         /\ p.act = "merge_pr" => p.pr \in DOMAIN prs
         /\ p.act # "close" => p.crit \in Criteria
         /\ p.act = "close" => p.crit = None
<1>1. DOMAIN prs \subseteq Nat
  BY DEF GitHubOK
<1>2. CASE \E b \in Branches, c \in Criteria :
             p \in {PlanOf(act, b, 0, c) : act \in {"branch", "file", "create_pr"}}
  BY <1>2 DEF PlanOf, Plan
<1>3. CASE \E n \in DOMAIN prs, c \in Criteria : p = PlanOf("merge_pr", None, n, c)
  BY <1>1, <1>3 DEF PlanOf, Plan
<1>4. CASE p = Close
  BY <1>4 DEF Close, PlanOf, Plan
<1> QED BY <1>2, <1>3, <1>4 DEF Plausible

\* An answer that validates is new, can be carried out, and is about the target.
LEMMA AcceptableForm ==
  ASSUME GitHubOK, NEW i \in Issues, NEW p \in Acceptable(i)
  PROVE  /\ p \in Plan /\ p \notin DOMAIN Work(i).queue
         /\ Executable(p, branch, prs)
         /\ p.crit \in {None, Target(Work(i))}
<1> DEFINE s == Work(i)
           c == Target(s)
<1>1. p \in Plausible /\ Complaint(p, s, c) = Valid
  BY DEF Acceptable
<1>2. OfParser(p, c) = Valid /\ OfPreflight(p, s) = Valid
  BY <1>1 DEF Complaint
<1> HIDE DEF s, c
<1>3. p.act = "close" \/ p.crit = c
  BY <1>2 DEF OfParser, Says, Valid
<1>4. p \notin DOMAIN s.queue
  BY <1>2 DEF OfPreflight, Says, Valid
<1>5. OfTarget(p) = Valid
  BY <1>2 DEF OfPreflight, Says, Valid
<1>6. p.act \in {"file", "create_pr"} => branch[p.branch] # None
  BY <1>5 DEF OfTarget, Says, Valid
<1>7. p.act \in {"file", "create_pr"} => branch[p.branch] \in SUBSET Criteria
  <2>1. p.act \in {"file", "create_pr"} => p.branch \in Branches
    BY <1>1, PlausibleForm
  <2>2. \A b \in Branches : branch[b] \in SUBSET Criteria \/ branch[b] = None
    BY DEF GitHubOK
  <2> QED BY <1>6, <2>1, <2>2
<1>8. Executable(p, branch, prs)
  BY <1>1, <1>7, PlausibleForm DEF Executable
<1> QED BY <1>1, <1>3, <1>4, <1>8, PlausibleForm DEF s, c

\* And one that does not gives a text to record.
LEMMA TextsForm ==
  ASSUME GitHubOK, NEW i \in Issues, NEW t \in Texts(i)
  PROVE  t \in Text
<1>1. NoPlan \in Plan
  BY DEF NoPlan, PlanOf, Plan
<1>2. \A c \in {"no_plan", "policy", "unavailable", "wrong_criterion", "unverified_evidence"} :
        Says(c, NoPlan) \in Text
  BY <1>1 DEF Says, Text
<1>3. ASSUME NEW p \in Plausible, NEW s, NEW c, Complaint(p, s, c) # Valid
      PROVE  Complaint(p, s, c) \in Text
  <2>1. p \in Plan
    BY <1>3, PlausibleForm
  <2>2. \A x \in {"duplicate_action", "missing_branch", "pr_not_ready"} : Says(x, p) \in Text
    BY <2>1 DEF Says, Text
  <2>3. OfParser(p, c) \in Text \cup {Valid}
    BY <1>2 DEF OfParser
  <2>4. OfTarget(p) \in Text \cup {Valid}
    BY <2>2 DEF OfTarget
  <2>5. OfEvidence(p, s) \in Text \cup {Valid}
    BY <1>2 DEF OfEvidence
  <2>6. OfPreflight(p, s) \in Text \cup {Valid}
    BY <2>2, <2>4, <2>5 DEF OfPreflight
  <2> QED BY <1>3, <2>3, <2>6 DEF Complaint
<1>4. CASE t \in {Unreconciled, Forbidden, Unanswered}
  BY <1>2, <1>4 DEF Unreconciled, Forbidden, Unanswered
<1>5. CASE t \in {Complaint(p, Work(i), Target(Work(i))) : p \in Plausible \ Acceptable(i)}
  <2>1. PICK p \in Plausible \ Acceptable(i) : t = Complaint(p, Work(i), Target(Work(i)))
    BY <1>5
  <2>2. Complaint(p, Work(i), Target(Work(i))) # Valid
    BY <2>1 DEF Acceptable
  <2> QED BY <1>3, <2>1, <2>2
<1> QED BY <1>4, <1>5 DEF Texts

-----------------------------------------------------------------------------
(* What a step does to GitHub.                                              *)

PRsStay ==
  \A n \in DOMAIN prs :
    n \in DOMAIN prs' /\ prs'[n].plan = prs[n].plan /\ prs'[n].branch = prs[n].branch

\* The state of a pull request changes.
LEMMA PRForm ==
  ASSUME GitHubOK, NEW n \in DOMAIN prs, NEW x \in {"ready", "merged"},
         prs' = [prs EXCEPT ![n].state = x]
  PROVE  /\ prs' \in Seq(PullRequest) /\ DOMAIN prs' = DOMAIN prs
         /\ PRsStay
<1>1. /\ prs \in Seq(PullRequest)
      /\ \A m \in DOMAIN prs : prs[m] \in PullRequest
  BY DEF GitHubOK
<1>2. [prs[n] EXCEPT !.state = x] \in PullRequest
      /\ [prs[n] EXCEPT !.state = x].plan = prs[n].plan
      /\ [prs[n] EXCEPT !.state = x].branch = prs[n].branch
  BY <1>1 DEF PullRequest
<1>3. prs' = [prs EXCEPT ![n] = [prs[n] EXCEPT !.state = x]]
  OBVIOUS
<1>4. PRsStay
  BY <1>2, <1>3 DEF PRsStay
<1>5. /\ prs \in [1..Len(prs) -> PullRequest] /\ Len(prs) \in Nat
      /\ n \in 1..Len(prs)
  BY <1>1
<1>6. prs' \in [1..Len(prs) -> PullRequest] /\ DOMAIN prs' = 1..Len(prs)
  BY <1>2, <1>3, <1>5
<1>7. prs' \in Seq(PullRequest)
  BY <1>5, <1>6
<1> QED BY <1>4, <1>5, <1>6, <1>7

LEMMA PassForm ==
  ASSUME GitHubOK, CIPasses
  PROVE  GitHubOK' /\ PRsStay
<1>1. PICK n \in DOMAIN prs : prs' = [prs EXCEPT ![n].state = "ready"]
  BY DEF CIPasses
<1>2. prs' \in Seq(PullRequest) /\ DOMAIN prs' = DOMAIN prs /\ PRsStay
  BY <1>1, PRForm
<1>3. UNCHANGED <<issue, branch, onMain>>
  BY DEF CIPasses
<1> QED BY <1>2, <1>3 DEF GitHubOK, PRsStay

\* An action is carried out.
LEMMA ExecuteForm ==
  ASSUME GitHubOK, NEW p \in Plan, Executable(p, branch, prs), state.owner \in Issues,
         ExecuteFile(p) \/ ExecuteCreatePR(p) \/ ExecuteMerge(p) \/ ExecuteClose(p)
  PROVE  GitHubOK' /\ PRsStay /\ Kept(branch, branch')
<1>1. CASE ExecuteFile(p)
  <2> DEFINE v == IF p.act = "branch" THEN onMain ELSE branch[p.branch] \cup {p.crit}
  <2>1. branch' = [branch EXCEPT ![p.branch] = v] /\ UNCHANGED <<issue, prs, onMain>>
    BY <1>1 DEF ExecuteFile
  <2>2. v \in SUBSET Criteria /\ p.branch \in Branches
    BY <1>1 DEF ExecuteFile, Executable, GitHubOK
  <2> HIDE DEF v
  <2>3. branch' \in [Branches -> (SUBSET Criteria) \cup {None}]
    BY <2>1, <2>2 DEF GitHubOK
  <2>4. \A b \in Branches : branch'[b] = IF b = p.branch THEN v ELSE branch[b]
    BY <2>1 DEF GitHubOK
  <2>5. Kept(branch, branch')
    BY <2>2, <2>4 DEF Kept
  <2>6. \A n \in DOMAIN prs : prs[n].branch \in Branches
    <3>1. \A n \in DOMAIN prs : prs[n] \in PullRequest
      BY DEF GitHubOK
    <3> QED BY <3>1 DEF PullRequest
  <2> QED BY <2>1, <2>3, <2>5, <2>6 DEF GitHubOK, PRsStay, Kept
<1>2. CASE ExecuteCreatePR(p)
  <2> DEFINE r == [branch |-> p.branch, plan |-> p, state |-> "open"]
  <2>1. prs' = Append(prs, r) /\ UNCHANGED <<issue, branch, onMain>>
    BY <1>2 DEF ExecuteCreatePR
  <2>2. r \in PullRequest /\ branch[r.branch] \in SUBSET Criteria
    BY <1>2 DEF ExecuteCreatePR, Executable, PullRequest
  <2> HIDE DEF r
  <2>3. prs \in Seq(PullRequest)
    BY DEF GitHubOK
  <2>4. /\ prs' \in Seq(PullRequest)
        /\ \A n \in DOMAIN prs' : n \in DOMAIN prs \/ prs'[n] = r
        /\ \A n \in DOMAIN prs : n \in DOMAIN prs' /\ prs'[n] = prs[n]
    BY <2>1, <2>2, <2>3
  <2>5. \A n \in DOMAIN prs' : branch[prs'[n].branch] \in SUBSET Criteria
    BY <2>2, <2>4 DEF GitHubOK
  <2> QED BY <2>1, <2>4, <2>5 DEF GitHubOK, PRsStay, Kept
<1>3. CASE ExecuteMerge(p)
  <2>1. /\ p.pr \in DOMAIN prs /\ prs' = [prs EXCEPT ![p.pr].state = "merged"]
        /\ onMain' = onMain \cup branch[prs[p.pr].branch]
        /\ UNCHANGED <<issue, branch>>
    BY <1>3 DEF ExecuteMerge, Executable
  <2>2. prs' \in Seq(PullRequest) /\ DOMAIN prs' = DOMAIN prs /\ PRsStay
    BY <2>1, PRForm
  <2>3. onMain' \subseteq Criteria
    BY <2>1 DEF GitHubOK
  <2> QED BY <2>1, <2>2, <2>3 DEF GitHubOK, PRsStay, Kept
<1>4. CASE ExecuteClose(p)
  BY <1>4 DEF ExecuteClose, GitHubOK, PRsStay, Kept
<1> QED BY <1>1, <1>2, <1>3, <1>4

-----------------------------------------------------------------------------
(* What a step does to the workload.                                        *)

\* A cycle that queues nothing keeps the workload good,
LEMMA QueueKept ==
  ASSUME NEW s, Good(s, branch, prs), UNCHANGED github,
         state' \in State, state'.owner = s.owner, state'.queue = s.queue
  PROVE  StateOK'
<1>1. branch' = branch /\ prs' = prs
  BY DEF github
<1>2. Later(s, state', prs, prs') /\ Kept(branch, branch')
  BY <1>1 DEF Later, Kept
<1>3. Good(state', branch', prs')
  BY <1>2, StaysGood
<1> QED BY <1>3 DEF StateOK

\* and so does one that queues an action that can be carried out and is due.
LEMMA QueueGrows ==
  ASSUME NEW s, Good(s, branch, prs), UNCHANGED github,
         NEW p \in Plan, p \notin DOMAIN s.queue, state' = Queued(s, p),
         Executable(p, branch, prs), Due(p.crit, s.owner, Integrated(s))
  PROVE  StateOK'
<1>1. branch' = branch /\ prs' = prs
  BY DEF github
<1>2. s \in State
  BY DEF Good
<1>3. /\ state' \in State /\ state'.owner = s.owner
      /\ DOMAIN state'.queue = DOMAIN s.queue \cup {p}
      /\ \A x \in DOMAIN s.queue : state'.queue[x] = s.queue[x]
  BY <1>2, QueuedForm
<1>4. Later(s, state', prs, prs') /\ Kept(branch, branch')
  BY <1>1, <1>3 DEF Later, Kept
<1>5. Executable(p, branch', prs') /\ Due(p.crit, s.owner, IntegratedWith(s, prs))
  BY <1>1, IntegratedIs
<1>6. \A x \in DOMAIN state'.queue \ DOMAIN s.queue : x = p
  BY <1>3
<1>7. Good(state', branch', prs')
  BY <1>3, <1>4, <1>5, <1>6, StaysGood
<1> QED BY <1>7 DEF StateOK

\* A cycle whose job dies between its writes leaves the workload as it was.
LEMMA StateLeft ==
  ASSUME GitHubOK, StateOK, UNCHANGED github, state' = state
  PROVE  StateOK'
<1>1. CASE state # NoState
  <2>1. state \in State /\ Good(state, branch, prs)
    BY <1>1 DEF StateOK, Good
  <2> QED BY <2>1, QueueKept
<1>2. CASE state = NoState
  BY <1>2 DEF StateOK
<1> QED BY <1>1, <1>2

\* What a cycle writes.
LEMMA PersistForm ==
  ASSUME NEW work, NEW s, Persist(work, s), StatusOK
  PROVE  /\ status' = work /\ UNCHANGED github
         /\ state' = s \/ state' = state
         /\ crashes' \in 0..MaxCrashes
BY LoopAssumption DEF Persist, StatusOK

\* Nothing is due for None: it is no criterion.
LEMMA NothingDue ==
  ASSUME NEW i \in Issues, NEW S
  PROVE  Due(None, i, S)
BY CriteriaForm DEF Due

LEMMA StateOKStep ==
  ASSUME LoopInvariant, [LoopNext]_loopVars
  PROVE  StateOK'
<1>1. GitHubOK /\ StateOK /\ StatusOK
  BY DEF LoopInvariant
<1>2. state # NoState => state \in State /\ state.owner \in Issues /\ Good(state, branch, prs)
  BY <1>1, StateForm DEF StateOK, Good
<1>3. CASE Retire
  <2>1. /\ state # NoState /\ UNCHANGED github
        /\ state' = [state EXCEPT !.retired = TRUE] \/ state' = state
    BY <1>1, <1>3, PersistForm DEF Retire, Retires
  <2>2. state' \in State /\ state'.owner = state.owner /\ state'.queue = state.queue
    BY <1>2, <2>1, StateForm
  <2> QED BY <1>2, <2>1, <2>2, QueueKept
<1>4. CASE CloseIssue
  <2>1. state # NoState
    BY <1>4 DEF CloseIssue, Closes, Slot
  <2>2. /\ Close \notin DOMAIN state.queue /\ UNCHANGED github
        /\ state' = Queued(state, Close) \/ state' = state
    BY <1>1, <1>4, PersistForm DEF CloseIssue
  <2>3. Close \in Plan /\ Close.crit = None /\ Executable(Close, branch, prs)
    BY DEF Close, PlanOf, Plan, Executable
  <2>4. Due(Close.crit, state.owner, Integrated(state))
    BY <1>2, <2>1, <2>3, NothingDue
  <2>5. CASE state' = Queued(state, Close)
    BY <1>2, <2>1, <2>2, <2>3, <2>4, <2>5, QueueGrows
  <2> QED BY <1>1, <2>2, <2>5, StateLeft
<1>5. CASE MergeReady
  <2>1. PICK n \in ReadyPRs :
          /\ MergeOf(n) \notin DOMAIN state.queue /\ UNCHANGED github
          /\ state' = Queued(state, MergeOf(n)) \/ state' = state
    BY <1>1, <1>5, PersistForm DEF MergeReady
  <2>2. state # NoState
    BY <1>5 DEF MergeReady, ReadyPRs, Slot
  <2>3. n \in DOMAIN prs /\ n \in Nat
    BY <1>1 DEF ReadyPRs, GitHubOK
  <2>4. MergeOf(n) \in Plan /\ MergeOf(n).crit = None /\ Executable(MergeOf(n), branch, prs)
    BY <2>3 DEF MergeOf, PlanOf, Plan, Executable
  <2>5. Due(MergeOf(n).crit, state.owner, Integrated(state))
    BY <1>2, <2>2, <2>4, NothingDue
  <2>6. CASE state' = Queued(state, MergeOf(n))
    BY <1>2, <2>1, <2>2, <2>4, <2>5, <2>6, QueueGrows
  <2> QED BY <1>1, <2>1, <2>6, StateLeft
<1>6. ASSUME NEW i \in Issues, Plans(i)
      PROVE  StateOK'
  <2>1. PICK p \in Acceptable(i) :
          UNCHANGED github /\ (state' = Queued(Answered(Work(i)), p) \/ state' = state)
    BY <1>1, <1>6, PersistForm DEF Plans
  <2>2. Work(i).owner = i /\ Good(Work(i), branch, prs) /\ Work(i) \in State
    BY <1>1, SlotForm DEF Good
  <2> DEFINE s == Answered(Work(i))
  <2>3. s \in State /\ s.owner = i /\ s.queue = Work(i).queue
    BY <2>2, AnsweredForm
  <2>4. /\ p \in Plan /\ p \notin DOMAIN Work(i).queue
        /\ Executable(p, branch, prs) /\ p.crit \in {None, Target(Work(i))}
    BY <1>1, AcceptableForm
  <2>5. Due(p.crit, i, Integrated(Work(i)))
    BY <2>2, <2>4, TargetForm, NothingDue
  <2>6. VerifiedPlans(s) = VerifiedPlans(Work(i))
    BY <2>3 DEF VerifiedPlans
  <2>7. \A x : CountsWith(x, s, prs) <=> CountsWith(x, Work(i), prs)
    BY <2>6 DEF CountsWith, MergedPRs
  <2>8. IntegratedWith(s, prs) = IntegratedWith(Work(i), prs)
    BY <2>6, <2>7 DEF IntegratedWith
  <2>9. Good(s, branch, prs)
    BY <2>2, <2>3, <2>8 DEF Good
  <2>10. Due(p.crit, s.owner, Integrated(s))
    BY <2>3, <2>5, <2>8, IntegratedIs
  <2>11. p \notin DOMAIN s.queue
    BY <2>3, <2>4
  <2>12. CASE state' = Queued(s, p)
    <3> HIDE DEF s
    <3> QED BY <2>1, <2>4, <2>9, <2>10, <2>11, <2>12, QueueGrows
  <2> QED BY <1>1, <2>1, <2>12, StateLeft
<1>7. ASSUME NEW i \in Issues, Stops(i)
      PROVE  StateOK'
  <2>1. Work(i).owner = i /\ Good(Work(i), branch, prs) /\ Work(i) \in State
    BY <1>1, SlotForm DEF Good
  <2>2. UNCHANGED github /\ (state' = Answered(Work(i)) \/ state' = state)
    BY <1>1, <1>7, PersistForm DEF Stops
  <2> QED BY <1>1, <2>1, <2>2, AnsweredForm, QueueKept, StateLeft
<1>8. ASSUME NEW i \in Issues, Fails(i)
      PROVE  StateOK'
  <2>1. Work(i).owner = i /\ Good(Work(i), branch, prs) /\ Work(i) \in State
    BY <1>1, SlotForm DEF Good
  <2>2. PICK t \in Texts(i) :
          /\ UNCHANGED github
          /\ \/ state' = Recorded(Work(i), [target |-> Target(Work(i)), text |-> t])
             \/ state' = state
    BY <1>1, <1>8, PersistForm DEF Fails
  <2>3. [target |-> Target(Work(i)), text |-> t] \in Failure
    BY <1>1, <2>1, TextsForm, TargetForm DEF Failure
  <2> QED BY <1>1, <2>1, <2>2, <2>3, RecordedForm, QueueKept, StateLeft
<1>9. CASE MainMoves
  <2>1. state # NoState /\ state' = [state EXCEPT !.unread = TRUE] /\ UNCHANGED github
    BY <1>9 DEF MainMoves
  <2>2. state' \in State /\ state'.owner = state.owner /\ state'.queue = state.queue
    BY <1>2, <2>1, StateForm
  <2> QED BY <1>2, <2>1, <2>2, QueueKept
<1>10. CASE \/ CIPasses \/ Halt \/ Reconcile \/ UNCHANGED loopVars
            \/ \E i \in Issues : Waits(i) \/ Label(i) \/ CloseByHand(i)
  <2>1. state' = state /\ branch' = branch
    BY <1>10 DEF CIPasses, Halt, Reconcile, Waits, loopVars, Label, CloseByHand, github
  <2>2. PRsStay
    <3>1. CASE CIPasses
      BY <1>1, <3>1, PassForm
    <3>2. CASE ~CIPasses
      BY <1>10, <3>2 DEF Halt, Reconcile, Waits, loopVars, Label, CloseByHand, github, PRsStay
    <3> QED BY <3>1, <3>2
  <2>3. CASE state # NoState
    <3>1. Later(state, state', prs, prs') /\ Kept(branch, branch')
      BY <2>1, <2>2 DEF Later, Kept, PRsStay
    <3>2. Good(state', branch', prs')
      BY <1>2, <2>1, <2>3, <3>1, StaysGood
    <3> QED BY <3>2 DEF StateOK
  <2> QED BY <2>1, <2>3 DEF StateOK
<1>11. CASE Execute
  <2>1. PICK p \in DOMAIN state.queue :
          /\ state' = [state EXCEPT !.queue[p] = "complete",
                                    !.unread = state.unread \/ p.act = "merge_pr"]
          /\ ExecuteFile(p) \/ ExecuteCreatePR(p) \/ ExecuteMerge(p) \/ ExecuteClose(p)
    BY <1>11 DEF Execute
  <2>2. state # NoState
    BY <2>1 DEF NoState
  <2>3. state \in State /\ Good(state, branch, prs) /\ Executable(p, branch, prs)
    BY <1>2, <2>1, <2>2 DEF Good
  <2> DEFINE q == [state.queue EXCEPT ![p] = "complete"]
             u == state.unread \/ p.act = "merge_pr"
  <2>4. q \in Queues /\ DOMAIN q = DOMAIN state.queue
        /\ \A x \in DOMAIN state.queue : state.queue[x] = "complete" => q[x] = "complete"
    BY <2>1, <2>3, StateForm
  <2>5. u \in BOOLEAN
    OBVIOUS
  <2>6. state' = [state EXCEPT !.queue = q, !.unread = u]
    BY <2>1
  <2> HIDE DEF q, u
  <2>7. state' \in State /\ state'.owner = state.owner /\ state'.queue = q
    BY <2>3, <2>4, <2>5, <2>6, StateForm
  <2>8. Kept(branch, branch') /\ PRsStay
    BY <1>1, <2>1, <2>3, StateForm, ExecuteForm
  <2>9. Later(state, state', prs, prs')
    BY <2>4, <2>7, <2>8 DEF Later, PRsStay
  <2>10. Good(state', branch', prs')
    BY <2>3, <2>4, <2>7, <2>8, <2>9, StaysGood
  <2> QED BY <2>10 DEF StateOK
<1> QED BY <1>3, <1>4, <1>5, <1>6, <1>7, <1>8, <1>9, <1>10, <1>11
        DEF LoopNext, Cycle, Provider, Environment

LEMMA GitHubOKStep ==
  ASSUME LoopInvariant, [LoopNext]_loopVars
  PROVE  GitHubOK'
<1>1. GitHubOK /\ StateOK
  BY DEF LoopInvariant
<1>2. CASE UNCHANGED github
  BY <1>1, <1>2 DEF GitHubOK, github
<1>3. CASE CIPasses
  BY <1>1, <1>3, PassForm
<1>4. CASE \E i \in Issues : Label(i) \/ CloseByHand(i)
  BY <1>1, <1>4 DEF Label, CloseByHand, GitHubOK
<1>5. CASE Execute
  <2>1. PICK p \in DOMAIN state.queue :
          ExecuteFile(p) \/ ExecuteCreatePR(p) \/ ExecuteMerge(p) \/ ExecuteClose(p)
    BY <1>5 DEF Execute
  <2>2. state # NoState
    BY <2>1 DEF NoState
  <2>3. p \in Plan /\ state.owner \in Issues /\ Executable(p, branch, prs)
    BY <1>1, <2>1, <2>2, StateForm DEF StateOK, Good
  <2> QED BY <1>1, <2>1, <2>3, ExecuteForm
<1> QED BY <1>2, <1>3, <1>4, <1>5
        DEF LoopNext, Cycle, Provider, Environment, Retire, CloseIssue, MergeReady, Halt,
            Reconcile, Plans, Stops, Fails, Waits, Persist, MainMoves, loopVars, github

-----------------------------------------------------------------------------
(* The slot and the ledger.                                                 *)

\* The statuses of the issue that has the turn.
Busy == {"reasoning_required", "planned"}

\* A cycle that reconciles the ledger invents no work, takes none from the owner that
\* keeps its slot, and lists only issues there are.
LEMMA LedgerForm ==
  ASSUME StatusOK, Listed
  PROVE  /\ Ledger \in [Issues -> Lifecycle \cup {"absent"}]
         /\ \A i \in Issues : Ledger[i] \in Busy => status[i] \in Busy
         /\ \A i \in Issues : issue[i] = "absent" => Ledger[i] = "absent"
<1>1. \A i \in Issues : issue[i] = "absent" => status[i] = "absent" /\ state.owner # i
  BY DEF Listed
<1> QED BY <1>1 DEF StatusOK, Ledger, Lifecycle, Busy

\* The issue with the turn has the slot, or the slot is free and no other is busy.
LEMMA WorkerAlone ==
  ASSUME LoopInvariant, NEW i \in Issues, Reasons(i) \/ HasTurn(i)
  PROVE  /\ Slot \in {i, None} /\ issue[i] # "absent"
         /\ \A j \in Issues : Ledger[j] \in Busy => i = j
<1>1. /\ StatusOK /\ Listed
      /\ \A j \in Issues : Ledger[j] \in Busy => status[j] \in Busy
      /\ \A j \in Issues : issue[j] = "absent" => Ledger[j] = "absent"
  BY LedgerForm DEF LoopInvariant
<1>2. i # None
  BY LoopAssumption
<1>3. Ledger[i] # "absent" /\ Slot \in {i, None}
  BY DEF Reasons, Continues, HasTurn, Waiting, Planned
<1>4. ASSUME NEW j \in Issues, Ledger[j] \in Busy
      PROVE  i = j
  <2>1. /\ Slot \in {j, None}
        /\ \A k \in Issues : status[k] \in Busy => k = j
    BY <1>1, <1>4 DEF LoopInvariant, OneWorkload, Busy
  <2>2. CASE Slot = i
    BY <1>2, <2>1, <2>2
  <2>3. CASE Slot = None
    <3>1. HasTurn(i)
      BY <1>2, <2>3 DEF Reasons, Continues
    <3>2. j \in Waiting \/ j \in Planned
      BY <1>4 DEF Busy, Waiting, Planned
    <3>3. Waiting = {i} \/ (Waiting = {} /\ (Planned = {i} \/ Planned = {}))
      BY <3>1 DEF HasTurn
    <3>4. CASE Waiting = {i}
      <4>1. status[i] \in Busy
        BY <1>1, <3>4 DEF Waiting, Busy
      <4> QED BY <2>1, <4>1
    <3> QED BY <3>2, <3>3, <3>4
  <2> QED BY <1>3, <2>2, <2>3
<1> QED BY <1>1, <1>3, <1>4

\* The ledger and the workload change hands, or the ledger alone does.
LEMMA HandedOver ==
  ASSUME LoopInvariant, NEW i \in Issues, issue[i] # "absent",
         NEW x \in Lifecycle, status' = Entered(i, x), crashes' \in 0..MaxCrashes,
         UNCHANGED issue,
         state'.owner = i \/ (state' = state /\ Slot \in {i, None}),
         \A j \in Issues : Ledger[j] \in Busy => i = j
  PROVE  StatusOK' /\ Listed' /\ OneWorkload'
<1>1. status' = [Ledger EXCEPT ![i] = x]
  BY DEF Entered
<1>2. /\ Ledger \in [Issues -> Lifecycle \cup {"absent"}]
      /\ \A j \in Issues : issue[j] = "absent" => Ledger[j] = "absent" /\ state.owner # j
  BY LedgerForm DEF LoopInvariant, Listed
<1>3. StatusOK'
  BY <1>1, <1>2 DEF StatusOK
<1>4. Listed'
  BY <1>1, <1>2 DEF Listed
<1>5. Slot' \in {i, None}
  <2>1. CASE state'.owner = i
    BY <2>1 DEF Slot
  <2>2. CASE state' = state /\ Slot \in {i, None}
    BY <2>2 DEF Slot, Yields
  <2> QED BY <2>1, <2>2
<1>6. \A j \in Issues : status'[j] \in Busy => j = i
  BY <1>1, <1>2
<1> QED BY <1>3, <1>4, <1>5, <1>6 DEF OneWorkload, Busy

\* The slot can only get free while the ledger stays as it is.
LEMMA SlotFreed ==
  ASSUME LoopInvariant, UNCHANGED <<status, crashes>>, Listed', Slot' \in {Slot, None}
  PROVE  StatusOK' /\ Listed' /\ OneWorkload'
BY DEF LoopInvariant, StatusOK, OneWorkload

LEMMA OneWorkloadStep ==
  ASSUME LoopInvariant, [LoopNext]_loopVars
  PROVE  StatusOK' /\ Listed' /\ OneWorkload'
<1>1. StatusOK /\ StateOK /\ Listed /\ OneWorkload
  BY DEF LoopInvariant
<1>2. state # NoState => state \in State /\ state.owner \in Issues
  BY <1>1, StateForm DEF StateOK, Good
<1>3. \A j \in Issues : Ledger[j] \in Busy => Slot \in {j, None}
  BY <1>1, LedgerForm DEF OneWorkload, Busy
<1>4. \A i \in Issues : Work(i).owner = i /\ Work(i) \in State
  BY <1>1, SlotForm DEF Good
<1>5. None \notin Issues
  BY LoopAssumption
<1>6. state # NoState => issue[state.owner] # "absent"
  BY <1>1, <1>2 DEF Listed
<1>7. CASE Retire \/ CloseIssue \/ MergeReady
  <2>1. state # NoState /\ Slot = state.owner
    <3>1. CASE Retire
      BY <3>1 DEF Retire, Retires, Slot, Yields
    <3>2. CASE CloseIssue
      BY <3>2 DEF CloseIssue, Closes, Slot
    <3>3. CASE MergeReady
      BY <3>3 DEF MergeReady, ReadyPRs, Slot
    <3> QED BY <1>7, <3>1, <3>2, <3>3
  <2>2. PICK x \in Lifecycle :
          \E s : Persist(Entered(state.owner, x), s) /\ s.owner = state.owner
    <3>1. CASE Retire
      <4>1. [state EXCEPT !.retired = TRUE].owner = state.owner
        BY <1>2, <2>1, StateForm
      <4> QED BY <3>1, <4>1 DEF Retire, Lifecycle
    <3>2. \A p : Queued(state, p).owner = state.owner
      BY <1>2, <2>1, StateForm DEF Queued
    <3>3. CASE CloseIssue
      BY <3>2, <3>3 DEF CloseIssue, Lifecycle
    <3>4. CASE MergeReady
      BY <3>2, <3>4 DEF MergeReady, Lifecycle
    <3> QED BY <1>7, <3>1, <3>3, <3>4
  <2>3. /\ status' = Entered(state.owner, x) /\ state'.owner = state.owner
        /\ crashes' \in 0..MaxCrashes /\ UNCHANGED issue
    BY <1>1, <2>2, PersistForm DEF github
  <2>4. \A j \in Issues : Ledger[j] \in Busy => state.owner = j
    BY <1>2, <1>3, <1>5, <2>1
  <2> QED BY <1>2, <1>6, <2>1, <2>3, <2>4, HandedOver
<1>8. CASE Halt \/ \E i \in Issues : Waits(i)
  <2>1. PICK i \in Issues :
          /\ Reasons(i) \/ HasTurn(i)
          /\ status' = Entered(i, "reasoning_required")
          /\ UNCHANGED <<github, state, crashes>>
    BY <1>8 DEF Halt, Halts, Waits
  <2>2. /\ Slot \in {i, None} /\ issue[i] # "absent"
        /\ \A j \in Issues : Ledger[j] \in Busy => i = j
    BY <2>1, WorkerAlone
  <2>3. "reasoning_required" \in Lifecycle /\ crashes' \in 0..MaxCrashes /\ UNCHANGED issue
    BY <1>1, <2>1 DEF Lifecycle, StatusOK, github
  <2> QED BY <2>1, <2>2, <2>3, HandedOver
<1>9. CASE Reconcile
  <2>1. status' = Ledger /\ UNCHANGED <<issue, state, crashes>>
    BY <1>9 DEF Reconcile, github
  <2>2. StatusOK' /\ Listed'
    BY <1>1, <2>1, LedgerForm DEF StatusOK, Listed
  <2>3. Slot' = Slot
    BY <2>1 DEF Slot, Yields
  <2> QED BY <1>1, <2>1, <2>2, <2>3, LedgerForm DEF OneWorkload, Busy
<1>10. ASSUME NEW i \in Issues, Plans(i) \/ Stops(i) \/ Fails(i)
       PROVE  StatusOK' /\ Listed' /\ OneWorkload'
  <2>1. Reasons(i)
    BY <1>10 DEF Plans, Stops, Fails, Asks
  <2>2. /\ Slot \in {i, None} /\ issue[i] # "absent"
        /\ \A j \in Issues : Ledger[j] \in Busy => i = j
    BY <2>1, WorkerAlone
  <2>3. Answered(Work(i)) \in State /\ Answered(Work(i)).owner = i
    BY <1>4, AnsweredForm
  <2>4. \E x \in Lifecycle : \E s : Persist(Entered(i, x), s) /\ s.owner = i
    <3>1. CASE Plans(i)
      BY <2>3, <3>1, StateForm DEF Plans, Queued, Lifecycle
    <3>2. CASE Stops(i)
      BY <2>3, <3>2 DEF Stops, LifecycleOf, Lifecycle
    <3>3. \A f : Recorded(Work(i), f).owner = i
      BY <1>4, StateForm DEF Recorded
    <3>4. CASE Fails(i)
      BY <3>3, <3>4 DEF Fails, Lifecycle
    <3> QED BY <1>10, <3>1, <3>2, <3>4
  <2>5. PICK x \in Lifecycle : \E s : Persist(Entered(i, x), s) /\ s.owner = i
    BY <2>4
  <2>6. /\ status' = Entered(i, x)
        /\ state'.owner = i \/ (state' = state /\ Slot \in {i, None})
        /\ crashes' \in 0..MaxCrashes /\ UNCHANGED issue
    <3>1. PICK s : Persist(Entered(i, x), s) /\ s.owner = i
      BY <2>5
    <3>2. /\ status' = Entered(i, x) /\ UNCHANGED github
          /\ state' = s \/ state' = state
          /\ crashes' \in 0..MaxCrashes
      BY <1>1, <3>1, PersistForm
    <3> QED BY <2>2, <3>1, <3>2 DEF github
  <2> QED BY <2>2, <2>6, HandedOver
<1>11. CASE Execute
  <2>1. PICK p \in DOMAIN state.queue :
          /\ state.queue[p] = "pending"
          /\ state' = [state EXCEPT !.queue[p] = "complete",
                                    !.unread = state.unread \/ p.act = "merge_pr"]
          /\ ExecuteFile(p) \/ ExecuteCreatePR(p) \/ ExecuteMerge(p) \/ ExecuteClose(p)
    BY <1>11 DEF Execute
  <2>2. state # NoState
    BY <2>1 DEF NoState
  <2>3. state'.owner = state.owner /\ UNCHANGED <<status, crashes>>
    BY <1>2, <1>11, <2>1, <2>2, StateForm DEF Execute
  <2>4. issue' = issue \/ issue' = [issue EXCEPT ![state.owner] = "closed"]
    BY <2>1 DEF ExecuteFile, ExecuteCreatePR, ExecuteMerge, ExecuteClose
  <2>5. Listed'
    BY <1>1, <1>2, <2>2, <2>3, <2>4 DEF Listed, LoopInvariant, GitHubOK
  <2>6. ~CanRollover(state)
    BY <2>1 DEF CanRollover, Unexecuted, Quiescent
  <2>7. Slot = state.owner
    BY <2>2, <2>6 DEF Slot, Yields
  <2>8. Slot' \in {state.owner, None}
    BY <2>3 DEF Slot
  <2> QED BY <2>3, <2>5, <2>7, <2>8, SlotFreed
<1>12. CASE MainMoves
  <2>1. state # NoState /\ state' = [state EXCEPT !.unread = TRUE]
        /\ UNCHANGED <<issue, status, crashes>>
    BY <1>12 DEF MainMoves, github
  <2>2. /\ state'.owner = state.owner /\ state'.queue = state.queue
        /\ state'.failures = state.failures /\ state'.retired = state.retired
    BY <1>2, <2>1, StateForm
  <2>3. Listed'
    BY <1>1, <2>1, <2>2 DEF Listed
  <2>4. CanRollover(state') <=> CanRollover(state)
    BY <2>2 DEF CanRollover, Failing, Unexecuted, Quiescent
  <2>5. Slot' \in {Slot, None}
    BY <2>1, <2>2, <2>4 DEF Slot, Yields
  <2> QED BY <2>1, <2>3, <2>5, SlotFreed
<1>13. CASE \E i \in Issues : Label(i) \/ CloseByHand(i)
  <2>1. PICK i \in Issues : Label(i) \/ CloseByHand(i)
    BY <1>13
  <2>2. UNCHANGED <<status, state, crashes>>
    BY <2>1 DEF Label, CloseByHand
  <2>3. issue \in [Issues -> {"absent", "open", "closed"}]
    BY DEF LoopInvariant, GitHubOK
  <2>4. Listed'
    BY <1>1, <2>1, <2>2, <2>3 DEF Label, CloseByHand, Listed
  <2>5. CASE Label(i)
    <3>1. state.owner # i
      BY <1>1, <2>5 DEF Label, Listed
    <3>2. state # NoState => issue'[state.owner] = issue[state.owner]
      BY <1>2, <2>3, <2>5, <3>1 DEF Label
    <3>3. Slot' = Slot
      BY <2>2, <3>2 DEF Slot, Yields
    <3> QED BY <2>2, <2>4, <3>3, SlotFreed
  <2>6. CASE CloseByHand(i)
    <3>1. \A j \in Issues : issue[j] # "open" => issue'[j] # "open"
      BY <2>3, <2>6 DEF CloseByHand
    <3>2. state # NoState /\ Yields => Yields'
      BY <1>2, <2>2, <3>1 DEF Yields
    <3>3. Slot' \in {Slot, None}
      BY <2>2, <3>2 DEF Slot
    <3> QED BY <2>2, <2>4, <3>3, SlotFreed
  <2> QED BY <2>1, <2>5, <2>6
<1>14. CASE CIPasses \/ UNCHANGED loopVars
  <2>1. UNCHANGED <<issue, status, state, crashes>>
    BY <1>14 DEF CIPasses, loopVars
  <2> QED BY <1>1, <2>1 DEF StatusOK, Listed, OneWorkload, Slot, Yields
<1> QED BY <1>7, <1>8, <1>9, <1>10, <1>11, <1>12, <1>13, <1>14
        DEF LoopNext, Cycle, Provider, Environment

LEMMA LoopStart == LoopInit => LoopInvariant
<1> SUFFICES ASSUME LoopInit PROVE LoopInvariant
  OBVIOUS
<1>1. prs \in Seq(PullRequest) /\ DOMAIN prs = {}
  BY DEF LoopInit
<1>2. GitHubOK /\ StatusOK
  BY <1>1, LoopAssumption DEF LoopInit, GitHubOK, StatusOK
<1>3. Listed
  BY LoopAssumption DEF LoopInit, Listed, NoState
<1> QED BY <1>2, <1>3 DEF LoopInit, LoopInvariant, StateOK, OneWorkload

THEOREM LoopAlways == LoopSpec => []LoopInvariant
<1>1. LoopInvariant /\ [LoopNext]_loopVars => LoopInvariant'
  BY GitHubOKStep, StateOKStep, OneWorkloadStep DEF LoopInvariant
<1> QED BY <1>1, LoopStart, PTL DEF LoopSpec

\* The issues, the pull requests, the ledger and the workload have their types.
THEOREM LoopTypeCorrect == LoopSpec => []LoopTypeOK
<1>1. LoopInvariant => LoopTypeOK
  <2> SUFFICES ASSUME LoopInvariant PROVE LoopTypeOK
    OBVIOUS
  <2>1. ASSUME state # NoState
        PROVE  /\ state.owner \in Issues
               /\ state.unread \in BOOLEAN /\ state.retired \in BOOLEAN
               /\ state.queue \in Queues /\ state.failures \in Failures
    BY <2>1, StateForm DEF LoopInvariant, StateOK, Good
  <2>2. \A q \in Queues : /\ DOMAIN q \subseteq Plan
                          /\ \A p \in DOMAIN q : q[p] \in {"pending", "complete"}
    BY StateForm
  <2>3. \A q \in Failures : /\ DOMAIN q \subseteq Failure
                            /\ \A f \in DOMAIN q : q[f] \in ActiveStatuses \cup {"resolved"}
    BY StateForm
  <2> QED BY <2>1, <2>2, <2>3 DEF LoopInvariant, GitHubOK, StatusOK, LoopTypeOK
<1> QED BY <1>1, LoopAlways, PTL

\* Work on a criterion begins only when all those before it are integrated.
THEOREM CriteriaInOrder == LoopSpec => []Ordered
<1>1. LoopInvariant => Ordered
  BY IntegratedIs DEF LoopInvariant, StateOK, Good, Due, Ordered
<1> QED BY <1>1, LoopAlways, PTL

\* One issue waits for an answer or has a plan, and the slot is its own or free,
\* though jobs die between the ledger write and the state write.
THEOREM OneIssueAtATime == LoopSpec => []OneWorkload
BY LoopAlways, PTL DEF LoopInvariant
=============================================================================
