------------------------- MODULE MCBlockerJournal -------------------------
(* Instances of BlockerJournal for TLC.                                     *)
EXTENDS BlockerJournal, TLC
CONSTANTS p1, p2, e1, w1, r1, r2, r3, r4, c1, github, connector

Blocked(ref, source, provider) ==
  [event |-> "BLOCKED", work |-> w1, ref |-> ref, source |-> source,
   provider |-> provider]
Cleared(ref, about, kind, at) ==
  [event |-> "CLEARED", work |-> w1, ref |-> ref, about |-> about,
   kind |-> kind, head |-> at]
Registered(ref) ==
  [event |-> "REGISTERED", work |-> w1, ref |-> ref, head |-> 1]

Swapped == Permutations({p1, p2})

OneWriter == {p1}
TwoWriters == {p1, p2}
OneEngine == {e1}
OneWork == {w1}

Safety == Blocked(r1, "tool_safety", connector)
Red == Blocked(r2, "ci", github)
\* The same receipt recorded under another source.
Unclear == Blocked(r1, "unknown", connector)

SafetyAndRed == {Safety, Red}
OneReceipt == {Safety, Unclear}

Passed(about, at) == Cleared(c1, about, "EXACT_HEAD_CI_PASS", at)
CiPassed == {Passed(r2, 1), Passed(r1, 1)}
SafetyPassed == {Passed(r1, 1)}

NewAndMigrated == {Registered(r3), Registered(r4)}
MigrateSafety == [w \in OneWork |-> <<Safety>>]
EnrolMigrated == [w \in OneWork |-> Registered(r4)]
===========================================================================
