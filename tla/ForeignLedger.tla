---------------------------- MODULE ForeignLedger ----------------------------
(***************************************************************************)
(* What the ledger of a foreign issue promises: one document with a phase, *)
(* the facts about the target it was admitted for and at most one plan,    *)
(* which moves from phase to phase as if every job were one step.          *)
(*                                                                         *)
(* A plan is written for the facts beside it, is reviewed before it is     *)
(* dispatched, and is never replaced; the facts change only while there is *)
(* no plan; and a later revision never takes the work back.                *)
(***************************************************************************)
EXTENDS Naturals

CONSTANTS
  Facts,  \* what a plan can be written for: issue and base of the target
  NoPlan  \* not one of them

VARIABLE work

Init == work.phase = "absent" /\ work.plan = NoPlan

\* Every step but the first is a later revision.
Move(from, to) ==
  /\ work.phase \in from /\ work'.phase = to
  /\ work'.revision > work.revision

Kept == work'.facts = work.facts /\ work'.plan = work.plan

Admit ==
  /\ work.phase = "absent" /\ work'.phase = "reasoning_required"
  /\ work'.facts \in Facts /\ work'.plan = NoPlan

\* Other facts, acknowledged by the owner, as long as nothing was planned.
Readmit ==
  /\ Move({"reasoning_required", "revision_required"}, "reasoning_required")
  /\ work.plan = NoPlan /\ work'.plan = NoPlan
  /\ work'.facts \in Facts \ {work.facts}

Reason == Move({"reasoning_required"}, "reasoning_required") /\ Kept

Propose ==
  /\ Move({"reasoning_required"}, "review_required")
  /\ work.plan = NoPlan /\ work'.plan = work.facts
  /\ work'.facts = work.facts

Approve == Move({"review_required"}, "dispatch_ready") /\ Kept
Dispatch == Move({"dispatch_ready"}, "dispatched") /\ Kept
Execute == Move({"dispatched", "ci_pending"}, "ci_pending") /\ Kept
Verify == Move({"ci_pending"}, "ci_verified") /\ Kept

Revise ==
  /\ work.phase # "absent"
  /\ Move({work.phase}, "revision_required")
  /\ Kept

Next ==
  \/ Admit \/ Readmit \/ Reason \/ Propose \/ Approve \/ Dispatch
  \/ Execute \/ Verify \/ Revise

Spec == Init /\ [][Next]_work
=============================================================================
