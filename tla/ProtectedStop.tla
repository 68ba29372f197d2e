--------------------------- MODULE ProtectedStop ---------------------------
(***************************************************************************)
(* What the protection of a trade promises (README.md, "monotonic stop     *)
(* protection"; the rules of evaluate_lifecycle): the stop only gets       *)
(* stricter, the protection only advances, and a milestone is protected    *)
(* only when the stop is where it calls for.                               *)
(***************************************************************************)
EXTENDS RiskLifecycle

CONSTANTS Plans
VARIABLES plan, stage, stop             \* stage: the milestones that are protected

vars == <<plan, stage, stop>>

Init == plan \in Plans /\ stage = {} /\ stop = plan.stop

Tighten ==
  /\ stop' \in Nat /\ Stricter(plan.side, stop', stop)
  /\ UNCHANGED <<plan, stage>>

Advance ==
  /\ \E n \in Milestones \ stage :
       AtLeast(plan.side, stop, Desired(plan, {n})) /\ stage' = stage \cup {n}
  /\ UNCHANGED <<plan, stop>>

Next == Tighten \/ Advance
Spec == Init /\ [][Next]_vars
=============================================================================
