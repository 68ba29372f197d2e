--------------------------- MODULE RiskLifecycle ---------------------------
(***************************************************************************)
(* The decisions of open_crypto_signal_engine/risk/lifecycle.py: where the *)
(* stop of a position belongs after which milestone.  A plan is the side of *)
(* a trade, its average entry, first stop and targets.  Prices are numbers  *)
(* of ticks, so isclose is equality; 0 is the code's None, no stop.         *)
(***************************************************************************)
EXTENDS Integers

NoStop == 0
Milestones == {1, 2}                    \* TP1 and TP2 filled

\* is_stricter_stop.
Stricter(side, candidate, reference) ==
  IF side = "LONG" THEN candidate > reference ELSE candidate < reference

AtLeast(side, candidate, reference) ==
  candidate = reference \/ Stricter(side, candidate, reference)

\* _strictest_stop.
LoosestStop(side, first, second) ==     \* mutant: the comparison turned round
  IF Stricter(side, first, second) THEN second ELSE first
StrictestStop(side, first, second) ==
  IF Stricter(side, first, second) THEN first ELSE second

\* evaluate_post_tp_protection refuses a first target that is not beyond the entry.
Evaluates(plan) == Stricter(plan.side, plan.tp1, plan.entry)

\* The stop that the last of the milestones calls for, and the initial one before any.
Desired(plan, hit) ==
  IF 2 \in hit THEN plan.tp1 ELSE IF 1 \in hit THEN plan.entry ELSE plan.stop

\* What the stop should be, and whether that is a change.
Effective(plan, hit, current) ==
  IF current = NoStop THEN Desired(plan, hit)
  ELSE StrictestStop(plan.side, current, Desired(plan, hit))
MovesStop(plan, hit, current) == Effective(plan, hit, current) # current
=============================================================================
