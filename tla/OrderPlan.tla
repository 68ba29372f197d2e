----------------------------- MODULE OrderPlan -----------------------------
(***************************************************************************)
(* How much a trade buys, and the three take-profit orders that sell it    *)
(* again: the sizing in execute, split_qty, and _restore_tp_orders after   *)
(* an opening that was interrupted.  Prices, quantities and money are      *)
(* integers; fractions of the quantity are tenths, the tolerances of the   *)
(* sizing thousandths, as in the code.                                     *)
(***************************************************************************)
EXTENDS Integers

CONSTANTS
  Cases,        \* the requests: market, stop, budget, margin, lot and leverage limits
  LeverageWanted,  \* cfg.leverage
  MinMargin,    \* cfg.min_margin_usdt
  MaxNotional,  \* cfg.max_notional_usdt; 0: none
  Tenths,       \* cfg.tp1_fraction, tp2_fraction (the third target takes the rest)
  Unfilled,     \* lots of an entry that may stay unfilled
  MaxCrashes, MaxCancels

VARIABLES
  case,         \* the request
  stage,        \* how far execute, or the recovery, has come
  pos,          \* Bybit: size of the position
  plan,         \* SQLite: tp1..3_expected_qty
  tp,           \* Bybit: the take-profit orders, by number
  booked,       \* SQLite: what of each is in the fills
  next, left,   \* _restore_tp_orders: the target in hand, remaining_position
  missed,       \* history: the recovery did not know every fill
  crashes, cancels
vars == <<case, stage, pos, plan, tp, booked, next, left, missed, crashes, cancels>>

Targets == 1..3
NoOrder == [at |-> "none", qty |-> 0, filled |-> 0]

Lesser(a, b) == IF a < b THEN a ELSE b
Greater(a, b) == IF a > b THEN a ELSE b
Abs(n) == IF n < 0 THEN -n ELSE n
Sum3(f) == f[1] + f[2] + f[3]

-----------------------------------------------------------------------------
(* Sizing (executor.py:60-81, 272-357; bybit_demo.py:431-481). *)

\* _select_leverage: the highest step at or below the target.
Leverage(lev) ==
  LET best == Lesser(LeverageWanted, lev.max)
  IN IF lev.step > 0 THEN (best \div lev.step) * lev.step ELSE best
LeverageValid(lev) == 0 < lev.min /\ lev.min <= lev.max /\ lev.min <= Leverage(lev)

FloorStep(qty, lot) == (qty \div lot.step) * lot.step
QtyUp(notional, market, lot) ==
  LET unit == market * lot.step
  IN Greater(((notional + unit - 1) \div unit) * lot.step, lot.min)

SplitQty(total, lot) ==
  LET whole == FloorStep(total, lot)
      first == FloorStep((whole * Tenths[1]) \div 10, lot)
      second == FloorStep((whole * Tenths[2]) \div 10, lot)
  IN <<first, second, whole - first - second>>
Splits(total, lot) == \A n \in Targets : SplitQty(total, lot)[n] >= lot.min

\* The notional of the smallest trade, and that of the largest.
FloorNotional(c) == MinMargin * Leverage(c.lev)
CapNotional(c) ==
  LET margin == c.margin * Leverage(c.lev)
  IN IF MaxNotional > 0 THEN Lesser(margin, MaxNotional) ELSE margin
Distance(c) == Abs(c.market - c.stop)

\* quantize_qty of the notional asked for.
Quantity(c) ==
  LET unit == c.market * c.lot.step
      risked == c.budget \div (Distance(c) * c.lot.step)
      lots == Lesser(Greater(risked, FloorNotional(c) \div unit), CapNotional(c) \div unit)
  IN Greater(lots * c.lot.step, c.lot.min)
BelowFloor(c) == Quantity(c) * c.market < FloorNotional(c)
OrderQty(c) == IF BelowFloor(c) THEN QtyUp(FloorNotional(c), c.market, c.lot) ELSE Quantity(c)
FloorApplied(c) == BelowFloor(c) \/ c.budget * c.market < FloorNotional(c) * Distance(c)

TradableUnsplit(c) ==        \* mutant: the order goes out before the split is tried
  /\ LeverageValid(c.lev) /\ Distance(c) > 0
  /\ FloorNotional(c) <= CapNotional(c)
  /\ OrderQty(c) * c.market >= c.lot.notional
  /\ OrderQty(c) * c.market * 1000 <= CapNotional(c) * 1001
  /\ OrderQty(c) * Distance(c) * 1000 <= c.budget * 1001 \/ FloorApplied(c)
Tradable(c) ==
  /\ LeverageValid(c.lev) /\ Distance(c) > 0
  /\ FloorNotional(c) <= CapNotional(c)
  /\ OrderQty(c) * c.market >= c.lot.notional
  /\ OrderQty(c) * c.market * 1000 <= CapNotional(c) * 1001
  /\ Splits(OrderQty(c), c.lot)
  /\ OrderQty(c) * Distance(c) * 1000 <= c.budget * 1001 \/ FloorApplied(c)

-----------------------------------------------------------------------------
(* Opening (executor.py:359-419). *)

Init ==
  /\ case \in Cases /\ stage = "received"
  /\ pos = 0 /\ plan = [n \in Targets |-> 0] /\ booked = [n \in Targets |-> 0]
  /\ tp = [n \in Targets |-> NoOrder]
  /\ next = 1 /\ left = 0 /\ missed = FALSE /\ crashes = 0 /\ cancels = 0

Size ==
  /\ stage = "received"
  /\ \/ ~Tradable(case) /\ stage' = "refused" /\ UNCHANGED plan
     \/ Tradable(case) /\ stage' = "submitted" /\ plan' = SplitQty(OrderQty(case), case.lot)
  /\ UNCHANGED <<case, pos, tp, booked, next, left, missed, crashes, cancels>>

\* A market order may be filled but for some lots; its rest is cancelled (place_market_entry).
EntryFills ==
  /\ stage = "submitted" /\ pos = 0
  /\ \E unfilled \in Unfilled :
       pos' = OrderQty(case) - unfilled * case.lot.step /\ pos' > 0
  /\ stage' = "filled"
  /\ UNCHANGED <<case, plan, tp, booked, next, left, missed, crashes, cancels>>

\* The plan again, for what was filled; too small a part of it ends in the failsafe.
Replan ==
  /\ stage = "filled"
  /\ \/ Splits(pos, case.lot) /\ plan' = SplitQty(pos, case.lot) /\ stage' = "placing" /\ next' = 1
     \/ ~Splits(pos, case.lot) /\ stage' = "failsafe" /\ UNCHANGED <<plan, next>>
  /\ UNCHANGED <<case, pos, tp, booked, left, missed, crashes, cancels>>

Order(n, qty) == tp' = [tp EXCEPT ![n] = [at |-> "open", qty |-> qty, filled |-> 0]]
Onwards == IF next = 3 THEN stage' = "active" /\ UNCHANGED next
           ELSE next' = next + 1 /\ UNCHANGED stage

Place ==
  /\ stage = "placing"
  /\ Order(next, plan[next]) /\ Onwards
  /\ UNCHANGED <<case, pos, plan, booked, left, missed, crashes, cancels>>

-----------------------------------------------------------------------------
(* The exchange: a target trades, a lot of it or all; somebody cancels one. *)

TargetFills(n) ==
  /\ tp[n].at = "open"
  /\ \E traded \in {case.lot.step, tp[n].qty - tp[n].filled} :
       /\ traded <= pos /\ pos' = pos - traded
       /\ tp' = [tp EXCEPT ![n].filled = @ + traded,
                           ![n].at = IF tp[n].filled + traded = tp[n].qty THEN "filled" ELSE @]
  /\ UNCHANGED <<case, stage, plan, booked, next, left, missed, crashes, cancels>>

Cancelled(n) ==
  /\ tp[n].at = "open" /\ cancels < MaxCancels
  /\ tp' = [tp EXCEPT ![n].at = "cancelled"] /\ cancels' = cancels + 1
  /\ UNCHANGED <<case, stage, pos, plan, booked, next, left, missed, crashes>>

-----------------------------------------------------------------------------
(* A restart, and the recovery of the opening (executor.py:1468-1509, 1546-1587). *)

Crash ==
  /\ stage \in {"filled", "placing", "syncing", "reading", "restoring"} /\ crashes < MaxCrashes
  /\ crashes' = crashes + 1 /\ stage' = "syncing" /\ next' = 1
  /\ UNCHANGED <<case, pos, plan, tp, booked, left, missed, cancels>>

\* _sync_fills; a listing that fails is logged, and the fills stay as they were.
Sync ==
  /\ stage = "syncing" /\ stage' = "reading"
  /\ \/ booked' = [n \in Targets |-> tp[n].filled]
     \/ UNCHANGED booked
  /\ UNCHANGED <<case, pos, plan, tp, next, left, missed, crashes, cancels>>

ReadPosition ==
  /\ stage = "reading"
  /\ \/ pos = 0 /\ stage' = "flat" /\ UNCHANGED <<left, missed>>
     \/ /\ pos > 0 /\ stage' = "restoring" /\ left' = pos
        /\ missed' = (missed \/ \E n \in Targets : booked[n] # tp[n].filled)
  /\ UNCHANGED <<case, pos, plan, tp, booked, next, crashes, cancels>>

Need(n) == Greater(0, plan[n] - booked[n])
Known(n) == tp[n].at \in {"open", "filled"}
LeftAsRead(n) == left                            \* mutant: a live order takes nothing
LeftBeside(n) == Greater(0, left - Need(n))
Restored(n) == Greater(FloorStep(Lesser(Need(n), left), case.lot), case.lot.min)

\* A target that is done or whose order is known stays; a cancelled one, or one that
\* what is left cannot carry, ends in the failsafe.
RestoreTarget ==
  /\ stage = "restoring"
  /\ \/ /\ Need(next) = 0 /\ Onwards /\ UNCHANGED <<tp, left>>
     \/ /\ Need(next) > 0 /\ Known(next)
        /\ left' = LeftBeside(next) /\ Onwards /\ UNCHANGED tp
     \/ /\ Need(next) > 0 /\ tp[next].at = "none" /\ Restored(next) <= left
        /\ Order(next, Restored(next)) /\ left' = Greater(0, left - Restored(next)) /\ Onwards
     \/ /\ Need(next) > 0
        /\ tp[next].at = "cancelled" \/ (tp[next].at = "none" /\ Restored(next) > left)
        /\ stage' = "failsafe" /\ UNCHANGED <<tp, left, next>>
  /\ UNCHANGED <<case, pos, plan, booked, missed, crashes, cancels>>

Next ==
  \/ Size \/ EntryFills \/ Replan \/ Place \/ Crash \/ Sync \/ ReadPosition \/ RestoreTarget
  \/ \E n \in Targets : TargetFills(n) \/ Cancelled(n)

-----------------------------------------------------------------------------
(* Properties *)

\* "The explicit minimum-position policy may override RISK_PCT. Rounding alone may not."
\* (executor.py:352): an order risks no more than the budget, or it is the smallest the
\* floor of the margin admits; in either case it stays within the cap.
RiskWithinBudget ==
  stage \notin {"received", "refused"} =>
    LET qty == OrderQty(case)
    IN /\ \/ qty * Distance(case) * 1000 <= case.budget * 1001
          \/ /\ qty * case.market >= FloorNotional(case)
             /\ (qty - case.lot.step) * case.market < FloorNotional(case)
       /\ qty * case.market * 1000 <= CapNotional(case) * 1001

\* Whatever traded, crashed or was restored meanwhile: the open targets never sell more
\* than the position, and those of an active trade sell all of it, unless one was
\* cancelled or a fill escaped the recovery.
TargetsMatchPosition ==
  LET open == Sum3([n \in Targets |-> IF tp[n].at = "open" THEN tp[n].qty - tp[n].filled ELSE 0])
  IN /\ open <= pos
     /\ stage = "active" /\ cancels = 0 /\ ~missed => open = pos
=============================================================================
