---------------------------- MODULE MarginAssist ----------------------------
(***************************************************************************)
(* The margin added to an isolated position so that it is not liquidated   *)
(* before its stop: _ensure_liquidation_buffer while a trade is opened or  *)
(* recovered, and the operator's manual_add_margin.  Both hold the lock of *)
(* the symbol.  Money is in whole units, of which a quarter is rounded up:  *)
(* four steps are never less than the margin, as with the code's floats.   *)
(***************************************************************************)
EXTENDS Integers

CONSTANTS
  Positions,   \* [initial margin, extra margin that makes the stop safe, wallet]
  Ratio,       \* cfg.smart_margin_max_extra_ratio
  Step,        \* cfg.smart_margin_step_usdt
  Share,       \* 1 / cfg.max_margin_fraction
  Turns,       \* the 20 turns of the loop
  Amounts,     \* what an operator may ask for
  MaxCrashes

VARIABLES
  position,    \* Bybit: what does not change of it
  extra,       \* Bybit: margin added
  stored,      \* SQLite: extra_margin_usdt
  opened,      \* SQLite: mark_opened was reached
  at,          \* how far the coroutine with the lock is; "free": nobody has it
  call,        \* its locals: cap, step, added, turns left, amount under way
  calls, lost, \* history: calls of the assist; margin that was never recorded
  crashes
vars == <<position, extra, stored, opened, at, call, calls, lost, crashes>>

Lesser(a, b) == IF a < b THEN a ELSE b
Greater(a, b) == IF a > b THEN a ELSE b

\* The liquidation price is at a buffer's distance from the stop (safe).
Safe == extra >= position.needed
\* Bybit's positionIM, which the code takes to hold what was added.
PositionIM == position.initial + extra
Available == position.wallet - extra
Idle == [cap |-> 0, step |-> 0, added |-> 0, turns |-> 0, amount |-> 0]

Init ==
  /\ position \in Positions /\ extra = 0 /\ stored = 0 /\ opened = FALSE /\ at = "free" /\ call = Idle
  /\ calls = 0 /\ lost = FALSE /\ crashes = 0

\* The bound of the whole call is set at its beginning.
Begin ==
  /\ at = "free" /\ ~opened /\ calls' = calls + 1
  /\ LET cap == Lesser(PositionIM * Ratio, Greater(0, Available) \div Share)
     IN \/ Safe /\ at' = "protected" /\ UNCHANGED call
        \/ ~Safe /\ cap = 0 /\ at' = "unavailable" /\ UNCHANGED call
        \/ /\ ~Safe /\ cap > 0 /\ at' = "adding"
           /\ call' = [cap |-> cap, step |-> Greater(Step, (PositionIM + 3) \div 4), added |-> 0,
                       turns |-> Turns, amount |-> 0]
  /\ UNCHANGED <<position, extra, stored, opened, lost, crashes>>

Add ==
  /\ at = "adding" /\ call.turns > 0 /\ call.added < call.cap
  /\ \/ LET amount == Lesser(call.step, call.cap - call.added)
        IN /\ extra' = extra + amount /\ at' = "noting"
           /\ call' = [call EXCEPT !.added = @ + amount, !.amount = amount, !.turns = @ - 1]
     \/ at' = "failed" /\ UNCHANGED <<extra, call>>
  /\ UNCHANGED <<position, stored, opened, calls, lost, crashes>>

Note ==
  /\ at = "noting"
  /\ stored' = stored + call.amount
  /\ at' = IF Safe THEN "protected" ELSE "adding"
  /\ UNCHANGED <<position, extra, opened, call, calls, lost, crashes>>

Exhausted ==
  /\ at = "adding" /\ (call.turns = 0 \/ call.added = call.cap)
  /\ at' = "exhausted"
  /\ UNCHANGED <<position, extra, stored, opened, call, calls, lost, crashes>>

Opened ==
  /\ at = "protected" /\ opened' = TRUE /\ at' = "free"
  /\ UNCHANGED <<position, extra, stored, call, calls, lost, crashes>>

\* manual_add_margin, also of a trade that waits for its recovery: what it has had already
\* counts.
InitialEstimate == Greater(PositionIM - stored, position.initial)
ManualRoom == Greater(0, InitialEstimate * Ratio - stored)
ManualRoomWhole == InitialEstimate * Ratio                      \* mutant: it does not
ManualLeft == ManualRoom

ManualAdd(amount) ==
  /\ at = "free" /\ calls > 0 /\ amount <= Available /\ amount <= ManualLeft
  /\ extra' = extra + amount /\ call' = [Idle EXCEPT !.amount = amount] /\ at' = "manual"
  /\ UNCHANGED <<position, stored, opened, calls, lost, crashes>>

ManualNote ==
  /\ at = "manual" /\ stored' = stored + call.amount /\ at' = "free"
  /\ UNCHANGED <<position, extra, opened, call, calls, lost, crashes>>

\* A trade that was still being opened is recovered, which calls the assist again.
Crash ==
  /\ at \in {"free", "adding", "noting", "protected", "manual"} /\ crashes < MaxCrashes
  /\ calls > 0 /\ crashes' = crashes + 1 /\ at' = "free" /\ call' = Idle
  /\ lost' = (lost \/ at \in {"noting", "manual"})
  /\ UNCHANGED <<position, extra, stored, opened, calls>>

Next ==
  \/ Begin \/ Add \/ Note \/ Exhausted \/ Opened \/ ManualNote \/ Crash
  \/ \E amount \in Amounts : ManualAdd(amount)

-----------------------------------------------------------------------------
(* Property *)

\* "Default per-trade Smart Margin cap: up to +100% of the position's initial isolated
\* margin" (apps/autotrader/README.md:17): whatever assist and operator add to a trade
\* whose opening was not interrupted stays within the ratio; and a call that gives up
\* has added all it may, so its 20 turns are never what stops it.
MarginBounded ==
  /\ calls <= 1 /\ ~lost => extra <= position.initial * Ratio
  /\ at = "exhausted" => call.added = call.cap
=============================================================================
