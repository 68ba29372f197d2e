---------------------------- MODULE CandleReplay ----------------------------
(***************************************************************************)
(* replay_setup of open_crypto_signal_engine/backtesting/replay.py: one     *)
(* setup against candles that come one by one, under both intrabar          *)
(* policies at once.  Prices are ticks, a fraction of the position a number *)
(* of units, and gross the result in ticks times units, which gross_r       *)
(* divides by the risk.  Fees and slippage are left out.                    *)
(***************************************************************************)
EXTENDS Integers

CONSTANTS
  Setups,     \* TradeSetup: [side, entry, stop, tp, fraction, eligible]
  Candles,    \* [low, high, close]
  MaxCandles  \* bound: candles of a series

INSTANCE RiskLifecycle

Policies == {"ADVERSE_FIRST", "TARGET_FIRST"}
Targets == 1..3
Plan(s) == [side |-> s.side, entry |-> s.entry, stop |-> s.stop, tp1 |-> s.tp[1]]
Whole(s) == s.fraction[1] + s.fraction[2] + s.fraction[3]

\* What TradeSetup.__post_init__ and Candle.__post_init__ let through; a series has its
\* candles in the order of their times, no two of one time (normalize_candles).
ValidSetup(s) ==
  /\ \A n \in Targets : s.fraction[n] > 0
  /\ Stricter(s.side, s.entry, s.stop) /\ Stricter(s.side, s.tp[1], s.entry)
  /\ Stricter(s.side, s.tp[2], s.tp[1]) /\ Stricter(s.side, s.tp[3], s.tp[2])
ValidCandle(c) == c.low <= c.close /\ c.close <= c.high

VARIABLES
  setup,
  seen,   \* candles of the series so far
  run     \* per policy: [state, remaining, stop, hits, gross, favorable, adverse]

Untouched(s) ==
  [state |-> "waiting", remaining |-> Whole(s), stop |-> s.stop, hits |-> {}, gross |-> 0,
   favorable |-> 0, adverse |-> 0]

Init ==
  /\ setup \in {s \in Setups : ValidSetup(s)} /\ seen = 0
  /\ run = [p \in Policies |-> Untouched(setup)]

-----------------------------------------------------------------------------
(* One candle *)

Long == setup.side = "LONG"
Touches(c, price) == c.low <= price /\ price <= c.high
StopTouched(c, stop) == IF Long THEN c.low <= stop ELSE c.high >= stop
TargetTouched(c, target) == IF Long THEN c.high >= target ELSE c.low <= target
PnlPerUnit(price) == IF Long THEN price - setup.entry ELSE setup.entry - price

Least(a, b) == IF a < b THEN a ELSE b
Most(a, b) == IF a < b THEN b ELSE a

\* _excursions: over the whole candle, before any exit in it.
Excursions(r, c) ==
  [r EXCEPT !.favorable = Most(@, PnlPerUnit(IF Long THEN c.high ELSE c.low)),
            !.adverse = Most(@, -PnlPerUnit(IF Long THEN c.low ELSE c.high))]

\* exit_fraction
Exit(r, price, units) ==
  [r EXCEPT !.gross = @ + PnlPerUnit(price) * units, !.remaining = @ - units]

StopOut(r, c) ==
  IF r.remaining > 0 /\ StopTouched(c, r.stop)
  THEN [Exit(r, r.stop, r.remaining) EXCEPT !.state = "STOP"]
  ELSE r

\* The stop after a target: evaluate_lifecycle, unless the target was the last.
KeepsStop(r, n) == r.stop                                \* mutant
StopAfter(r, n) ==
  IF n < 3 /\ r.remaining > 0 THEN Effective(Plan(setup), r.hits \cup {n}, r.stop) ELSE r.stop

HitTarget(r, c, n) ==
  IF n \notin r.hits /\ r.remaining > 0 /\ TargetTouched(c, setup.tp[n])
  THEN LET out == Exit(r, setup.tp[n], Least(setup.fraction[n], r.remaining))
       IN [out EXCEPT !.hits = @ \cup {n}, !.stop = StopAfter(out, n)]
  ELSE r

HitTargets(r, c) ==
  LET out == HitTarget(HitTarget(HitTarget(r, c, 1), c, 2), c, 3)
  IN IF out.remaining = 0 THEN [out EXCEPT !.state = "TP3"] ELSE out

PolicySwapped(p) == p = "TARGET_FIRST"                   \* mutant
StopsFirst(p) == p = "ADVERSE_FIRST"

\* The targets of a candle that stopped the setup out are not looked at.
AfterStop(r, c) == IF r.state = "open" THEN StopOut(HitTargets(r, c), c) ELSE r
Replayed(p, r, c) ==
  LET e == Excursions(r, c)
  IN AfterStop(IF StopsFirst(p) THEN StopOut(e, c) ELSE e, c)

\* An entry is filled by the first candle of the series, from eligible_from_ms on, whose
\* range holds its price; what else that candle touches counts too.
Enters(c) == seen + 1 >= setup.eligible /\ Touches(c, setup.entry)
After(p, r, c) ==
  CASE r.state = "open" -> Replayed(p, r, c)
    [] r.state = "waiting" /\ Enters(c) -> Replayed(p, [r EXCEPT !.state = "open"], c)
    [] OTHER -> r

Series(c) ==
  /\ seen < MaxCandles /\ seen' = seen + 1
  /\ \E p \in Policies : run[p].state \in {"waiting", "open"}
  /\ run' = [p \in Policies |-> After(p, run[p], c)]
  /\ UNCHANGED setup

\* After the last candle what remains is closed at its close.
EndOfData(c) ==
  /\ seen < MaxCandles /\ seen' = MaxCandles
  /\ \E p \in Policies : run[p].state \in {"waiting", "open"}
  /\ run' = [p \in Policies |->
              LET r == After(p, run[p], c)
              IN IF r.state = "open"
                   THEN [Exit(r, c.close, r.remaining) EXCEPT !.state = "END_OF_DATA"] ELSE r]
  /\ UNCHANGED setup

Next == \E c \in Candles : ValidCandle(c) /\ (Series(c) \/ EndOfData(c))
vars == <<setup, seen, run>>
Spec == Init /\ [][Next]_vars

-----------------------------------------------------------------------------
(* Properties *)

Closed(p) == run[p].state \in {"STOP", "TP3", "END_OF_DATA"}

\* docs/backtesting.md:18: "ADVERSE_FIRST is the conservative default".  It never makes
\* more of a series than TARGET_FIRST: the stops that the targets of a candle move do not
\* turn that round.
AdverseIsNoBetter ==
  Closed("ADVERSE_FIRST") /\ Closed("TARGET_FIRST")
    => run["ADVERSE_FIRST"].gross <= run["TARGET_FIRST"].gross

\* A replay makes no more than the best and loses no more than the worst price it saw, loses
\* no more than the risk, and once the first target was hit ends in profit.
ResultWithinExcursions ==
  \A p \in Policies : Closed(p) =>
    /\ run[p].gross <= run[p].favorable * Whole(setup)
    /\ -run[p].gross <= run[p].adverse * Whole(setup)
    /\ PnlPerUnit(setup.stop) * Whole(setup) <= run[p].gross
    /\ 1 \in run[p].hits => run[p].gross > 0
=============================================================================
