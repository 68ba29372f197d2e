------------------------------ MODULE MCBridge ------------------------------
(* The TLC instance of BridgeParts. *)
EXTENDS BridgeParts

TwoSignals ==
  {[signal |-> 1, kind |-> "EXECUTE"], [signal |-> 1, kind |-> "CLOSE"],
   [signal |-> 2, kind |-> "EXECUTE"]}
AttemptsOf(c) == IF c.signal = 1 THEN 2 ELSE 1

Levels(entry, low, high, sl, tp1, tp2, tp3) ==
  [entry |-> entry, low |-> low, high |-> high, sl |-> sl, tp1 |-> tp1, tp2 |-> tp2, tp3 |-> tp3]
SomeLevels ==
  {Levels(3, 0, 0, 2, 4, 5, 5), Levels(3, 3, 4, 2, 4, 5, 6), Levels(3, 2, 3, 4, 2, 2, 1),
   Levels(3, 4, 3, 2, 4, 5, 6), Levels(3, 3, 3, 2, 4, 6, 5), Levels(3, 3, 3, 0, 4, 5, 6)}
Plain ==
  [event |-> "EXECUTE", action |-> "", id |-> 7, signal |-> 7, symbol |-> "plain",
   side |-> "long", levels |-> Levels(3, 3, 4, 2, 4, 5, 6), source |-> 0, expires |-> 0,
   new_sl |-> -1, smart |-> 0]
Executes ==
  {[Plain EXCEPT !.event = e, !.signal = i, !.symbol = y, !.side = d, !.levels = l,
                 !.source = s, !.expires = x, !.smart = m] :
     e \in {"", "EXECUTE"}, i \in {0, 7, 129}, y \in {"doubled", "misspelled"},
     d \in {"LONG", "short", "flat"}, l \in SomeLevels, s \in {0, 2}, x \in {0, 1, 4},
     m \in {0, 101}}
Managements ==
  {[Plain EXCEPT !.event = e, !.action = a, !.id = i, !.symbol = y, !.new_sl = n, !.source = s] :
     e \in {"MANAGEMENT", "CLOSE", "MOVE_SL", "bogus"}, a \in {"", "CLOSE", "PROTECT"},
     i \in {0, 7, 140}, y \in {"separated", "misspelled"}, n \in {-1, 0, 3}, s \in {0, 9}}
SomeRaws == Executes \cup Managements
SomeSkews == {-2, 0, 1}

\* Lots that divide the price or not, and one that a small trade cannot be split in; leverage
\* within, below and without its limits.
SomeLots == {[step |-> s, min |-> m, notional |-> 5] : s \in {1, 2}, m \in {2, 12}}
SomeLimits ==
  {[min |-> 1, max |-> 5, step |-> 2], [min |-> 1, max |-> 12, step |-> 5],
   [min |-> 5, max |-> 4, step |-> 1]}
SomeCases ==
  {[market |-> m, stop |-> s, budget |-> b, margin |-> 6, lot |-> l, lev |-> v] :
     m \in {5, 7}, s \in {3, 6}, b \in {6, 20}, l \in SomeLots, v \in SomeLimits}
FourAndThree == <<4, 3>>

SomePositions ==
  {[initial |-> i, needed |-> n, wallet |-> w] :
     i \in {16, 32}, n \in {0, 4, 24, 72, 400}, w \in {8, 48, 400}}

LongAndShort == <<"LONG", "SHORT">>
TwoAndFive == <<2, 5>>
=============================================================================
