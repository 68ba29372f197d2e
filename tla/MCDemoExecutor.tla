--------------------------- MODULE MCDemoExecutor ---------------------------
(***************************************************************************)
(* TLC instances of DemoExecutor: two signals on one contract, or one      *)
(* signal on each of two contracts.                                        *)
(***************************************************************************)
EXTENDS DemoExecutorInvariants, TLC

CONSTANTS sig1, sig2, btc, eth, w1, w2, loop, sync

OneSymbol == [t \in Signals |-> btc]
TwoSymbols == sig1 :> btc @@ sig2 :> eth

\* Signals of one contract are interchangeable, and so are the workers.
Interchangeable == Permutations(Signals) \cup Permutations(Workers)
InterchangeableWorkers == Permutations(Workers)
=============================================================================
