-------------------------- MODULE MCPendingSignals --------------------------
(***************************************************************************)
(* TLC instances of PendingSignals: two signals on one contract or two.    *)
(***************************************************************************)
EXTENDS PendingSignals, TLC

CONSTANTS sig1, sig2, btc, eth, w1, w2, loop

OneSymbol == [t \in Signals |-> btc]
TwoSymbols == sig1 :> btc @@ sig2 :> eth

\* Both modes, or the one of the deployment.
BothModes == {"SHADOW_MANUAL", "ALL_EXECUTE"}

\* Signals of one contract are interchangeable, and so are the workers.
Interchangeable == Permutations(Signals) \cup Permutations(Workers)
=============================================================================
