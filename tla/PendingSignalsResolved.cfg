\* Fair scheduling, either mode: every expired decision is resolved, also with a
\* ticker that fails; without one every waiting decision is looked at.
SPECIFICATION FairSpec
CONSTANTS
  sig1 = sig1  sig2 = sig2  btc = btc  eth = eth
  w1 = w1  w2 = w2  loop = loop
  Signals = {sig1, sig2}
  Symbols = {btc, eth}
  SymbolOf <- TwoSymbols
  Workers = {w1}
  Loop = loop
  None = none
  Modes <- BothModes
  Delistable = {btc}
  MaxDeliveries = 1
  MaxCommands = 1
  MaxFaults = 1
  MaxCrashes = 1
  MaxEvents = 1
PROPERTIES DecisionResolves WatchedInTurn
