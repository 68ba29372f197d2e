\* Fair scheduling: a filled trade in recovery is closed in the end.
SPECIFICATION FairSpec
CONSTANTS
  sig1 = sig1  sig2 = sig2  btc = btc  eth = eth
  w1 = w1  w2 = w2  loop = loop  sync = sync
  Signals = {sig1}
  Symbols = {btc}
  SymbolOf <- OneSymbol
  Workers = {w1}
  Loop = loop
  Reconcilers = {loop}
  Ops = ops
  None = none
  MaxOpen = 1
  LateFills = TRUE
  MaxDeliveries = 1
  MaxCommands = 1
  MaxFaults = 2
  MaxCrashes = 1
PROPERTIES FlatTradeSettles RecoveryCompletes EmergencyStopFinishes
CHECK_DEADLOCK FALSE
