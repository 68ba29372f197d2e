\* A signal on each of two contracts under a cap of one position.
SPECIFICATION Spec
CONSTANTS
  sig1 = sig1  sig2 = sig2  btc = btc  eth = eth
  w1 = w1  w2 = w2  loop = loop  sync = sync
  Signals = {sig1, sig2}
  Symbols = {btc, eth}
  SymbolOf <- TwoSymbols
  Workers = {w1, w2}
  Loop = loop
  Reconcilers = {loop}
  Ops = ops
  None = none
  MaxOpen = 1
  LateFills = FALSE
  MaxDeliveries = 2
  MaxCommands = 1
  MaxFaults = 1
  MaxCrashes = 1
SYMMETRY InterchangeableWorkers
INVARIANTS PositionsWithinCap EmergencyLeavesFlat
CHECK_DEADLOCK FALSE
