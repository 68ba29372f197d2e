\* The README: one bot-managed position per symbol.
SPECIFICATION Spec
CONSTANTS
  sig1 = sig1  sig2 = sig2  btc = btc  eth = eth
  w1 = w1  w2 = w2  loop = loop  sync = sync
  Signals = {sig1, sig2}
  Symbols = {btc}
  SymbolOf <- OneSymbol
  Workers = {w1, w2}
  Loop = loop
  Reconcilers = {loop}
  Ops = ops
  None = none
  MaxOpen = 1
  LateFills = FALSE
  MaxDeliveries = 2
  MaxCommands = 1
  MaxFaults = 0
  MaxCrashes = 0
SYMMETRY Interchangeable
INVARIANTS OneManagedTradePerSymbol
CHECK_DEADLOCK FALSE
