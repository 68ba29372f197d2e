\* Two signals for one contract, reconcile_loop, late fills, a crash.
SPECIFICATION Spec
CONSTANTS
  sig1 = sig1  sig2 = sig2  btc = btc  eth = eth
  w1 = w1  w2 = w2  loop = loop  sync = sync
  Signals = {sig1, sig2}
  Symbols = {btc}
  SymbolOf <- OneSymbol
  Workers = {w1, w2}
  Loop = loop
  Reconcilers = {loop}
  Ops = ops
  None = none
  MaxOpen = 1
  LateFills = TRUE
  MaxDeliveries = 2
  MaxCommands = 2
  MaxFaults = 1
  MaxCrashes = 1
SYMMETRY Interchangeable
INVARIANTS ExposureIsManaged ClosedHasOwnExit
PROPERTIES EmergencyIsDefinitive SubmittedOnce
CHECK_DEADLOCK FALSE
