\* Two signals of one contract; two workers, the loop and the price tasks; a restart,
\* perhaps into the other mode.
SPECIFICATION Spec
CONSTANTS
  sig1 = sig1  sig2 = sig2  btc = btc  eth = eth
  w1 = w1  w2 = w2  loop = loop
  Signals = {sig1, sig2}
  Symbols = {btc}
  SymbolOf <- OneSymbol
  Workers = {w1, w2}
  Loop = loop
  None = none
  Modes <- BothModes
  Delistable = {}
  MaxDeliveries = 1
  MaxCommands = 2
  MaxFaults = 0
  MaxCrashes = 1
  MaxEvents = 3
SYMMETRY Interchangeable
INVARIANT OneDecider
PROPERTY RefusalStands
