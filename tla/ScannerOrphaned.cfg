\* A close resumed after the next signal was opened: the new one loses its slot.
SPECIFICATION SpecAll
CONSTANTS
  Crews <- CrewContext
  MaxSignals = 2
  Contracts <- SixContracts
  Core <- LastOne
  Rankings <- SomeRankings
  ActiveSets <- SomeActive
  ShortSets <- SomeShort
  Total = 3
  Slots = 2
  Markets <- SomeMarkets
  ExecuteScore = 82
  PotentialScore = 70
  MinMicro = 2
  HardBlock = TRUE
  Requests = {"a", "b", "c"}
  Retries = 3
  MaxBlocks = 2
  Coins = {"a"}
  CancelMisses = 2
  Realert = 2
  Floor = 3
  Grace = 3
  Setups <- SomeSetups
  Candles <- AllCandles
  MaxCandles = 4
INVARIANT ActiveKeepsItsSlot
CHECK_DEADLOCK FALSE
