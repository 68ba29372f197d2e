\* The parts of Scanner V2.6: signals of one contract, scan, analysis, REST client, hot list,
\* health; the replay of a setup.
SPECIFICATION SpecAll
CONSTANTS
  Crews <- CrewsAll
  MaxSignals = 2
  Contracts <- SixContracts
  Core <- LastOne
  Rankings <- SomeRankings
  ActiveSets <- SomeActive
  ShortSets <- SomeShort
  Total = 3
  Slots = 2
  Markets <- SomeMarkets
  ExecuteScore = 82
  PotentialScore = 70
  MinMicro = 2
  HardBlock = TRUE
  Requests = {"a", "b", "c"}
  Retries = 3
  MaxBlocks = 2
  Coins = {"a"}
  CancelMisses = 2
  Realert = 2
  Floor = 3
  Grace = 3
  Setups <- SomeSetups
  Candles <- AllCandles
  MaxCandles = 4
INVARIANTS OrphansExplained OneClosePerWatch MarksComplete WaitBounded SlipsOnce AdverseIsNoBetter ResultWithinExcursions MirroredAnalysis
PROPERTIES AlertsSpaced NeverReplaced ExecuteRelayed AnnouncementFollows
CHECK_DEADLOCK FALSE
