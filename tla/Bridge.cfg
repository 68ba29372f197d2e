\* One command and the server's checks; two EXECUTE and a CLOSE for one contract, with
\* repetitions, a restart and a handler that raises; the orders, the margin and the fills of
\* what was opened.
SPECIFICATION SpecAll
CONSTANTS
  Commands <- TwoSignals
  None = none
  Attempts <- AttemptsOf
  Most = 2
  MaxCrashes = 1
  MaxFaults = 1
  Raws <- SomeRaws
  Skews <- SomeSkews
  MaxSkew = 2
  MaxAhead = 3
  Horizon = 5
  Cases <- SomeCases
  LeverageWanted = 10
  MinMargin = 5
  MaxNotional = 0
  Tenths <- FourAndThree
  Unfilled = {0, 1, 3}
  OrderCrashes = 2
  MaxCancels = 1
  Positions <- SomePositions
  Ratio = 5
  Step = 4
  Share = 2
  Turns = 20
  Amounts = {4, 12, 40}
  Trades = {1, 2}
  SideOf <- LongAndShort
  EntryPrices <- TwoAndFive
  Prices = {7}
  Fee = 1
  Week = 2
  Grace = 1
  MaxClock = 3
INVARIANTS AppliedOnce AppliedCloseHolds AgeIsHarmless HandedAsMeant RiskWithinBudget TargetsMatchPosition MarginBounded BooksExact
PROPERTIES SettledOnceListed
CHECK_DEADLOCK FALSE
