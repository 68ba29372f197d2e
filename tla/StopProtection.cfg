\* A long, a short and a slipped long trade; two incidents of any kind.
SPECIFICATION FairSpec
CONSTANTS
  loop = loop  sync = sync
  Plans <- WithSlipped
  Prices <- Ticks
  Loop = loop
  Passes = {loop}
  MaxIncidents = 2
INVARIANT ProtectedMeansStop
PROPERTIES ImplementsLifecycle DatabaseStopInForce FilledTargetProtects
CHECK_DEADLOCK FALSE
