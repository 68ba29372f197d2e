\* One signal, closed at its stop or invalidated; a restart, a write that fails.
SPECIFICATION Spec
CONSTANTS
  Opened = 1
  Reasons = {"SL", "INVALIDATED"}
  Holding = {"monitor"}
  Fresh = {"context"}
  MaxCrashes = 1
  MaxFaults = 1
INVARIANTS CloseIsQueued
PROPERTIES EveryEventDelivered
CHECK_DEADLOCK FALSE
