\* A row read before the lock, and one MOVE_SL.
SPECIFICATION Spec
CONSTANTS
  loop = loop  sync = sync
  Plans <- BothSides
  Prices <- Ticks
  Loop = loop
  Passes = {loop, sync}
  MaxIncidents = 1
PROPERTIES StopNeverLoosened
CHECK_DEADLOCK FALSE
