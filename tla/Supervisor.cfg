CONSTANTS
  Manager = {1, 2, 3}
  NoManager = 0
  MaxFaults = 2
SPECIFICATION FairSpec
INVARIANTS TypeOK OneManager StopLeavesNothing
PROPERTIES StopEnds KeepsAlive
CHECK_DEADLOCK FALSE
