CONSTANTS
  Manager = {1}
  NoManager = 0
  MaxFaults = 0
SPECIFICATION Spec
INVARIANTS ForwardsStop
CHECK_DEADLOCK FALSE
