CONSTANTS
  Updater = {1, 2}
  MaxFaults = 0
  MaxSaves = 3
SPECIFICATION Spec
INVARIANTS OneUpdater
CHECK_DEADLOCK FALSE
