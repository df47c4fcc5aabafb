CONSTANTS
  Serial = {1, 2}
  MaxInstance = 3
  MaxFaults = 3
SPECIFICATION FairSpec
INVARIANTS TypeOK Distinct Persisted
PROPERTIES Settles
CHECK_DEADLOCK FALSE
