CONSTANTS
  Serial = {1, 2}
  None = None
  MaxTotal = 1
  MaxMin = 2
  MaxFaults = 2
SPECIFICATION Spec
INVARIANTS TypeOK ConfigKept DoneMeansAll
PROPERTIES NoHistoryLost
CHECK_DEADLOCK FALSE
