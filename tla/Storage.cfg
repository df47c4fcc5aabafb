CONSTANTS
  MaxVersion = 3
  Absent = Absent
  Bad = Bad
  Torn = Torn
  MaxFaults = 3
SPECIFICATION FairSpec
INVARIANTS TypeOK NothingLost
PROPERTIES IsAtomic Saved
CHECK_DEADLOCK FALSE
