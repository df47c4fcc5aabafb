CONSTANTS
  Serial = {1, 2}
  Port = {8400, 8401}
  NoPort = NoPort
  MaxUnits = 1
  MaxInbox = 1
  MaxFaults = 2
SPECIFICATION FairSpec
INVARIANTS TypeOK Agree
PROPERTIES EventuallyAgree
CHECK_DEADLOCK FALSE
