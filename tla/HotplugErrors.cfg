CONSTANTS
  d0 = d0
  d1 = d1
  d2 = d2
  s0 = s0
  s1 = s1
  Path = {0, 1, 2}
  Port = {8400, 8401}
  Device = {d0, d1, d2}
  Serial = {s0, s1}
  SerialOf <- SerialOfDuplicate
  NoSerial = NoSerial
  NoDevice = NoDevice
  NoProc = NoProc
  Gone = Gone
  NoRecord = NoRecord
  MaxExponent = 1
  Delay <- ShortDelay
  MaxFaults = 2
  StuckProcs = TRUE
  DiskErrors = TRUE
  Crashes = TRUE
SPECIFICATION Spec
INVARIANTS TypeOK Unique RecordsAreTrue
PROPERTIES FlappingBacksOff
CHECK_DEADLOCK FALSE
