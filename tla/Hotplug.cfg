CONSTANTS
  d0 = d0
  d1 = d1
  d2 = d2
  s0 = s0
  s1 = s1
  Path = {0, 1}
  Port = {8400, 8401, 8402}
  Device = {d0, d1, d2}
  Serial = {s0, s1}
  SerialOf <- SerialOfAlien
  NoSerial = NoSerial
  NoDevice = NoDevice
  NoProc = NoProc
  Gone = Gone
  NoRecord = NoRecord
  MaxExponent = 2
  Delay <- ShortDelay
  MaxFaults = 4
  StuckProcs = FALSE
  DiskErrors = FALSE
  Crashes = FALSE
SPECIFICATION FairSpec
INVARIANTS NoOrphans DriverTalksToItsDevice
PROPERTIES EventuallyConverged IsDirectory
