CONSTANTS
  Thread = {1, 2}
  Voltage = {552, 560}
  NoVoltage = NoVoltage
  battery = battery
  fault = fault
  line = line
  Mode = {battery, fault}
  Battery = battery
  FaultMode = fault
  Alerts <- SomeAlerts
  NoData = NoData
  MaxFaults = 3
SPECIFICATION FairSpec
INVARIANTS TypeOK OnePoll LastIsApplied FaultShown
PROPERTIES FollowsBms GivesUp AlarmsPreserved
