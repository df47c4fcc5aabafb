CONSTANTS
  Updater = {1, 2}
  MaxFaults = 2
  MaxSaves = 3
SPECIFICATION Spec
INVARIANTS TypeOK StateSurvives LocalConfigKept
PROPERTIES  SuccessRunsNew
CHECK_DEADLOCK FALSE
