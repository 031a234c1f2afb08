CONSTANTS
  MaxInputs = 1
  MaxFailures = 3
  Faults <- NoFaults
SPECIFICATION FairSpec
CHECK_DEADLOCK FALSE
PROPERTIES
  NoDanglingConnected
