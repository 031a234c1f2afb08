CONSTANTS
  MaxInputs = 4
  MaxFailures = 3
  Faults <- NoFaults
SPECIFICATION Spec
CHECK_DEADLOCK FALSE
INVARIANTS
  AlarmMeansTampering
