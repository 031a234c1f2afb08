CONSTANTS
  MaxInputs = 1
  MaxFailures = 1
  Faults <- Survivable
SPECIFICATION FairSpec
CHECK_DEADLOCK FALSE
INVARIANTS
  EndedMeansDropped
PROPERTIES
  KeepsSessionContract
  CliExitEndsSession
  PhoneLearnsOfEnd
  RevokeEndsSession
