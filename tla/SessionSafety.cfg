CONSTANTS
  MaxInputs = 2
  MaxFailures = 2
  Faults <- Unbroken
SPECIFICATION Spec
CHECK_DEADLOCK FALSE
INVARIANTS
  TypeOK
  WrittenInOrder
  EndedOnce
  EndedMeansDropped
PROPERTIES
  KeepsSessionContract
