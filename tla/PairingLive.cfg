\* One phone, no symmetry: the temporal properties, with one death of the backend.
CONSTANTS
  Cli = cli
  None = none
  NoCode = nocode
  Phones = {p1}
  Sessions = {s1}
  Codes = {c1, c2}
  MaxAttempts = 2
  MaxCrashes = 1
SPECIFICATION FairSpec
CHECK_DEADLOCK FALSE
PROPERTIES
  SubmissionAnswered
  ClaimAnswered
  CloseEndsSession
