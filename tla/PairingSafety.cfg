\* Two phones open the link; a code may be mistyped; the backend may die once.
CONSTANTS
  Cli = cli
  Phones = {p1, p2}
  Sessions = {s1, s2}
  Codes = {c1, c2}
  None = none
  NoCode = nocode
  MaxAttempts = 2
  MaxCrashes = 1
SPECIFICATION Spec
SYMMETRY Symmetry
CHECK_DEADLOCK FALSE
INVARIANTS
  TypeOK
  SingleClaim
  KeyBeforeCode
  SessionAgreement
  GuessesBounded
  OneRequestAtATime
  RegisteredOnce
  EndedMeansClosed
PROPERTIES
  KeepsContract
