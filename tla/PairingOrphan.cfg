CONSTANTS
  Cli = cli
  None = none
  NoCode = nocode
  Phones = {p1}
  Sessions = {s1}
  Codes = {c1, c2}
  MaxAttempts = 2
  MaxCrashes = 0
SPECIFICATION Spec
CHECK_DEADLOCK FALSE
INVARIANTS
  NoSessionOutlivesCli
