CONSTANTS
  Addresses = {a1}
  Sockets = {k1, k2}
  Limit = 1
  Window = 2
  Patience = 2
  Horizon = 5
  None = none
SPECIFICATION FairSpec
CHECK_DEADLOCK FALSE
PROPERTIES
  UnknownEnds
