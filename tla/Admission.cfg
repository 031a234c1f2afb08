CONSTANTS
  Addresses = {a1, a2}
  Sockets = {k1, k2, k3}
  Limit = 2
  Window = 2
  Patience = 1
  Horizon = 3
  None = none
SPECIFICATION FairSpec
CHECK_DEADLOCK FALSE
INVARIANTS
  TypeOK
  LimitKept
  RefusedForCause
PROPERTIES
  KnownSpared
  SilenceEnds
