CONSTANTS
  Sessions = {s1, s2}
  Contested = {s1}
  Timed = {s1, s2}
  Handlers = {h1}
  Sweeps = {w1}
  Requests = {r1, r2}
  IdleLimit = 1
  MaxCrashes = 1
  QueriesFail = TRUE
  Leaving = {"phone_disconnect"}
  None = None
SPECIFICATION Spec
INVARIANTS
  TypeOK
  AuditChained
  RevokeAnswerHolds
  RevokedNotForgotten
  TimeoutHasCause
