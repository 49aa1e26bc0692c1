\* A logout of a session whose refresh token is just being exchanged.
CONSTANTS
  Sessions = {s1}
  Tokens = {t1, t2}
  Requests = {r1, r2}
  SessionMax = 1
  SoftThreshold = 0
  HardThreshold = 0
  MaxFaults = 0
  NoSession = NoSession
  Idle = Idle
SPECIFICATION Spec
INVARIANT LogoutRevokesAll
CHECK_DEADLOCK FALSE
