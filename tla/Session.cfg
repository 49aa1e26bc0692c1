\* Three sessions and three token pairs under a limit of one: two requests overlap,
\* so that two logins pass the hard limit together and an exchange meets a logout, and
\* a session goes through up to three pairs.
CONSTANTS
  Sessions = {s1, s2, s3}
  Tokens = {t1, t2, t3}
  Requests = {r1, r2}
  SessionMax = 1
  SoftThreshold = 0
  HardThreshold = 0
  MaxFaults = 0
  NoSession = NoSession
  Idle = Idle
SPECIFICATION Spec
SYMMETRY Symmetry
INVARIANTS TypeOK OneRefreshPerSession RetryFindsPair CurrentSessionListed BurstBounded
PROPERTY EndedForGood
CHECK_DEADLOCK FALSE
