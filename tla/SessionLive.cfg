\* Two sessions, one request at a time, two workers, one failure and a fair scheduler.
CONSTANTS
  Sessions = {s1, s2}
  Tokens = {t1, t2}
  Requests = {r1}
  SessionMax = 1
  SoftThreshold = 0
  HardThreshold = 0
  MaxFaults = 1
  NoSession = NoSession
  Idle = Idle
SPECIFICATION FairSpec
PROPERTY RowsReclaimed
CHECK_DEADLOCK FALSE
