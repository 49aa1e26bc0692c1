\* Four sessions of one device or without a user agent, under a limit of two: duplicates that must go,
\* duplicates that fill up the limit, and a current session beyond the limit.
CONSTANTS
  Sessions = {s1, s2, s3, s4}
  Devices = {d1}
  NoDevice = NoDevice
  SessionMax = 2
  NoSession = NoSession
  MaxChanges = 2
SPECIFICATION SessionListSpec
SYMMETRY Symmetry
INVARIANTS ListShowsCurrent TrimKeepsBest
CHECK_DEADLOCK FALSE
