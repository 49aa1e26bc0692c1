\* Two sessions of a member, two workers and two requests: batches overtake
\* each other, fail and come again, and one batch holds messages of both sessions.
CONSTANTS
  Member = {m1}
  Session = {s1, s2}
  Worker = {w1, w2}
  BatchSize = 2
  LifeTime = 0
  NoSession = NoSession
  Idle = Idle
  MaxMessages = 2
  MaxClock = 2
  MaxFaults = 1
SPECIFICATION Spec
SYMMETRY Symmetry
INVARIANTS TypeOK RowIsLatestVisit LoggedOnceUnlessUnheard
CHECK_DEADLOCK FALSE
