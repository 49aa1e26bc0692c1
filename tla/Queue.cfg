\* One item that three consumers can get hold of one after the other, with up to
\* four faults: each of them may be slow, die, be stopped or fail with the item.
CONSTANTS
  Item = {i1}
  NoItem = zero
  Consumer = {c1, c2, c3}
  Limit = 2
  AttemptsInput = {0, 1}
  DefaultAttempts = 2
  DelayInput = {0}
  Second = 1
  DelayCorrection = 15
  PrimaryKey = "message_id"
  JournalOutlivesQueue = TRUE
  MaxFaults = 4
SPECIFICATION FairSpec
CHECK_DEADLOCK FALSE
INVARIANTS
  TypeOK
  CommittedAtMostOnce
  NoOrphanMessages
  ExclusiveUnlessTimedOut
  SendsBounded
PROPERTY QueueImplemented
