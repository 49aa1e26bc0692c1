\* Four rows and a step of 2: the gap between two neighbours holds at most one
\* free number, so inserts, moves to the front and moves after a row renumber.
CONSTANTS
  Node = {1, 2, 3, 4}
  OrderIndexStep = 2
  MaxOrderIndex = 6
SPECIFICATION Spec
CONSTRAINT OrderIndexBound
INVARIANTS
  TypeOK
  ListConsistent
PROPERTIES
  InternalErrorOnlyWhenEmpty
  ListImplemented
