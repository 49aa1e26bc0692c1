CONSTANTS
  User = {u1, u2}
  Email = {e1, e2}
  Phone = {p1}
  None = None
  Realm = {m1, m2}
  Lang = {en, ru}
  Op = {o1, o2}
  Request = {r1, r2}
  Idle = Idle
  MaxEvents = 1

SPECIFICATION Spec
SYMMETRY Symmetry
CHECK_DEADLOCK FALSE
INVARIANTS
  TypeOK
  RegisteredWhole
  SessionOfAddressee
  OneCodePerLock
  ScopesFollowProfile
