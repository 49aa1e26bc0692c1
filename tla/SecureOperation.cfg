\* Two requests on two operations of one user, with one attempt per code, one
\* resend and one recovery code: wrong answers and secrets can run out.
CONSTANTS
  Users = {u1}
  NilUser = NilUser
  Operations = {o1, o2}
  Requests = {r1, r2}
  Names = {"authorize", "disable2fa", "password", "totp", "recovery"}
  MaxAttempts = 1
  MaxResends = 1
  RecoveryCount = 1
  MaxStep = 2
  NoFactor = NoFactor
  NoSecret = NoSecret
  Idle = Idle
SPECIFICATION Spec
SYMMETRY Symmetry
INVARIANTS GuessesBounded AppliedOnceConfirmed SecretsSpentOnce TypeOK
PROPERTY FactorKept
CHECK_DEADLOCK FALSE
