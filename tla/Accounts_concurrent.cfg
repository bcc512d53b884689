SPECIFICATION MCSpec
CONSTANTS
  User = {u1, u2}
  Token = {t1, t2, t3}
  Request = {r1, r2}
  MaxVersion = 1
  NoUser = NoUser
  NoToken = NoToken
SYMMETRY Symmetry
INVARIANTS
  OneSuccessor
  PasswordChangeEndsSessions
  InactiveHasNoSession
  OwnerRemains
CHECK_DEADLOCK FALSE
