SPECIFICATION Spec
CONSTANTS
  User = {u1}
  Token = {t1, t2}
  Request = {r1, r2}
  Cooldown = 1
  Ttl = 1
  MaxTime = 2
  Faults = TRUE
  None = None
  Free = Free
SYMMETRY Symmetry
INVARIANTS
  UndeliveredIsInvalid
  OnePendingLink
PROPERTIES
  ImplementsOneTimeLink
  ChangeClearsLinks
