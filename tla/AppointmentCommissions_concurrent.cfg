SPECIFICATION FlowSpec
CONSTANTS
  Appointment = {a1}
  Barber = {b1, b2}
  Service = {cut}
  Request = {r1, r2}
  Lock = {k1}
  LockOf <- OneLock
  Duration <- MCDuration
  Bookable <- MCBookable
  MaxTime = 1
  NoSlot = NoSlot
  NoTarget = NoTarget
  Free = Free
  Commission = {c1, c2}
  Line = line
  NoBarber = NoBarber
  NoSource = NoSource
  NoCommission = NoCommission
CHECK_DEADLOCK FALSE
INVARIANTS
  CommissionMatchesWork
  CompletedIsAccountedFor
PROPERTIES
  AnswerFollowsCommission
  CompletedIsCommissionedUnlessLost
  RequestsFinish
