SPECIFICATION FlowSpec
CONSTANTS
  Appointment = {a1}
  Barber = {b1}
  Service = {cut}
  Request = {r1}
  Lock <- Barber
  LockOf <- OwnLock
  Duration <- MCDuration
  Bookable <- MCBookable
  MaxTime = 1
  NoSlot = NoSlot
  NoTarget = NoTarget
  Free = Free
  Commission = {c1, c2}
  Line = line
  NoBarber = NoBarber
  NoSource = NoSource
  NoCommission = NoCommission
CHECK_DEADLOCK FALSE
PROPERTIES
  CompletedIsCommissioned
