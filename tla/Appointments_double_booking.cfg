SPECIFICATION Spec
CONSTANTS
  Appointment = {a1, a2}
  Barber = {b1}
  Service = {short}
  Request = {r1, r2}
  Lock <- Barber
  LockOf <- OwnLock
  Duration <- MCDuration
  Bookable <- MCBookable
  MaxTime = 1
  short = short
  long = long
  NoSlot = NoSlot
  NoTarget = NoTarget
  Free = Free

INVARIANTS
  NoDoubleBooking
