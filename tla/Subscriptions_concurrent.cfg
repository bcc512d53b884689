SPECIFICATION Spec
CONSTANTS
  Subscription = {s1, s2}
  Customer = {c1}
  Plan = {p1}
  Length = {1, 2}
  Interval = {"MONTHLY"}
  DefaultDays <- MCDefaultDays
  Unsent = Unsent
  Request = {r1, r2}
  MaxDay = 2
  Horizon = 3
  NoDate = NoDate
  Null = Null
SYMMETRY Symmetry
INVARIANTS
  ExpiredIsOverdue
  SecondActiveWasReopened
PROPERTIES
  CancelledIsFinal
  RenewalFollowsCycle
