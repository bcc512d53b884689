SPECIFICATION Spec
CONSTANTS
  Subscription = {s1, s2}
  Customer = {c1}
  Plan = {p1}
  Length = {1, 2}
  Interval = {"MONTHLY"}
  DefaultDays <- MCDefaultDays
  Unsent = Unsent
  Request = {r1}
  MaxDay = 3
  Horizon = 4
  NoDate = NoDate
  Null = Null
INVARIANTS
  OneActivePerPlan
