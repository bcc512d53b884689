SPECIFICATION MCSpec
CONSTANTS
  MinutesPerDay = 4
  TicksPerMinute = 2
  Horizon = 23
  Zone = {"utc", "west", "dst"}
  Offset <- MCOffset
  Barber = {b1}
  employee = employee
  User = {employee}
  Hours <- MCHours
  Default <- MCDefault
  Change <- MCChange
  Request = {r1, r2}
  NoTime = NoTime
  NoBarber = NoBarber
  NoHours = NoHours
  NoUser = NoUser
  NoChange = NoChange
  Unsent = Unsent
  Erase = Erase
  Null = Null
  NoRule = NoRule
  Rule = {rule1, rule2}
  RuleUpdate = {u1, u2}
  Price = {0, 1, 49, 50, 199, 2500}
  cut = cut
  gel = gel
  Batch = {n1, n2, n3}
  Tenant = {t1, t2}
  Email = {e1, e2}
  Key = {k1, k2}
  Base = base
  suffixed = suffixed
  on = on
  chosen = chosen
  Standard = standard
  Service = {cut}
  Product = {gel}
  RuleValue <- MCRuleValue
  PlanService = {cut, gel}
  Quantity = {1}
  Suffixed = {suffixed}
  Type <- MCType
  Clock = {"utc", "west"}
  Setting = {on}
  Sent <- MCSent
  Custom = {chosen}
CHECK_DEADLOCK FALSE
SYMMETRY Symmetry
INVARIANTS
  AllTypesOK
  PickIsMostSpecific
  CommissionWithinBase
  ShiftsAreOrdered
  BookableIsStaffed
  PlanIsLastList
  HoursComeWithBarbershop
PROPERTIES
  TenantChangesFromWithin
  ChoicesAreKept
