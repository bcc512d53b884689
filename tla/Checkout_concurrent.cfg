SPECIFICATION MCSpec
CONSTANTS
  Payment = {p1, p2}
  Gateway = {"MANUAL", "STRIPE"}
  Teller = {r1, r2, r3}
  MaxApprovals = 2
  Null = Null
  bag = bag
  round = round
  Sale = {bag, round}
  cut = cut
  gel = gel
  Barber = {b1}
  Commission = {c1, c2, c3}
  Request = {k1, k2}
  Good = {cut, gel}
  Service = {cut}
  Line = {cut, gel}
  GoodOf <- MCGoodOf
  LinesOf <- MCLinesOf
  QuantityOf <- MCQuantityOf
  Customer = {regular}
  Price = {1}
  Discount = {0, 2}
  Job = {j1}
  NoBarber = NoBarber
  NoSource = NoSource
  NoCommission = NoCommission
CHECK_DEADLOCK FALSE
SYMMETRY Symmetry
INVARIANTS
  AllTypesOK
  ApprovalFollowsPayment
  ApprovedOnce
  DashboardAgrees
  SoldIsCommissionedUnlessLost
PROPERTIES
  PaidIsFinal
