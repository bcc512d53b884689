SPECIFICATION Spec
CONSTANTS
  Appointment = {a1}
  Sale = {s1}
  Item = {i1, i2}
  ItemsOf <- MCItemsOf
  Barber = {b1}
  Commission = {c1, c2}
  Job = {j1, j2}
  Call = {k1, k2}
  i1 = i1
  i2 = i2
  NoBarber = NoBarber
  NoSource = NoSource
  NoCommission = NoCommission

SYMMETRY Symmetry
INVARIANTS
  OneCommissionPerItem
PROPERTIES
  SettledOnce
