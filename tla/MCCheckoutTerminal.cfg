CONSTANTS
  Request = {q1, q2}
  Key = {k1, k2}
  Cart = {a, b}
  None = None
  MaxDetached = 1
  MaxCustomers = 2
  MaxDisruptions = 1

SPECIFICATION TerminalSpec

SYMMETRY Symmetry

INVARIANTS
  OneCartPerKey
  AbandonedNeverSells
  SuccessMeansSold
  ChargedOnce
  SalesAreAccounted

CHECK_DEADLOCK FALSE
