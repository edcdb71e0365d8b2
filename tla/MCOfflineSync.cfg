CONSTANTS
  Cart = {c1, c2}
  Tab = {t1, t2}
  Cashier = {u1, u2}
  Request = {r1, r2}
  MaxSeq = 2
  MaxFaults = 1
  None = None

SPECIFICATION Spec

SYMMETRY Symmetry

INVARIANTS
  SoldOnceByItsCashier
  SyncedMeansSold

PROPERTIES
  QueuedIsKept
