SPECIFICATION Spec
CONSTANTS
  Request = {r1, r2, r3}
  Key = {k1, k2}
  Cart = {c1, c2}
  None = None
SYMMETRY Symmetry
INVARIANTS
  SaleIffOwnerCommitted
  ReplayIsFaithful
  RefusalsAreTrue
PROPERTIES
  OnlyTheOwnerSettles
  KeepsItsPromise
CHECK_DEADLOCK FALSE
