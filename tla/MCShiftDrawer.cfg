CONSTANTS
  Shift = {s1, s2, s3}
  Sale = {x1}
  Handler = {h1, h2, h3}
  None = None

SPECIFICATION Spec

SYMMETRY Symmetry

INVARIANTS
  RefundsCountedOnce
  SalesAreCounted

PROPERTIES
  CountIsFinal

CHECK_DEADLOCK FALSE
