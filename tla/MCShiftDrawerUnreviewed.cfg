CONSTANTS
  Shift = {s1, s2}
  Sale = {x1}
  Handler = {h1, h2}
  None = None

SPECIFICATION Spec

SYMMETRY Symmetry

INVARIANTS
  UndecidedIsFlagged

CHECK_DEADLOCK FALSE
