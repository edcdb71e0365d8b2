CONSTANTS
  Key = {k1}
  Proof = {p1, p2}
  Call = {c1, c2}
  None = None
  MaxVersion = 2
  MaxWork = 2
  Req = {r1, r2, r3}
  Old = {r1}
  Reviewer = {h1, h2}

SPECIFICATION Spec

SYMMETRY Symmetry

CONSTRAINT FewAtWork

INVARIANTS
  NothingMovesTwice
  LineageSettlesOnce

PROPERTIES
  SettledForGood

CHECK_DEADLOCK FALSE
