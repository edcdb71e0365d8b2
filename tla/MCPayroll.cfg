CONSTANTS
  a1 = a1  a2 = a2  h1 = h1  p1 = p1  p2 = p2  None = None
  Rec <- MCRec
  Handler <- MCHandler
  Run <- MCRun
  MaxTime = 2
SPECIFICATION Spec
INVARIANTS OneShiftAtATime PaidOnce ChangesAreFlagged
PROPERTIES FinalizedStays
SYMMETRY Symmetry
