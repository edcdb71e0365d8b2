CONSTANTS
  Order = {o1, o2, o3}
  Shift = {s1}
  Handler = {h1, h2}
  Limit = 1
  None = None

SPECIFICATION HoldSpec

INVARIANTS
  OvershootIsBounded

PROPERTIES
  ReleaseIsFinal
  TimedOrdersLeave
