CONSTANTS
  s1 = s1
  s2 = s2
  r1 = r1
  r2 = r2
  Sale = {s1, s2}
  Row = {r1, r2}
  Need <- MCNeed
  Opening <- MCOpening
  Worker = {w1, w2}
  Clerk = {c1}
  None = None
  MaxAttempts = 2
  MaxStock = 2
  MaxDesk = 1
  MaxSlips = 1
  MaxRequeues = 1

SPECIFICATION FairSpec

INVARIANTS
  ReservedIsOpen
  LedgerExplainsStock
  BadgeAgrees

PROPERTIES
  SettlesAsPromised
  EveryJobSettles

CHECK_DEADLOCK FALSE
