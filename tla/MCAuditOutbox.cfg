CONSTANTS
  Group = {1, 2}
  Size <- MCSize
  Worker = {w1, w2}
  Writer = {x1}
  Batch = 2
  MaxAttempts = 2
  MaxSlips = 3
  MaxRequeues = 1
  MaxGap = 1
  Nobody = Nobody

SPECIFICATION AuditSpec

INVARIANTS
  OutboxNeverForks

PROPERTIES
  KeepsTheTrail
  EveryGroupSettles

CHECK_DEADLOCK FALSE
