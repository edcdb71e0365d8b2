SPECIFICATION Spec
CONSTANTS
  a1 = a1
  a2 = a2
  new = new
  old = old
  older = older
  flour = flour
  oil = oil
  None = None
  Actor = {a1, a2}
  Sale = {new, old, older}
  Branch = {1, 2}
  Item = {1, 2}
  MaxId = 2
  Ingredient = {flour, oil}
  At <- MCAt
  Takes <- MCTakes
  Snapshot <- MCSnapshot
INVARIANT OnlyRivalsDeadlock
PROPERTY TransactionsEnd
CHECK_DEADLOCK FALSE
