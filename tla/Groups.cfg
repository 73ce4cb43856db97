SPECIFICATION FairSpec
CONSTANTS
  o = o
  a = a
  b = b
  Owner = o
  Members = {a, b}
  Order <- MCOrder
  MaxInvites = 2
  MaxStreams = 4
  Budgets <- MCBudgets
  None = None
INVARIANTS TypeOK NobodyIsDropped
PROPERTIES LinksSettle RostersSettle
CHECK_DEADLOCK FALSE
