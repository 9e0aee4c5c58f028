CONSTANTS
  Workers = {w1, w2}
  Owner = own
  Clients = {own, cl}
  QCallers = {w1, w2, own, cl}
  Tasks = {a, b}
  Pill = pill
  QItems = {a, b, pill}
  NoItem = NoItem
  NoOne = NoOne
  MaxNoise = 1
SPECIFICATION PFairSpec
INVARIANTS PoolInv EarlyTasksRun CleanupIsLast
PROPERTIES CleanupReturns
CHECK_DEADLOCK FALSE
