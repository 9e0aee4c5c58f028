CONSTANTS
  NTHREADS = 2
  NVALS = 3
  NITERS = 2
  Workers = {w1, w2}
  Owner = own
  Clients = {own}
  QCallers = {w1, w2, own}
  LCallers = {w1, w2, own}
  Tasks <- AdderTasks
  QItems <- AdderItems
  Pill = pill
  NoItem = NoItem
  NoOne = NoOne
  NoOwner = NoOne
  Initial = 2
  MaxNoise = 1
  MaxWakeups = 1
SPECIFICATION ADFairSpec
INVARIANTS LatchInv AdderInv
PROPERTIES ProgramEnds
CHECK_DEADLOCK FALSE
