CONSTANTS
  QCallers = {c1, c2, c3}
  QItems = {x1, x2}
  NoItem = NoItem
  NoOne = NoOne
  MaxNoise = 2
SPECIFICATION QFairSpec
INVARIANTS MonitorInv
PROPERTIES ImplementsFifo
CHECK_DEADLOCK FALSE
