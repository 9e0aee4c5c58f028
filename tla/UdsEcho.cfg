CONSTANTS
  UClients = {c1, c2}
  ULines = {"a", "b", "quit", "stop"}
  Garbage = "garbage"
SPECIFICATION UFairSpec
INVARIANTS UdsInv
PROPERTIES ConnectionFreed ClientAnswered
CHECK_DEADLOCK FALSE
