CONSTANTS
  Conns = {a, b, c}
  Stalling = {a}
  Lines = {"data", "quit"}
  MaxClients = 4
  NoConn = NoConn
SPECIFICATION PFairSpec
INVARIANTS TableInv WaitsForNewOnly RoundServesAll
PROPERTIES InputIsRead
CHECK_DEADLOCK FALSE
