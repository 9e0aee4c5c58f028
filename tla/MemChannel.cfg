CONSTANTS
  MCallers = {p1, p2, p3}
  Messages = {m1, m2}
  NoMessage = NoMessage
  NoProcess = NoProcess
  Cap = 2
  IdxMod = 4
SPECIFICATION MFairSpec
INVARIANT ChannelInv
PROPERTY ImplementsChannel
CHECK_DEADLOCK FALSE
