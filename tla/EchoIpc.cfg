CONSTANTS
  Servers = {s1, s2}
  Clients = {c1, c2}
  Terms = {t1}
  Texts = {m1, m2}
  NoText = NoText
  ServiceId = ServiceId
  Nobody = Nobody
  SrvCap = 1
  Failing = {s2, c2}
SPECIFICATION EFairSpec
INVARIANTS EchoInv ServerNeverBlocks ReplyIsMine
PROPERTIES Answered
CHECK_DEADLOCK FALSE
