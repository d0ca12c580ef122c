\* Both sides send more than the sockets hold.
SPECIFICATION FairSpec
CONSTANTS
  L = L
  R = R
  x = x
  y = y
  z = z
  Side <- MCSide
  Packet <- MCPacket
  PayloadOf <- MCPayloadOf
  HeaderLen = 2
  Outbox <- MCBothWays
  Capacity = 4
  MayExit <- MCNobody
PROPERTIES
  OutboxDrains
CHECK_DEADLOCK FALSE
