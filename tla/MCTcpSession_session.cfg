\* Both sides send less than the sockets hold, and may exit at any moment.
SPECIFICATION FairSpec
CONSTANTS
  L = L
  R = R
  x = x
  y = y
  z = z
  Side <- MCSide
  Packet <- MCPacket
  PayloadOf <- MCPayloadOf
  HeaderLen = 2
  Outbox <- MCAnswered
  Capacity = 4
  MayExit <- MCBothExit
INVARIANTS
  TypeOK
  ReceivedIsPrefix
PROPERTIES
  WrittenIsReceived
  OutboxDrains
