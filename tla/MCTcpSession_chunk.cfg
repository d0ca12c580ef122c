\* A chunk that ends between a header and its null byte.
SPECIFICATION Spec
CONSTANTS
  L = L
  R = R
  x = x
  y = y
  z = z
  Side <- MCSide
  Packet <- MCPacket
  PayloadOf <- MCPayloadOf
  HeaderLen = 2
  Outbox <- MCOneWay
  Capacity = 5
  MayExit <- MCNobody
INVARIANTS
  IncompleteHeaderIsReturned
