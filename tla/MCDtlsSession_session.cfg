\* Losses and reordering; the reader stays in step or finds back.
SPECIFICATION FairSpec
CONSTANTS
  v = v
  w = w
  x = x
  y = y
  z = z
  Packet <- MCPacket
  PayloadOf <- MCPayloadOf
  HeaderLen = 2
  Traffics <- MCMixed
  MaxFlight = 4
  MaxFaults = 2
INVARIANTS
  TypeOK
  InSequence
PROPERTIES
  Resynchronises
CHECK_DEADLOCK FALSE
