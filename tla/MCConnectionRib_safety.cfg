\* Every path of a packet: RIB lookup, broadcast, direct; a counter that wraps.
SPECIFICATION Spec
CONSTANTS
  a = a
  b = b
  d = d
  s = s
  t = t
  u = u
  Rib = Rib
  GDPName <- MCGDPName
  Routable <- MCTwoNames
  Endpoint <- MCEndpointDirect
  SourceName <- MCSourceDirect
  NextHop <- MCNextHopDirect
  FlushSink <- MCFlushSink
  MaxCounter = 1
  OverflowChecks = FALSE
  MaxSent <- MCSentDirect
  MaxAdvertised <- MCAdvertisedDirect
SYMMETRY MCNamesAlike
INVARIANTS
  TypeOK
  NoEcho
  InOrder
  BoundedCopies
CHECK_DEADLOCK FALSE
