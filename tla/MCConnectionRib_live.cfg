\* Progress of queued packets and of a flush, in a RIB that may panic.
SPECIFICATION FairSpec
CONSTANTS
  a = a
  b = b
  d = d
  s = s
  t = t
  u = u
  Rib = Rib
  GDPName <- MCGDPName
  Routable <- MCTwoNames
  Endpoint <- MCEndpointRib
  SourceName <- MCSourceRib
  NextHop <- MCNextHopRib
  FlushSink <- MCFlushSink
  MaxCounter = 1
  OverflowChecks = TRUE
  MaxSent <- MCSentRib
  MaxAdvertised <- MCAdvertisedRib
PROPERTIES
  Delivery
  FlushCovers
CHECK_DEADLOCK FALSE
