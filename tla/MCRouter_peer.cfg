\* A router that peers with a gateway, and its progress.
SPECIFICATION RouterFairSpec
CONSTANTS
  p = p
  q = q
  h = h
  g = g
  t = t
  u = u
  Rib = Rib
  GDPName <- MCGDPName
  RosPublisher <- MCPublishers
  Routable <- MCRoutablePeer
  Endpoint <- MCEndpointPeer
  SourceName <- MCSourcePeer
  NextHop <- MCNextHopPeer
  RosSubscriber <- MCNone
  Session <- MCSessionPeer
  FlushSink <- MCGateway
  GatewaySession <- MCGateway
  TopicOf <- MCTopicOfPeer
  MaxCounter = 2
  OverflowChecks = TRUE
  MaxSent <- MCSentPeer
  MaxAdvertised <- MCAdvertisedPeer
CHECK_DEADLOCK FALSE
PROPERTIES
  PublishEventually
