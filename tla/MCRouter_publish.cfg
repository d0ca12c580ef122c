\* A publisher, a subscriber and an accepted session on one topic.
SPECIFICATION RouterSpec
CONSTANTS
  p = p
  q = q
  h = h
  g = g
  t = t
  u = u
  Rib = Rib
  GDPName <- MCGDPName
  RosPublisher <- MCPublisher
  Routable <- MCRoutable
  Endpoint <- MCEndpoint
  SourceName <- MCSourceName
  NextHop <- MCNextHop
  RosSubscriber <- MCSubscriber
  Session <- MCSession
  FlushSink <- MCNone
  GatewaySession <- MCNone
  TopicOf <- MCTopicOf
  MaxCounter = 2
  OverflowChecks = TRUE
  MaxSent <- MCTwice
  MaxAdvertised <- MCTwice
CHECK_DEADLOCK FALSE
INVARIANTS
  RouterTypeOK
  PublishOnceInOrder
