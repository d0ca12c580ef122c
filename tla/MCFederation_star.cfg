\* A bus, without loops, between two routers that peer with a third.
SPECIFICATION Spec
CONSTANTS
  A = A
  B = B
  C = C
  s = s
  p = p
  q = q
  t = t
  u = u
  NoRouter = NoRouter
  Router <- MCRouter
  Gateway <- MCGateway
  RosSubscriber <- MCSubscriber
  RosPublisher <- MCPublisher
  Home <- MCHome
  TopicOf <- MCTopicOf
  Datagram <- MCDatagram
  Unreliable <- MCUnreliable
  MaxSaid = 2
  MaxFaults = 1
CHECK_DEADLOCK FALSE
INVARIANTS
  NoLoop
  RoutedIsHeard
PROPERTIES
  ImplementsBus
