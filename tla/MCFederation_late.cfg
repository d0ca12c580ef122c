\* A topic that is registered after the flush of its router.
SPECIFICATION FairSpec
CONSTANTS
  A = A
  B = B
  C = C
  s = s
  p = p
  q = q
  t = t
  u = u
  NoRouter = NoRouter
  Router <- MCRouter
  Gateway <- MCGateway
  RosSubscriber <- MCSubscriber
  RosPublisher <- MCPublisher
  Home <- MCHome
  TopicOf <- MCTopicOf
  Datagram <- MCDatagram
  Unreliable <- MCNone
  MaxSaid = 1
  MaxFaults = 0
CHECK_DEADLOCK FALSE
PROPERTIES
  LateListener
