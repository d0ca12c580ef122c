\* Two peers, their sessions failing and ending at any moment.
SPECIFICATION FairSpec
CONSTANTS
  a = a
  b = b
  nothing = nothing
  Addr <- MCAddr
  Nothing = nothing
  CHANNEL_LEN = 2
  MaxDatagrams = 4
INVARIANTS
  TypeOK
  OneLiveStream
  SortedByPeer
  LossAccounted
PROPERTIES
  Reconnects
  ListenerReturns
CHECK_DEADLOCK FALSE
