SPECIFICATION FairSpec
CONSTANTS
  MaxNew = 5
  ChannelCap = 2
  BodyCap = 2
  Backlog = 2
INVARIANT
  ClosedEarlyIsUnreported
CHECK_DEADLOCK FALSE
