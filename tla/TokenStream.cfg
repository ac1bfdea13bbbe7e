SPECIFICATION FairSpec
CONSTANTS
  MaxNew = 5
  ChannelCap = 2
  BodyCap = 2
  Backlog = 2
INVARIANTS
  TypeOK
  NothingLost
  FinishIsWhole
PROPERTY
  TaskEnds
CHECK_DEADLOCK FALSE
