SPECIFICATION MCSpec
CONSTANTS
  Capacity = 3
  MaxSeq = 3
  PrefillRows = 3
  ChunkMax = 2
  MaxAnchors = 1
  ReuseSlots = 2
  Token = {1, 2}
  Request <- TurnRequests
INVARIANTS
  TypeOK
  RowsAreOwn
  RecurrenceIsOwn
  OneTokenBehind
PROPERTY
  ImplementsPrivateKV
CHECK_DEADLOCK FALSE
