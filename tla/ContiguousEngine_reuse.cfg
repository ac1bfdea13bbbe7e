SPECIFICATION UncancelledSpec
CONSTANTS
  Capacity = 1
  MaxSeq = 3
  PrefillRows = 1
  ChunkMax = 2
  MaxAnchors = 1
  ReuseSlots = 1
  Token = {1, 2}
  Request <- ConversationRequests
INVARIANT
  ReuseIsExact
CHECK_DEADLOCK FALSE
