SPECIFICATION FairSpec
CONSTANTS
  s1 = s1
  p2 = p2
  p1 = p1
  Client = {s1, p1, p2}
  Streaming = {s1}
  Capacities = {1, 2}
  MaxNew = 2
  ChannelCap = 1
INVARIANTS
  TypeOK
  SendersFollowSequences
  NoRequestOrphaned
  CompletionIsWhole
PROPERTIES
  AnswersAreFinal
  EveryRequestIsAnswered
CHECK_DEADLOCK FALSE
