SPECIFICATION FairSpec
CONSTANTS
  TokensPerPage = 2
  PoolBlocks = 4
  MaxSeq = 7
  Hybrid = FALSE
  Capacity = 2
  MaxPending = 1
  MaxFinished = 1
  Request <- Requests
INVARIANTS
  TypeOK
  LogitsAreOwn
  CacheAccounts
  HolesAreColdest
  FailsOnlyWhenTooBig
PROPERTY
  Drains
CHECK_DEADLOCK FALSE
