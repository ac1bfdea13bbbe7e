SPECIFICATION MCFairSpec
CONSTANTS
  Capacity = 2
  MaxSeq = 4
  TokensPerPage = 2
  PrefillRows = 2
  RetiredCap = 1
  Token = {1, 2}
  Request <- LimitRequests
PROPERTIES
  FullEngineDrains
  AdmissionEnds
CHECK_DEADLOCK FALSE
