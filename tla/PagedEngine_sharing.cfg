SPECIFICATION MCSpec
CONSTANTS
  Capacity = 2
  MaxSeq = 6
  TokensPerPage = 2
  PrefillRows = 4
  RetiredCap = 1
  Token = {1, 2}
  Request <- TwoPageRequests
INVARIANTS
  TypeOK
  PageSafety
  ReadsOwnContext
  CacheIsMaterialized
  NoPageLeak
  CacheIsRecoverable
  AdmissionNeverStarves
  EndedLeaves
  OneTokenBehind
PROPERTY
  ImplementsPrivateKV
