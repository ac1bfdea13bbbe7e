SPECIFICATION Spec
CONSTANTS
  PatchSize = 1
  MergeSize = 2
  MinPixels = 4
  MaxPixels = 24
  Request = {"two", "long", "stray", "text"}
  Content <- Requests
  Permits = 2
  MaxPatches = 28
  Downscale = TRUE
  Capacity = 2
  PrefillRows = 4
  ChunkMax = 3
INVARIANTS
  ImagesInMemoryAreCapped
  RowsGetTheirOwn
  AcceptedIsEncodable
PROPERTY
  EveryRequestIsAnswered
CHECK_DEADLOCK FALSE
