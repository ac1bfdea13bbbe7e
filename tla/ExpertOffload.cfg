SPECIFICATION Spec
CONSTANTS
  Weights = {0, 1, 2}
  Slots = {0, 1}
  MaxForwards = 3
  TopK = 2
INVARIANTS
  PrefetchedIsWhole
  PlacementIsInvisible
  ResidentIsLoaded
CHECK_DEADLOCK FALSE
