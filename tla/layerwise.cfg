SPECIFICATION FairSpec
CONSTANTS
  Loaders <- TwoLoaders
  Savers <- TwoSavers
  NumLayers = 4
  Chunks = {1, 2, 3}
  Modes = {"ok", "frozen", "unhealthy"}
  None = None
  a = a b = b c = c
INVARIANTS LoadsInTime StoresInOrder
PROPERTY PassEnds
CHECK_DEADLOCK FALSE
