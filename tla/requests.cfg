SPECIFICATION FairSpec
CONSTANTS
  Requests = {r1}
  ChunkSize = 2
  SaveUnfull = FALSE
  Locations <- TwoTiers
  LocalCPU = cpu
  Direct = {xds}
  StoreLocations = {xds}
  MayFail <- AnyOfXds
  MaxTokens = 6
  None = None
  cpu = cpu
  xds = xds
  PromptLen = 4
  LocalHits = {0, 3}
  DiscardPartial = TRUE
  SaveDecode = FALSE
  MinRetrieve = 0
  MaxPreemptions = 1
INVARIANTS TrackersMatch PinsRemembered ReportedUnlessDropped ValidUnlessDropped
PROPERTY PinsReleased
CHECK_DEADLOCK FALSE
