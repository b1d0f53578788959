SPECIFICATION FairSpec
CONSTANTS
  Keys = {k1, k2}
  BlockFirst = {k1}
  Resubmitted = {k2}
  Puts = {p1, p2}
  DirectEnabled = TRUE
  MaxCrashes = 1
  MaxAbandoned = 1
INVARIANTS StoresAccounted StagingOutlives
PROPERTIES ImplementsTier CloseCompletes
CHECK_DEADLOCK FALSE
