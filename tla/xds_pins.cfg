SPECIFICATION FairSpec
CONSTANTS
  k1 = k1  k2 = k2  k3 = k3  a = a  b = b  j1 = j1  j2 = j2
  Keys = {k1, k2, k3}
  BlockFirst = {k1, k2, k3}
  LegacySize <- OneUnit
  BlockFirstSize <- Mixed
  MaxSize = 3
  Eviction = TRUE
  Callers = {a}
  Role <- StoreOnly
  Jobs = {j1, j2}
  ScanAtStart = FALSE
  MaxPins = 2
  MaxCrashes = 0
  UnlinksFail = FALSE
  CounterBound = 0
INVARIANTS PinCountsMatch ExactAccounting IndexedIsOnDisk
PROPERTY EvictionTerminates
