SPECIFICATION Spec
CONSTANTS
  k1 = k1  k2 = k2  k3 = k3  a = a  b = b  j1 = j1  j2 = j2
  Keys = {k1}
  BlockFirst = {k1}
  LegacySize <- OneUnit
  BlockFirstSize <- Bigger
  MaxSize = 3
  Eviction = TRUE
  Callers = {a, b}
  Role <- StoreRemoveLoad
  Jobs = {j1, j2}
  ScanAtStart = TRUE
  MaxPins = 0
  MaxCrashes = 1
  UnlinksFail = TRUE
  CounterBound = 0
INVARIANTS TypeOK NeverUndercounts PutTasksMatch
PROPERTY CapacityRespected
