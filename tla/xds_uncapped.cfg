SPECIFICATION Spec
CONSTANTS
  k1 = k1  k2 = k2  k3 = k3  a = a  b = b  j1 = j1  j2 = j2
  Keys = {k1, k2}
  BlockFirst = {k1}
  LegacySize <- OneUnit
  BlockFirstSize <- OneUnit
  MaxSize = 3
  Eviction = FALSE
  Callers = {a}
  Role <- DirectAndRemove
  Jobs = {j1}
  ScanAtStart = TRUE
  MaxPins = 0
  MaxCrashes = 1
  UnlinksFail = FALSE
  CounterBound = 1
INVARIANT SidecarHasData
CHECK_DEADLOCK FALSE
