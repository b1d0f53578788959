SPECIFICATION FairSpec
CONSTANTS
  Keys = {k1, k2}
  Batches <- OneBatch
  Capacity = 2
  Workers = {w1, w2}
  MaxStranded = 1
  Roles = {"worker", "scheduler"}
  Bypass = FALSE
  FirstRank = FALSE
  Backends <- ThreeBackends
  Shared = {cpu}
  Disk = disk
  Recreatable = {disk}
  Slow = {"engine"}
  Hangs = {"lookup_server"}
  k1 = k1
  k2 = k2
  cpu = cpu
  disk = disk
  remote = remote
INVARIANTS DiskCapRespected HeldMatches StorageLife
PROPERTY StopsUnlessStuck
CHECK_DEADLOCK FALSE
