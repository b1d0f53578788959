SPECIFICATION FairTransfers
CONSTANTS
  Threads = {t1, t2, t3}
  MaxTransfers = 1
  Modes = {"direct", "both"}
  Headed = {t1}
  CpuCopy = TRUE
  MaxBuilds = 1
  MaxFaults = 2
INVARIANTS WritesExclusive SleepersHaveReason DriverOpenWhileUsed NothingLeaks ResultHonest
PROPERTY TransfersEnd
CHECK_DEADLOCK FALSE
