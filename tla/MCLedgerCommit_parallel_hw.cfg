SPECIFICATION Spec
CONSTANTS
  Configurations <- ParallelHardware
  MaxBlock = 3
  MaxCrashes = 0
  MaxFaults = 0
INVARIANT BatchPresentAtCommit
CHECK_DEADLOCK FALSE
