SPECIFICATION Spec
CONSTANTS
  Configurations <- ParallelSoftware
  MaxBlock = 3
  MaxCrashes = 1
  MaxFaults = 0
INVARIANT NeverRefused
CHECK_DEADLOCK FALSE
