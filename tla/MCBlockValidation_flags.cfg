SPECIFICATION Spec
CONSTANTS
  NumKeys = 2
  Modes <- HardwareWithBad
  Genesis = {1}
  MaxTxs = 2
  BlockSize = 2
  MaxCrashes = 0
INVARIANT MergesOwnFlags
CHECK_DEADLOCK FALSE
