SPECIFICATION Spec
CONSTANTS
  NumKeys = 2
  Modes <- SoftwareAndHardware
  Genesis = {1}
  MaxTxs = 3
  BlockSize = 3
  MaxCrashes = 1
INVARIANTS
  TypeOK
  NoneRejectedForNothing
  FollowsCard
PROPERTY
  ImplementsSerialLedger
CHECK_DEADLOCK FALSE
