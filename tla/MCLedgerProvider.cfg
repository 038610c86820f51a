SPECIFICATION FairSpec
CONSTANTS
  Ledgers <- TwoLedgers
  Versions <- BothVersions
  MaxHeight = 2
  MaxCrashes = 2
  MaxFaults = 2
INVARIANTS
  IInv
  Recoverable
  StatusForEach
  OpenedAreActive
PROPERTY CreationSettles
CHECK_DEADLOCK FALSE
