SPECIFICATION FairSpec
CONSTANTS
  Peers <- SomePeers
  Chains <- SomeChains
  Workers = 2
  MaxCrashes = 1
  MaxFaults = 2
INVARIANTS
  FlagsAsInSequence
  OnlyCopiesPass
  ErrorOfFirst
  OffloadSafe
PROPERTY EveryBlockStored
CHECK_DEADLOCK FALSE
