SPECIFICATION FairSpec
CONSTANTS
  Releases <- BothReleases
  Chains <- SomeChains
  BTL = 1
  MaxCrashes = 1
  MaxFaults = 1
  MaxRollbacks = 1
INVARIANTS
  TypeOK
  ReadsRightOrRefuses
  StateFollowsStore
  ExpiredStaysGone
PROPERTY MissingResolved
CHECK_DEADLOCK FALSE
