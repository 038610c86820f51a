SPECIFICATION FairSpec
CONSTANTS
  Configurations <- SequentialSoftware
  MaxBlock = 3
  MaxCrashes = 1
  MaxFaults = 0
PROPERTY LeadIsUsedUp
CHECK_DEADLOCK FALSE
