SPECIFICATION FairSpec
CONSTANTS
  Configurations <- AllConfigurations
  MaxBlock = 3
  MaxCrashes = 2
  MaxFaults = 1
INVARIANTS
  TypeOK
  IInv
  CommitsOwnBatch
  PreparesOnCommittedState
  AppliedInOrder
  HashChain
  PvtGap
  PvtDataSurvives
  OpensAfterCrash
  StoresAgreeBetweenBlocks
  NoBlockForgotten
PROPERTIES
  ImplementsLedger
  EventuallyStored
CHECK_DEADLOCK FALSE
