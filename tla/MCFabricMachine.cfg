SPECIFICATION FairSpec
CONSTANTS
  Streams <- TwoStreams
  StartAt <- Starts
  Named <- OnlyPeerNamed
  StartingBlock = 1
  ResetFpga = {TRUE, FALSE}
  ConfigBlocks <- SomeConfigBlock
  DataRegs = 2
  Base = 2
  MaxBlock = 3
  MaxFaults = 1
INVARIANTS
  TypeOK
  NoTornBlock
  CardComesFirst
PROPERTIES
  ImplementsBlockFeed
  EveryBlockTaken
CHECK_DEADLOCK FALSE
