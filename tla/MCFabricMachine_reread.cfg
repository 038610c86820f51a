SPECIFICATION Spec
CONSTANTS
  Streams <- OneStream
  StartAt <- PeerStart
  Named <- OneStream
  StartingBlock = 1
  ResetFpga = {FALSE}
  ConfigBlocks <- NoConfigBlock
  DataRegs = 2
  Base = 4
  MaxBlock = 3
  MaxFaults = 1
INVARIANT DataIsWhole
CHECK_DEADLOCK FALSE
