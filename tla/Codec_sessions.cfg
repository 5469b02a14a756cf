SPECIFICATION Spec
CONSTANTS
  BlockIds = 2
  PacketsPerBlock = 3
  SourcePackets = 2
  EsiOrder <- TwoSourcesOneRepair
  NumLanes = 1
  NumBlockDecoders = 1
  QueueCapacity = 1
  MaxBlocks = 3
  MaxSessions = 2
  MaxDecoders = 2
ACTION_CONSTRAINT AsRunDecoder
INVARIANTS TypeOK CurrentBlockIsRight BlocksAreIntact LaneOutputOrder ReceivedBlocksWritten
