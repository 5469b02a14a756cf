SPECIFICATION Spec
CONSTANTS
  BlockIds = 5
  PacketsPerBlock = 2
  SourcePackets = 2
  EsiOrder <- TwoSourcesNoRepair
  NumLanes = 2
  NumBlockDecoders = 2
  QueueCapacity = 1
  MaxBlocks = 3
  MaxSessions = 1
  MaxDecoders = 2
ACTION_CONSTRAINT AsRunDecoder
INVARIANTS ReceivedBlocksWritten WaitsOnlyForPackets
PROPERTY TransferSpec
