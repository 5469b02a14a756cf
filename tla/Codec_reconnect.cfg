SPECIFICATION Spec
CONSTANTS
  BlockIds = 4
  PacketsPerBlock = 2
  SourcePackets = 2
  EsiOrder <- TwoSourcesNoRepair
  NumLanes = 1
  NumBlockDecoders = 1
  QueueCapacity = 1
  MaxBlocks = 2
  MaxSessions = 2
  MaxDecoders = 1
ACTION_CONSTRAINT AsRunDecoder
INVARIANT IgnoredBlockWasDecoded
