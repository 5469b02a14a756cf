SPECIFICATION FairSpec
CONSTANTS
  BlockIds = 5
  PacketsPerBlock = 2
  SourcePackets = 2
  EsiOrder <- TwoSourcesNoRepair
  NumLanes = 2
  NumBlockDecoders = 2
  QueueCapacity = 1
  MaxBlocks = 2
  MaxSessions = 1
  MaxDecoders = 1
PROPERTIES WrittenPromptly EndDrains StopThenWaitReturns
