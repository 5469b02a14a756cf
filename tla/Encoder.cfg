SPECIFICATION FairSpec
CONSTANTS
  BlockIds = 3
  PacketsPerBlock = 2
  NumBlockEncoders = 2
  QueueCapacity = 1
  MaxBlocks = 3
INVARIANTS TypeOK LaneOrder NothingLostWithoutError FailuresComeFromOutput WaitsOnlyForInput
PROPERTIES StreamSpec EndDrains OutputErrorSpreads StopThenWaitReturns
