SPECIFICATION FairSpec
CONSTANTS
  Size = 3
  MaxBytes = 8
INVARIANTS BlocksPartitionInput
PROPERTY WholeBlocksReturned
