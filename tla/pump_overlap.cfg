SPECIFICATION Spec
CONSTANTS
  MaxQueueLen = 2
  MaxBatch = 2
  Cap = 7
  U16Max = 5
  Sizes = {1, 4, 6}
  MaxReads = 3
  MaxPushes = 5
  MaxStarts = 2
INVARIANT TypeOK
INVARIANT InOrder
INVARIANT NoneLost
INVARIANT BoundedMemory
PROPERTY OversizeBlocks
PROPERTY ImplementsChannel
