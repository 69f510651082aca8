\* A frame of two descriptors whose second one is not there yet.
CONSTANTS
  RxBufNb <- MCRxBufNb
  MaxSegs = 2
  FifoLen = 1
  PoolSize = 2
  MaxFrames = 3
SPECIFICATION Spec
INVARIANTS
  RingInStep
CHECK_DEADLOCK FALSE
