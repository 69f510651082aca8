\* What the comment in TableTrim claims, without the condition that no frame
\* was lost.
CONSTANTS
  QueueLen = 2
  FifoLen = 1
  SpecSize = 13
  Tables <- MCTables
  MaxNoise = 2
  MaxNacks = 1
  MaxRequests = 2
SPECIFICATION Spec
INVARIANTS
  TableHasNoReserved
CHECK_DEADLOCK FALSE
