\* Two places in the queue and one in the FIFO: both overflow. After a loss, or
\* a table of several frames, the exchange may end for good.
CONSTANTS
  QueueLen = 2
  FifoLen = 1
  SpecSize = 13
  Tables <- MCTables
  MaxNoise = 2
  MaxNacks = 1
  MaxRequests = 2
SPECIFICATION FairSpec
INVARIANTS
  TypeOK
  InSync
  ExpectsWhatIsComing
  TableHasNoReservedIfNoLoss
PROPERTIES
  AddressOnlyByConsent
  FragmentsInOrder
  Connects
CHECK_DEADLOCK FALSE
