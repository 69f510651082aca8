\* The receive interrupt enabled, reads that may time out, clears at any time.
CONSTANTS
  BufLen = 3
  Bytes <- MCBytes
  MaxBytes = 2
  MaxSem = 2
  RxneEnabled = TRUE
  MayTimeOut = TRUE
SPECIFICATION FairSpec
INVARIANTS
  TypeOK
  CountMatches
  AvailableUnlessFull
PROPERTIES
  QueueOfBytes
  HandlerReturns
  ReaderIsServed
CHECK_DEADLOCK FALSE
