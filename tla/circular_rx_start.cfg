\* The driver as it is: the receive interrupt is not enabled before a read.
CONSTANTS
  BufLen = 3
  Bytes <- MCBytes
  MaxBytes = 2
  MaxSem = 3
  RxneEnabled = FALSE
  MayTimeOut = FALSE
SPECIFICATION FairSpec
PROPERTIES
  ReaderIsServed
CHECK_DEADLOCK FALSE
