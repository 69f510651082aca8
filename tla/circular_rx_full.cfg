\* The reader's assertion, a full buffer included.
CONSTANTS
  BufLen = 3
  Bytes <- MCBytes
  MaxBytes = 2
  MaxSem = 3
  RxneEnabled = TRUE
  MayTimeOut = TRUE
SPECIFICATION Spec
INVARIANTS
  AssertBytesAvailable
CHECK_DEADLOCK FALSE
