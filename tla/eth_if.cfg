\* Both directions at once, with the core lock between them.
CONSTANTS
  RxBufNb <- MCRxBufNb
  MaxSegs = 2
  FifoLen = 1
  PoolSize = 2
  MaxFrames = 4
  TxBufNb = 2
  MaxCalls = 3
  MaxUnderflows = 1
  MaxMixed = 3
SPECIFICATION FairIfSpec
INVARIANTS
  IfTypeOK
  RingInStepUnlessCut
  FramesAsStored
  NoSilentStall
  PbufsAccounted
  LeaveInOrder
  NextCallRevives
PROPERTIES
  DropsOnlyWhenFull
  ReceptionGoesOn
  AcceptedLeave
CHECK_DEADLOCK FALSE
