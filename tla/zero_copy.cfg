\* Two tasks of one priority and one above them.
CONSTANTS
  Tasks <- MCTasks
  Prio <- MCPrio
  Size = 2
  FullAssert = TRUE
SPECIFICATION FairSpec
INVARIANTS
  TypeOK
  ObtainShowsIdleUnlessRaced
  HolderRecorded
  AssertHolds
PROPERTIES
  NothingCutShort
  MutexComesBack
CHECK_DEADLOCK FALSE
