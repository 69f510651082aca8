\* What the driver says about the write mutex, without the condition that no
\* task takes it in the middle of another's call:
\* one of higher priority that waits is enough.
CONSTANTS
  Tasks <- MCPair
  Prio <- MCPairPrio
  Size = 2
  FullAssert = TRUE
SPECIFICATION Spec
INVARIANTS
  ObtainShowsIdle
CHECK_DEADLOCK FALSE
