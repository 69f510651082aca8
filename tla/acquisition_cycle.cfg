\* Liveness and refinement: two labels are enough to tell a measurement from
\* the one before it.
CONSTANTS
  N <- MCN
  Gens = 2
  IsrTicks <- MCIsrTicks
  LateIsr = FALSE
SPECIFICATION FairSpec
PROPERTIES
  ImplementsCycle
