\* Every safety property and liveness, handlers late or not. Two labels are
\* enough to tell a measurement from the one before it.
CONSTANTS
  N <- MCN
  Gens = 2
  IsrTicks <- MCIsrTicks
  LateIsr = TRUE
SPECIFICATION FairSpec
INVARIANTS
  TypeOK
  BuffersOwned
  CoherentWaveforms
  NoLostCompletion
  TriggerFindsRoom
  IInv
PROPERTIES
  EveryRollIsMeasured
