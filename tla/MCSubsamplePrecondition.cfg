\* n > mass_total is refused before any output file is touched.
CONSTANTS
  MaxGroups = 3
  Weights <- MCWeights
  SampleSizes = {0, 1, 3, 5}
  SamplePcts <- MCSamplePcts
  DoubleBits = 12
  IntBits = 8
  OutputConfigs <- MCOutputConfigs

SPECIFICATION Spec
CHECK_DEADLOCK FALSE

INVARIANTS
  PreconditionBeforeIO
