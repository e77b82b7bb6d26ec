\* Every db_getabundance call of the selection loop reads an existing entry.
CONSTANTS
  MaxGroups = 3
  Weights <- MCWeights
  SampleSizes = {0, 1, 3, 5}
  SamplePcts <- MCSamplePcts
  DoubleBits = 12
  IntBits = 8
  OutputConfigs <- MCOutputConfigs

SPECIFICATION Spec
CHECK_DEADLOCK FALSE

INVARIANTS
  AbundanceReadInBounds
