\* The int abundance vector and ordinals of lines 162 and 214-215 with a
\* 2-bit int: an amplicon given more selected reads than an int holds.
CONSTANTS
  MaxGroups = 2
  Weights <- MCWeights
  SampleSizes = {2, 3}
  SamplePcts <- MCSamplePcts
  DoubleBits = 12
  IntBits = 2
  OutputConfigs <- MCOutputConfigs

SPECIFICATION Spec
CHECK_DEADLOCK FALSE

INVARIANTS
  OutputPartition
