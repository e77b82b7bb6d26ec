\* Selection, output and termination of subsample() with loader abundances.
CONSTANTS
  MaxGroups = 3
  Weights <- MCWeights
  SampleSizes = {0, 1, 3, 5}
  SamplePcts <- MCSamplePcts
  DoubleBits = 12
  IntBits = 8
  OutputConfigs <- MCOutputConfigs

SPECIFICATION Spec

\* The function returns when done or after a fatal error.
CHECK_DEADLOCK FALSE

INVARIANTS
  TypeOK
  UnitOwnership
  DrawBoundValid
  OutputPartition
  SampleSizeIsFloor

PROPERTIES
  SelectionRefined
  Termination
