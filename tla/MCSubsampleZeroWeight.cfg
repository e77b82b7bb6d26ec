\* Abundances as spec section 3 allows them (w_i >= 0): the selection is
\* checked against its abstract specification.
CONSTANTS
  MaxGroups = 3
  Weights <- MCSpecWeights
  SampleSizes = {0, 1, 3}
  SamplePcts <- MCSamplePcts
  DoubleBits = 12
  IntBits = 8
  OutputConfigs <- MCOutputConfigs

SPECIFICATION Spec
CHECK_DEADLOCK FALSE

PROPERTIES
  SelectionRefined
