\* --sample_pct 100 with mass_total rounded up on its conversion to double.
CONSTANTS
  MaxGroups = 3
  Weights <- MCWeights
  SampleSizes = {0}
  SamplePcts <- MCFullPct
  DoubleBits = 2
  IntBits = 8
  OutputConfigs <- MCOutputConfigs

SPECIFICATION Spec
CHECK_DEADLOCK FALSE

INVARIANTS
  SampleSizeIsFloor
