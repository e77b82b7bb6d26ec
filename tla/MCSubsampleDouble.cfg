\* The percentage of line 172 in double arithmetic against floor(M * pct / 100).
CONSTANTS
  MaxGroups = 3
  Weights <- MCWeights
  SampleSizes = {0}
  SamplePcts <- MCEdgePcts
  DoubleBits = 8
  IntBits = 8
  OutputConfigs <- MCOutputConfigs

SPECIFICATION Spec
CHECK_DEADLOCK FALSE

INVARIANTS
  SampleSizeIsFloor
