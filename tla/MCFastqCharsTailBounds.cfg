\* The backwards tail loop stays inside the quality string.
CONSTANTS
  ReadSet <- MCReadSet
  MaxReads = 3
  TailOptions = {1, 2, 3}

SPECIFICATION Spec
CHECK_DEADLOCK FALSE

INVARIANTS
  TailReadInBounds
