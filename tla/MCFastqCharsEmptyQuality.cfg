\* A file whose reads are all empty still gets a quality range.
CONSTANTS
  ReadSet <- MCReadSet
  MaxReads = 2
  TailOptions = {1, 2}

SPECIFICATION Spec
CHECK_DEADLOCK FALSE

INVARIANTS
  RangeOfFileQualities
