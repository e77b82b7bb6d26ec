\* fastq_join() with a 2-bit int: the ordinal cast of lines 226 and 238 after
\* more pairs than an int holds.
CONSTANTS
  ReadSet <- MCReadSet
  MaxReads = 2
  PadOptions <- MCPadOptions
  OutputConfigs <- MCOutputConfigs
  Complement <- MCComplement
  IntBits = 2

SPECIFICATION Spec

\* The function returns when done or after a fatal error.
CHECK_DEADLOCK FALSE

INVARIANTS
  PairsJoinedInOrder
