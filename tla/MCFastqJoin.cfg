\* Pairing, joining and completion of fastq_join().
CONSTANTS
  ReadSet <- MCReadSet
  MaxReads = 3
  PadOptions <- MCPadOptions
  OutputConfigs <- MCOutputConfigs
  Complement <- MCComplement
  IntBits = 8

SPECIFICATION Spec

\* The function returns when done or after a fatal error.
CHECK_DEADLOCK FALSE

INVARIANTS
  TypeOK
  PairsJoinedInOrder
  CompletedRunPairedAll

PROPERTIES
  ContractRefined
