\* Counters, runs, tails and the quality summary of fastq_chars().
CONSTANTS
  ReadSet <- MCReadSet
  MaxReads = 3
  TailOptions = {1, 2, 3}

SPECIFICATION Spec

\* The function returns after the summary.
CHECK_DEADLOCK FALSE

INVARIANTS
  TypeOK
  CharCountsMatch
  MaxRunMatches
  TailCountsMatch
  QualityRangesMatch
  ReportMatchesReads

