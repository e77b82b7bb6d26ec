------------------------------ MODULE FastqChars ------------------------------
(***************************************************************************)
(* fastq_chars() of src/src/fastq_chars.cc, the --fastq_chars command.     *)
(*                                                                         *)
(* The reads of one FASTQ file are scanned one character at a time: the    *)
(* counts of sequence and quality symbols, the longest run of each base,   *)
(* the quality range of N bases, and, walking backwards from the end of    *)
(* the quality string, whether the read ends in a run of --fastq_tail      *)
(* equal symbols.  Then the first and last quality symbols seen decide the *)
(* offset guess, and the report lists them.  Characters are their byte     *)
(* values; a report line is its kind and the numbers it prints.          *)
(***************************************************************************)
EXTENDS Integers, Sequences, FiniteSets, SequencesExt

CONSTANTS
  ReadSet,      \* FASTQ records [seq, qual] (upper case bases, byte values)
  MaxReads,     \* most records in the file
  TailOptions   \* values of --fastq_tail

\* The report goes to stderr unless --quiet, and to the --log file if given.
ReportDests == {"stderr", "log"}

ASSUME \A rd \in ReadSet : Len(rd.seq) = Len(rd.qual)
ASSUME TailOptions \subseteq Nat \ {0}

Bases == UNION {Range(rd.seq) : rd \in ReadSet}
QualChars == UNION {Range(rd.qual) : rd \in ReadSet}
Chars == Bases \cup QualChars
N == 78  \* 'N'; the parser upper-cases, so 'n' (110) never occurs

VARIABLES
  reads, opt_fastq_tail, opt_quiet, opt_log, \* inputs
  pc, rn, i,                                 \* read number, position
  seq_count, total_chars,
  sequence_chars, quality_chars, tail_chars, maxrun,
  qmin_n, qmax_n, run_char, run,
  qp, tail_char, tail_len,                   \* tail loop: q, tail_char, tail_len
  qmin, qmax, fastq_ascii,
  report                                     \* lines written per destination

vars == <<reads, opt_fastq_tail, pc, rn, i, seq_count, total_chars,
          sequence_chars, quality_chars, tail_chars, maxrun, qmin_n, qmax_n,
          run_char, run, qp, tail_char, tail_len, qmin, qmax, fastq_ascii,
          opt_quiet, opt_log, report>>

ReadSeq == reads[rn].seq
ReadQual == reads[rn].qual

\* *q of the tail loop: the quality byte at 0-based offset p of the current
\* read; before the start of the string the read is out of bounds and
\* yields whatever byte precedes it.
QualAt(p) == IF p >= 0 THEN {ReadQual[p + 1]} ELSE QualChars \cup {0}

\* A char holding a byte value (signed on the platforms vsearch targets).
SignedChar(c) == IF c > 127 THEN c - 256 ELSE c

Init ==
  /\ reads \in BoundedSeq(ReadSet, MaxReads)
  /\ opt_fastq_tail \in TailOptions
  /\ opt_quiet \in BOOLEAN /\ opt_log \in BOOLEAN
  /\ report = [d \in ReportDests |-> <<>>]
  /\ pc = "next" /\ rn = 0 /\ i = 0
  /\ seq_count = 0 /\ total_chars = 0
  /\ sequence_chars = [c \in Chars |-> 0]
  /\ quality_chars = [c \in Chars |-> 0]
  /\ tail_chars = [c \in Chars |-> 0]
  /\ maxrun = [c \in Chars |-> 0]
  /\ qmin_n = 255 /\ qmax_n = 0
  /\ run_char = -1 /\ run = 0
  /\ qp = 0 /\ tail_char = 0 /\ tail_len = 0
  /\ qmin = 0 /\ qmax = 0 /\ fastq_ascii = 0

\* Mutants of NextRead: seq_count++ forgotten, and the run tracking of
\* lines 103-104 not reset for a new read.
NextReadNoCount ==
  /\ pc = "next"
  /\ rn < Len(reads)
  /\ rn' = rn + 1
  /\ total_chars' = total_chars + Len(reads[rn + 1].seq)
  /\ run_char' = -1 /\ run' = 0 /\ i' = 0
  /\ pc' = "scan"
  /\ UNCHANGED <<reads, opt_fastq_tail, opt_quiet, opt_log, report, seq_count, sequence_chars, quality_chars,
                 tail_chars, maxrun, qmin_n, qmax_n, qp, tail_char, tail_len,
                 qmin, qmax, fastq_ascii>>

NextReadNoRunReset ==
  /\ pc = "next"
  /\ rn < Len(reads)
  /\ rn' = rn + 1
  /\ seq_count' = seq_count + 1
  /\ total_chars' = total_chars + Len(reads[rn + 1].seq)
  /\ i' = 0
  /\ pc' = "scan"
  /\ UNCHANGED <<reads, opt_fastq_tail, opt_quiet, opt_log, report, sequence_chars, quality_chars,
                 tail_chars, maxrun, qmin_n, qmax_n, run_char, run, qp,
                 tail_char, tail_len, qmin, qmax, fastq_ascii>>

\* Lines 94-106: fastq_next; a read is counted and the run tracking reset.
NextRead ==
  /\ pc = "next"
  /\ rn < Len(reads)
  /\ rn' = rn + 1
  /\ seq_count' = seq_count + 1
  /\ total_chars' = total_chars + Len(reads[rn + 1].seq)
  /\ run_char' = -1 /\ run' = 0 /\ i' = 0
  /\ pc' = "scan"
  /\ UNCHANGED <<reads, opt_fastq_tail, opt_quiet, opt_log, report, sequence_chars, quality_chars,
                 tail_chars, maxrun, qmin_n, qmax_n, qp, tail_char, tail_len,
                 qmin, qmax, fastq_ascii>>

\* Mutant of ScanChar: the quality counter indexed by the base.
ScanCharQualityByBase ==
  /\ pc = "scan"
  /\ i < Len(ReadSeq)
  /\ LET pch == ReadSeq[i + 1]
         qch == ReadQual[i + 1]
     IN /\ sequence_chars' = [sequence_chars EXCEPT ![pch] = @ + 1]
        /\ quality_chars' = [quality_chars EXCEPT ![pch] = @ + 1]
        /\ qmin_n' = IF pch = N /\ qch < qmin_n THEN qch ELSE qmin_n
        /\ qmax_n' = IF pch = N /\ qch > qmax_n THEN qch ELSE qmax_n
        /\ IF pch = run_char
           THEN /\ run' = run + 1
                /\ maxrun' = IF run + 1 > maxrun[pch]
                             THEN [maxrun EXCEPT ![pch] = run + 1] ELSE maxrun
                /\ UNCHANGED run_char
           ELSE run_char' = pch /\ run' = 0 /\ UNCHANGED maxrun
  /\ i' = i + 1
  /\ UNCHANGED <<reads, opt_fastq_tail, opt_quiet, opt_log, report, pc, rn, seq_count, total_chars,
                 tail_chars, qp, tail_char, tail_len, qmin, qmax, fastq_ascii>>

\* Lines 107-141: one character of the read.
ScanChar ==
  /\ pc = "scan"
  /\ i < Len(ReadSeq)
  /\ LET pch == ReadSeq[i + 1]
         qch == ReadQual[i + 1]
     IN /\ sequence_chars' = [sequence_chars EXCEPT ![pch] = @ + 1]
        /\ quality_chars' = [quality_chars EXCEPT ![qch] = @ + 1]
        /\ qmin_n' = IF pch = N /\ qch < qmin_n THEN qch ELSE qmin_n
        /\ qmax_n' = IF pch = N /\ qch > qmax_n THEN qch ELSE qmax_n
        /\ IF pch = run_char
           THEN /\ run' = run + 1
                /\ maxrun' = IF run + 1 > maxrun[pch]
                             THEN [maxrun EXCEPT ![pch] = run + 1] ELSE maxrun
                /\ UNCHANGED run_char
           ELSE run_char' = pch /\ run' = 0 /\ UNCHANGED maxrun
  /\ i' = i + 1
  /\ UNCHANGED <<reads, opt_fastq_tail, opt_quiet, opt_log, report, pc, rn, seq_count, total_chars,
                 tail_chars, qp, tail_char, tail_len, qmin, qmax, fastq_ascii>>

\* Lines 143-147: a read at least --fastq_tail long enters the tail loop
\* with its last quality symbol; a shorter one is done.
ScanEnd ==
  /\ pc = "scan"
  /\ i = Len(ReadSeq)
  /\ IF Len(ReadSeq) >= opt_fastq_tail
     THEN /\ tail_char' = ReadQual[Len(ReadSeq)]
          /\ qp' = Len(ReadSeq) - 2
          /\ tail_len' = 1
          /\ pc' = "tail"
     ELSE pc' = "next" /\ UNCHANGED <<tail_char, qp, tail_len>>
  /\ UNCHANGED <<reads, opt_fastq_tail, opt_quiet, opt_log, report, rn, i, seq_count, total_chars,
                 sequence_chars, quality_chars, tail_chars, maxrun,
                 qmin_n, qmax_n, run_char, run, qmin, qmax, fastq_ascii>>

\* Mutant of TailStep: a tail counted only when longer than --fastq_tail.
TailStepStrict ==
  /\ pc = "tail"
  /\ \E byte \in QualAt(qp) :
       LET len2 == IF byte = tail_char THEN tail_len + 1 ELSE tail_len
           stop == byte # tail_char \/ len2 >= opt_fastq_tail
       IN /\ tail_len' = len2
          /\ qp' = qp - 1
          /\ IF stop
             THEN /\ tail_chars' = IF len2 > opt_fastq_tail
                                   THEN [tail_chars EXCEPT ![tail_char] = @ + 1]
                                   ELSE tail_chars
                  /\ pc' = "next"
             ELSE UNCHANGED <<tail_chars, pc>>
  /\ UNCHANGED <<reads, opt_fastq_tail, opt_quiet, opt_log, report, rn, i, seq_count, total_chars,
                 sequence_chars, quality_chars, maxrun, qmin_n, qmax_n,
                 run_char, run, tail_char, qmin, qmax, fastq_ascii>>

\* Lines 148-160: one test of while (*q-- == tail_char).  The loop stops on
\* a different symbol or once tail_len reaches --fastq_tail; then a long
\* enough tail is counted for its symbol.
TailStep ==
  /\ pc = "tail"
  /\ \E byte \in QualAt(qp) :
       LET len2 == IF byte = tail_char THEN tail_len + 1 ELSE tail_len
           stop == byte # tail_char \/ len2 >= opt_fastq_tail
       IN /\ tail_len' = len2
          /\ qp' = qp - 1
          /\ IF stop
             THEN /\ tail_chars' = IF len2 >= opt_fastq_tail
                                   THEN [tail_chars EXCEPT ![tail_char] = @ + 1]
                                   ELSE tail_chars
                  /\ pc' = "next"
             ELSE UNCHANGED <<tail_chars, pc>>
  /\ UNCHANGED <<reads, opt_fastq_tail, opt_quiet, opt_log, report, rn, i, seq_count, total_chars,
                 sequence_chars, quality_chars, maxrun, qmin_n, qmax_n,
                 run_char, run, tail_char, qmin, qmax, fastq_ascii>>

\* Mutant of Summary: qmax found by the same upward scan as qmin.
SummaryUpwardMax ==
  /\ pc = "next"
  /\ rn = Len(reads)
  /\ LET seen == {c \in QualChars : quality_chars[c] # 0}
         lo == IF seen = {} THEN 0 ELSE SignedChar(Min(seen))
     IN /\ qmin' = lo
        /\ qmax' = lo
        /\ fastq_ascii' = IF lo < 59 \/ lo < 75 THEN 33 ELSE 64
  /\ pc' = "report"
  /\ UNCHANGED <<reads, opt_fastq_tail, opt_quiet, opt_log, report, rn, i, seq_count, total_chars,
                 sequence_chars, quality_chars, tail_chars, maxrun,
                 qmin_n, qmax_n, run_char, run, qp, tail_char, tail_len>>

\* Lines 164-205: after the last read, the first and last quality byte
\* seen, stored in a char, and the offset guess.
Summary ==
  /\ pc = "next"
  /\ rn = Len(reads)
  /\ LET seen == {c \in QualChars : quality_chars[c] # 0}
         lo == IF seen = {} THEN 0 ELSE SignedChar(Min(seen))
         hi == IF seen = {} THEN 0 ELSE SignedChar(Max(seen))
     IN /\ qmin' = lo
        /\ qmax' = hi
        /\ fastq_ascii' = IF lo < 59 \/ hi < 75 THEN 33 ELSE 64
  /\ pc' = "report"
  /\ UNCHANGED <<reads, opt_fastq_tail, opt_quiet, opt_log, report, rn, i, seq_count, total_chars,
                 sequence_chars, quality_chars, tail_chars, maxrun,
                 qmin_n, qmax_n, run_char, run, qp, tail_char, tail_len>>

\* One report line: what it is and the numbers it prints.
Line(kind, vals) == [kind |-> kind, vals |-> vals]

\* quality_chars[c] for any c the loop of line 278 visits.
QualCount(c) == IF c \in Chars THEN quality_chars[c] ELSE 0

\* Lines 219-244: the format named after the offset guess.
Format ==
  CASE fastq_ascii = 64 /\ qmin < 64 -> "solexa"
    [] fastq_ascii = 64 /\ qmin < 66 -> "illumina1.3"
    [] fastq_ascii = 64               -> "illumina1.5"
    [] qmax > 73                      -> "illumina1.8"
    [] OTHER                          -> "sanger"

\* Lines 250-271: a row per base seen, ascending, with the N quality range.
LetterRows ==
  LET cs == SetToSortSeq({c \in Chars : sequence_chars[c] > 0}, <)
      nq == IF qmin_n < qmax_n THEN <<qmin_n, qmax_n>> ELSE <<qmin_n>>
  IN [k \in 1..Len(cs) |->
        Line("letter", <<cs[k], sequence_chars[cs[k]], maxrun[cs[k]]>>
                       \o (IF cs[k] = N THEN nq ELSE <<>>))]

\* Mutant of QualRows: the loop of line 278 stopping before qmax.
QualRowsBeforeMax ==
  LET cs == SelectSeq([k \in 1..(qmax - qmin) |-> qmin + k - 1], LAMBDA c : QualCount(c) > 0)
  IN [k \in 1..Len(cs) |-> Line("qual", <<cs[k], tail_chars[cs[k]]>>)]

\* Lines 278-288: a row per quality byte from qmin to qmax that was seen.
QualRows ==
  LET cs == SelectSeq([k \in 1..(qmax - qmin + 1) |-> qmin + k - 1], LAMBDA c : QualCount(c) > 0)
  IN [k \in 1..Len(cs) |-> Line("qual", <<cs[k], tail_chars[cs[k]]>>)]

\* Lines 209-289 (stderr) and 292-373 (log): the same report.
ReportLines ==
  <<Line("read", <<seq_count>>)>> \o
  IF seq_count = 0 THEN <<>>
  ELSE <<Line("range", <<qmin, qmax, qmax - qmin + 1>>),
         Line("guess", <<qmin - fastq_ascii, qmax - fastq_ascii, fastq_ascii>>),
         Line(Format, <<>>)>> \o LetterRows \o QualRows

\* Whether destination d receives the report.
Shown(d) == IF d = "stderr" THEN ~opt_quiet ELSE opt_log

\* Lines 207-375: the report written to each destination.
Report ==
  /\ pc = "report"
  /\ report' = [d \in ReportDests |-> IF Shown(d) THEN ReportLines ELSE <<>>]
  /\ pc' = "done"
  /\ UNCHANGED <<reads, opt_fastq_tail, opt_quiet, opt_log, rn, i, seq_count,
                 total_chars, sequence_chars, quality_chars, tail_chars, maxrun,
                 qmin_n, qmax_n, run_char, run, qp, tail_char, tail_len,
                 qmin, qmax, fastq_ascii>>

Next == NextRead \/ ScanChar \/ ScanEnd \/ TailStep \/ Summary \/ Report

\* One thread runs the function to its end.
Spec == Init /\ [][Next]_vars /\ WF_vars(Next)

-----------------------------------------------------------------------------
(***************************************************************************)
(* Properties.                                                             *)
(***************************************************************************)

TypeOK ==
  /\ pc \in {"next", "scan", "tail", "report", "done"}
  /\ rn \in 0..Len(reads) /\ seq_count = rn
  /\ sequence_chars \in [Chars -> Nat] /\ quality_chars \in [Chars -> Nat]
  /\ tail_chars \in [Chars -> Nat] /\ maxrun \in [Chars -> Nat]
  /\ run \in Nat /\ tail_len \in 1..(opt_fastq_tail + 1) \cup {0}

\* Reference definitions over the whole file.
RECURSIVE CountIn(_, _)
CountIn(s, c) ==
  IF s = <<>> THEN 0 ELSE (IF Head(s) = c THEN 1 ELSE 0) + CountIn(Tail(s), c)

\* Occurrences of c in the given field of all reads.
CountInReads(field, c) == FoldLeft(LAMBDA acc, rd : acc + CountIn(rd[field], c), 0, reads)

\* s has k consecutive c's.
HasRun(s, c, k) == \E j \in 1..(Len(s) - k + 1) : \A t \in j..(j + k - 1) : s[t] = c

\* The quality string q ends in at least k copies of c.
EndsIn(q, c, k) == Len(q) >= k /\ \A t \in (Len(q) - k + 1)..Len(q) : q[t] = c

AllQuals == UNION {Range(reads[j].qual) : j \in 1..Len(reads)}
NQuals ==
  UNION {{reads[j].qual[t] : t \in {u \in DOMAIN reads[j].seq : reads[j].seq[u] = N}} :
           j \in 1..Len(reads)}

\* At the end the per-character counters agree with the reads: every base
\* and quality symbol counted once, the characters summed over all reads.
CharCountsMatch ==
  pc = "done" =>
    /\ \A c \in Chars : sequence_chars[c] = CountInReads("seq", c)
    /\ \A c \in Chars : quality_chars[c] = CountInReads("qual", c)
    /\ total_chars = FoldLeft(LAMBDA acc, rd : acc + Len(rd.seq), 0, reads)

\* The longest run of c in s (0 if c does not occur).
LongestRun(s, c) == Max({k \in 0..Len(s) : k = 0 \/ HasRun(s, c, k)})

\* maxrun[c] is one less than the longest run of c inside a single read
\* (lines 103-104 restart the run at every read, line 137 starts a run at
\* 0), and 0 when c never repeats.
MaxRunMatches ==
  pc = "done" =>
    \A c \in Bases :
      maxrun[c] = Max({0} \cup {LongestRun(reads[j].seq, c) - 1 : j \in 1..Len(reads)})

\* tail_chars[c] counts the reads whose quality string ends in at least
\* --fastq_tail copies of c, whatever the tail loop read past the start.
TailCountsMatch ==
  pc = "done" =>
    \A c \in Chars :
      tail_chars[c] = Cardinality({j \in 1..Len(reads) : EndsIn(reads[j].qual, c, opt_fastq_tail)})

\* The summary takes the lowest and highest quality symbol of the file,
\* and the N range the lowest and highest quality under an N.
QualityRangesMatch ==
  pc = "done" =>
    /\ AllQuals # {} => qmin = Min(AllQuals) /\ qmax = Max(AllQuals)
    /\ NQuals # {} => qmin_n = Min(NQuals) /\ qmax_n = Max(NQuals)
    /\ fastq_ascii = IF qmin < 59 \/ qmax < 75 THEN 33 ELSE 64

\* Reads of the file that end in at least --fastq_tail copies of c.
TailReads(c) == Cardinality({j \in 1..Len(reads) : EndsIn(reads[j].qual, c, opt_fastq_tail)})

\* The report each destination shows, read off the file: the read count
\* and, for a non-empty file, one row per base in ascending order with its
\* count and run, and one row per quality symbol in ascending order with
\* the reads ending in a tail of it.  The quality loop of line 278 runs
\* over the char values qmin..qmax, so the rows depend on the summary's
\* first and last quality being right.
ReportMatchesReads ==
  pc = "done" =>
    \A d \in ReportDests :
      /\ ~Shown(d) => report[d] = <<>>
      /\ Shown(d) =>
           LET qs == SetToSortSeq(AllQuals, <)
               bs == SetToSortSeq({c \in Bases : CountInReads("seq", c) > 0}, <)
               rows(kind) == SelectSeq(report[d], LAMBDA l : l.kind = kind)
           IN /\ report[d][1] = Line("read", <<Len(reads)>>)
              /\ Len(reads) > 0 =>
                   /\ rows("qual") = [k \in 1..Len(qs) |-> Line("qual", <<qs[k], TailReads(qs[k])>>)]
                   /\ [k \in 1..Len(rows("letter")) |-> rows("letter")[k].vals[1]] = bs

\* The tail loop only reads inside the quality string of the read.
TailReadInBounds == pc = "tail" => qp >= 0


\* The "Qmin, Qmax, Range" line and the guess of lines 211-216 describe
\* quality symbols of the file: whenever a destination prints a range for
\* a file of reads, its ends are quality bytes that occur in the file.
\* The loops of lines 172-188 leave qmin = qmax = 0 when no quality byte
\* was seen, i.e. when every read is empty.
RangeOfFileQualities ==
  pc = "done" =>
    \A d \in ReportDests :
      \A l \in Range(SelectSeq(report[d], LAMBDA x : x.kind = "range")) :
        l.vals[1] \in AllQuals /\ l.vals[2] \in AllQuals

=============================================================================
