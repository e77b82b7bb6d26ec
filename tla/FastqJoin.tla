------------------------------ MODULE FastqJoin ------------------------------
(***************************************************************************)
(* fastq_join() of src/src/fastqjoin.cc, the --fastq_join command.         *)
(*                                                                         *)
(* Forward and reverse reads are read in lock step; each pair is written   *)
(* as the forward read, the padding gap, and the reverse complement of the *)
(* reverse read (qualities: forward, padding, reversed).  The two input    *)
(* files are sequences of records chosen in Init; a pair is one step.      *)
(***************************************************************************)
EXTENDS Integers, Sequences, SequencesExt

CONSTANTS
  ReadSet,        \* FASTQ records [header, seq, qual] an input may hold
  MaxReads,       \* most records in one input file
  PadOptions,     \* pairs <<--join_padgap, --join_padgapq>> to try
  OutputConfigs,  \* sets of output options given together
  Complement,     \* chrmap_complement_vector on the bases used
  IntBits         \* width of an int (32 in the build)

ASSUME MaxReads \in Nat /\ IntBits \in Nat \ {0}
ASSUME \A rd \in ReadSet : Len(rd.seq) = Len(rd.qual)

VARIABLES
  \* inputs, fixed for the run
  fwd, rev, reverse_given, configured, padgap, padgapq, open_fails,
  opt_quiet, opt_log,
  \* program state
  pc, error, fi, ri, total, fastqout, fastaout,
  stats       \* "pairs joined" counts written, per destination

inputs == <<fwd, rev, reverse_given, configured, padgap, padgapq, open_fails,
            opt_quiet, opt_log>>
vars == <<inputs, pc, error, fi, ri, total, fastqout, fastaout, stats>>

\* The statistics go to stderr unless --quiet, and to the --log file if given.
StatsDests == {"stderr", "log"}

\* Mutant of RevComp: the transform without the reverse iterators.
RevCompForward(s) == [j \in 1..Len(s) |-> Complement[s[j]]]

\* The reverse iterator transform of lines 203-207: complement of each
\* base of s, last base first.
RevComp(s) == [j \in 1..Len(s) |-> Complement[s[Len(s) + 1 - j]]]

\* Mutant of Joined: the forward sequence copied into the quality buffer.
JoinedSeqAsQual(f, rv) ==
  [header  |-> f.header,
   seq     |-> f.seq \o padgap \o RevComp(rv.seq),
   qual    |-> f.seq \o padgapq \o Reverse(rv.qual),
   ordinal |-> 0]

\* Lines 180-213: the joined sequence and quality of one pair.
Joined(f, rv) ==
  [header  |-> f.header,
   seq     |-> f.seq \o padgap \o RevComp(rv.seq),
   qual    |-> f.qual \o padgapq \o Reverse(rv.qual),
   ordinal |-> 0]

Fatal(e) == pc' = "fatal" /\ error' = e

\* static_cast<int> of a uint64_t (lines 226, 238): the low IntBits bits,
\* read as two's complement.
IntCast(v) == LET h == 2^(IntBits - 1) IN ((v + h) % (2 * h)) - h

Init ==
  /\ fwd \in BoundedSeq(ReadSet, MaxReads)
  /\ rev \in BoundedSeq(ReadSet, MaxReads)
  /\ reverse_given \in BOOLEAN
  /\ configured \in OutputConfigs
  /\ \E p \in PadOptions : padgap = p[1] /\ padgapq = p[2]
  /\ open_fails \in SUBSET configured
  /\ opt_quiet \in BOOLEAN /\ opt_log \in BOOLEAN
  /\ stats = [d \in StatsDests |-> <<>>]
  /\ pc = "start" /\ error = "none"
  /\ fi = 0 /\ ri = 0 /\ total = 0
  /\ fastqout = <<>> /\ fastaout = <<>>

\* check_parameters, lines 72-84: the first option error found, if any.
CheckParameters ==
  CASE ~reverse_given                 -> "no_reverse"
    [] configured = {}                -> "no_output"
    [] Len(padgap) # Len(padgapq)     -> "pad_length"
    [] OTHER                          -> "none"

\* join_fileopenw, lines 87-96: fopen_output of each output given, fatal
\* when one fails; open_fails are the outputs whose fopen returns NULL.
JoinFileOpenW == IF open_fails # {} THEN "open_failed" ELSE "none"

(***************************************************************************)
(* Lines 126-167: check_parameters, then the inputs and the outputs        *)
(* opened with join_fileopenw.                                             *)
(***************************************************************************)
Start ==
  /\ pc = "start"
  /\ IF CheckParameters # "none" THEN Fatal(CheckParameters)
     ELSE IF JoinFileOpenW # "none" THEN Fatal(JoinFileOpenW)
     ELSE pc' = "join" /\ UNCHANGED error
  /\ UNCHANGED <<inputs, fi, ri, total, fastqout, fastaout, stats>>

\* Mutant of JoinPair: the missing reverse record detected one read early.
JoinPairEarlyFatal ==
  /\ pc = "join"
  /\ fi < Len(fwd)
  /\ fi' = fi + 1
  /\ IF ri + 1 >= Len(rev)
     THEN Fatal("more_forward") /\ UNCHANGED <<ri, total, fastqout, fastaout>>
     ELSE LET rec == [Joined(fwd[fi + 1], rev[ri + 1]) EXCEPT !.ordinal = IntCast(total + 1)]
          IN /\ ri' = ri + 1
             /\ fastqout' = IF "fastqout" \in configured
                            THEN Append(fastqout, rec) ELSE fastqout
             /\ fastaout' = IF "fastaout" \in configured
                            THEN Append(fastaout, [rec EXCEPT !.qual = <<>>])
                            ELSE fastaout
             /\ total' = total + 1
             /\ UNCHANGED <<pc, error>>
  /\ UNCHANGED <<inputs, stats>>

(***************************************************************************)
(* Lines 173-249: one iteration of the main loop.  A forward record was    *)
(* read; without a reverse record the run is fatal, else the pair is       *)
(* joined and written to the outputs given.                                *)
(***************************************************************************)
JoinPair ==
  /\ pc = "join"
  /\ fi < Len(fwd)
  /\ fi' = fi + 1
  /\ IF ri = Len(rev)
     THEN Fatal("more_forward") /\ UNCHANGED <<ri, total, fastqout, fastaout>>
     ELSE LET rec == [Joined(fwd[fi + 1], rev[ri + 1]) EXCEPT !.ordinal = IntCast(total + 1)]
          IN /\ ri' = ri + 1
             /\ fastqout' = IF "fastqout" \in configured
                            THEN Append(fastqout, rec) ELSE fastqout
             /\ fastaout' = IF "fastaout" \in configured
                            THEN Append(fastaout, [rec EXCEPT !.qual = <<>>])
                            ELSE fastaout
             /\ total' = total + 1
             /\ UNCHANGED <<pc, error>>
  /\ UNCHANGED <<inputs, stats>>

\* Lines 99-123, 257-258: output_stats_message for stderr unless --quiet,
\* and for the log file if one is given; each prints total.
StatsWritten(d) == IF d = "stderr" THEN ~opt_quiet ELSE opt_log
ReportStats == stats' = [d \in StatsDests |->
                           IF StatsWritten(d) THEN Append(stats[d], total) ELSE stats[d]]

\* Mutant of Finish: the leftover-reverse check of line 253 dropped.
FinishNoLeftoverCheck ==
  /\ pc = "join"
  /\ fi = Len(fwd)
  /\ pc' = "done"
  /\ ReportStats
  /\ UNCHANGED <<inputs, error, fi, ri, total, fastqout, fastaout>>

(***************************************************************************)
(* Lines 251-275: the forward file is exhausted; a reverse record left     *)
(* over is fatal, else the statistics are reported and files closed.       *)
(***************************************************************************)
Finish ==
  /\ pc = "join"
  /\ fi = Len(fwd)
  /\ IF ri < Len(rev)
     THEN Fatal("more_reverse") /\ UNCHANGED <<ri, stats>>
     ELSE pc' = "done" /\ ReportStats /\ UNCHANGED <<ri, error>>
  /\ UNCHANGED <<inputs, fi, total, fastqout, fastaout>>

Next == Start \/ JoinPair \/ Finish

\* One thread runs the function to its end.
Spec == Init /\ [][Next]_vars /\ WF_vars(Next)

-----------------------------------------------------------------------------
(***************************************************************************)
(* Properties.                                                             *)
(***************************************************************************)

\* The quality symbols of the inputs and of the padding.
QualChars ==
  UNION {Range(rd.qual) : rd \in ReadSet} \cup UNION {Range(p[2]) : p \in PadOptions}

TypeOK ==
  /\ pc \in {"start", "join", "done", "fatal"}
  /\ error \in {"none", "no_reverse", "no_output", "pad_length", "open_failed",
                "more_forward", "more_reverse"}
  /\ fi \in 0..Len(fwd) /\ ri \in 0..Len(rev) /\ total \in 0..fi
  /\ fastqout \in Seq([header : {rd.header : rd \in ReadSet}, seq : Seq(STRING),
                      qual : Seq(QualChars), ordinal : Int])

\* Reference definitions, one element at a time.
RECURSIVE RevCompRef(_), ReverseRef(_)
RevCompRef(s) == IF s = <<>> THEN <<>> ELSE RevCompRef(Tail(s)) \o <<Complement[Head(s)]>>
ReverseRef(s) == IF s = <<>> THEN <<>> ELSE ReverseRef(Tail(s)) \o <<Head(s)>>

\* The j-th record of each output is the j-th forward read, the padding
\* and the reverse complement of the j-th reverse read (qualities
\* reversed), under the forward header and ordinal j: no pair is skipped,
\* repeated or mixed with another.
PairsJoinedInOrder ==
  /\ \A j \in DOMAIN fastqout :
       fastqout[j] = [header  |-> fwd[j].header,
                      seq     |-> fwd[j].seq \o padgap \o RevCompRef(rev[j].seq),
                      qual    |-> fwd[j].qual \o padgapq \o ReverseRef(rev[j].qual),
                      ordinal |-> j]
  /\ \A j \in DOMAIN fastaout :
       fastaout[j].seq = fwd[j].seq \o padgap \o RevCompRef(rev[j].seq)

\* A run that ends normally had as many reverse reads as forward reads and
\* wrote one record per pair to each output given.
CompletedRunPairedAll ==
  pc = "done" =>
    /\ Len(fwd) = Len(rev)
    /\ total = Len(fwd)
    /\ "fastqout" \in configured => Len(fastqout) = total
    /\ "fastaout" \in configured => Len(fastaout) = total

\* The contract of the command, with the pairs written (total) as the
\* pairs emitted and the fatal errors as its failures.
Contract == INSTANCE FastqJoinContract
  WITH usable  <- CheckParameters = "none" /\ JoinFileOpenW = "none",
       emitted <- total,
       status  <- CASE pc \in {"start", "join"} -> "running"
                    [] pc = "done"             -> "done"
                    [] pc = "fatal"            -> "failed"

\* fastq_join() implements the contract: pairs are written one at a time,
\* a normal end has joined every pair of two files of equal length, and a
\* fatal error comes either before any pair (options, fopen) or exactly
\* when one file runs out before the other (lines 175-178, 253-256), never
\* with a pair both files hold still unwritten; and every run ends.
ContractRefined == Contract!Spec

=============================================================================
