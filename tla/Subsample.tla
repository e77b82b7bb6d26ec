------------------------------ MODULE Subsample ------------------------------
(***************************************************************************)
(* subsample() of src/src/subsample.cc, the --fastx_subsample command.     *)
(*                                                                         *)
(* One run of the function: open the configured outputs, read the         *)
(* database, compute the total mass and the sample size, draw the sample   *)
(* one virtual unit (read) at a time, then write every group's kept and    *)
(* discarded part, and close the outputs.  Each phase is one action per    *)
(* iteration of the code's loops; the random draw of random_ulong() is a   *)
(* nondeterministic choice over its range.  The inputs (options, database  *)
(* contents, which fopen fails) are chosen in Init and never change.       *)
(***************************************************************************)
EXTENDS Integers, Sequences, FiniteSets, Functions

CONSTANTS
  MaxGroups,     \* largest number of database entries (amplicons)
  Weights,       \* abundances a database entry may carry
  SampleSizes,   \* values of --sample_size (0: option not given)
  SamplePcts,    \* decimal values of --sample_pct, as [num, den] fractions
  OutputConfigs, \* sets of output options that may be given together
  DoubleBits,    \* significand width of a double (53 in the build)
  IntBits        \* width of an int (32 in the build)

ASSUME MaxGroups \in Nat /\ Weights \subseteq Nat /\ Weights # {}
ASSUME SampleSizes \subseteq Nat
ASSUME \A p \in SamplePcts : p.den > 0 /\ 0 <= p.num /\ p.num <= 100 * p.den
ASSUME DoubleBits \in Nat \ {0} /\ IntBits \in Nat \ {0}

\* The four output options, in the order the code opens them.
OpenOrder == <<"fastaout", "fastaout_discarded", "fastqout", "fastqout_discarded">>
Dests == {OpenOrder[j] : j \in 1..4}
KeptDests == {"fastaout", "fastqout"}
DiscardedDests == {"fastaout_discarded", "fastqout_discarded"}
FastqDests == {"fastqout", "fastqout_discarded"}

VARIABLES
  \* inputs: options and database, fixed for the run
  opt_sizein, opt_sample_size, opt_sample_pct, configured,
  db_is_fastq, dbsequencecount, db_abundance, open_fails,
  \* program state
  pc, error, files, out,
  n, x, a, r, m, mass, abundance,
  i, samples, discarded

inputs == <<opt_sizein, opt_sample_size, opt_sample_pct, configured,
            db_is_fastq, dbsequencecount, db_abundance, open_fails>>
vars == <<inputs, pc, error, files, out, n, x, a, r, m, mass, abundance,
          i, samples, discarded>>

Groups == 0..(dbsequencecount - 1)

\* opt_sizein ? db_getabundance(j) : 1, for an index inside the database.
EffWeight(j) == IF opt_sizein THEN db_abundance[j] ELSE 1
EffWeights == [j \in Groups |-> EffWeight(j)]

\* The values the code can obtain from opt_sizein ? db_getabundance(j) : 1.
\* Past the last entry the read is out of bounds and yields whatever the
\* memory holds: any value.
MassOf(j) ==
  IF ~opt_sizein THEN {1}
  ELSE IF j < dbsequencecount THEN {db_abundance[j]}
  ELSE Weights \cup {0}

\* mass_total: the group count, or the sum of the abundances.
MassTotal == IF opt_sizein THEN SumFunction(db_abundance) ELSE dbsequencecount

\* The value an int holds after an assignment of v: two's complement of
\* IntBits bits (the build wraps; the overflow is undefined in C++).
IntWrap(v) == LET h == 2^(IntBits - 1) IN ((v + h) % (2 * h)) - h

\* Scales u/v (u, v > 0) by powers of two into [2^(P-1), 2^P): returns
\* <<u', v', e>> with u/v = (u'/v') * 2^e.
RECURSIVE Normalise(_, _, _)
Normalise(u, v, e) ==
  IF u >= 2^DoubleBits * v THEN Normalise(u, 2 * v, e + 1)
  ELSE IF u < 2^(DoubleBits - 1) * v THEN Normalise(2 * u, v, e - 1)
  ELSE <<u, v, e>>

\* The double nearest to the non-negative fraction q (ties to even), as a
\* fraction with a power-of-two denominator: the rounding of every double
\* operation and of the conversion of a decimal option.
ToDouble(q) ==
  IF q.num = 0 THEN [num |-> 0, den |-> 1]
  ELSE LET nm == Normalise(q.num, q.den, 0)
           t == nm[1] \div nm[2]
           rem == nm[1] % nm[2]
           sig == IF 2 * rem > nm[2] \/ (2 * rem = nm[2] /\ t % 2 = 1) THEN t + 1 ELSE t
       IN IF nm[3] >= 0 THEN [num |-> sig * 2^nm[3], den |-> 1]
          ELSE [num |-> sig, den |-> 2^(-nm[3])]

\* Mutant of PctToCount: the quotient rounded to the nearest count.
PctToCountRounded(mt, p) ==
  LET pct == ToDouble(p)
      mtd == ToDouble([num |-> mt, den |-> 1])
      prod == ToDouble([num |-> mtd.num * pct.num, den |-> mtd.den * pct.den])
      q == ToDouble([num |-> prod.num, den |-> prod.den * 100])
  IN (2 * q.num + q.den) \div (2 * q.den)

\* Line 172: mass_total * opt_sample_pct / 100.0 in double arithmetic,
\* converted to uint64_t (truncation).  opt_sample_pct is the double
\* nearest the decimal given, mass_total the double nearest the count.
PctToCount(mt, p) ==
  LET pct == ToDouble(p)
      mtd == ToDouble([num |-> mt, den |-> 1])
      prod == ToDouble([num |-> mtd.num * pct.num, den |-> mtd.den * pct.den])
      q == ToDouble([num |-> prod.num, den |-> prod.den * 100])
  IN q.num \div q.den

\* The largest mass_total of the model.
MassBound == MaxGroups * (CHOOSE w \in Weights : \A v \in Weights : v <= w)

\* PctToCount for every mass and percentage of the model, computed once.
PctCount == [mt \in 0..MassBound, p \in SamplePcts |-> PctToCount(mt, p)]

\* n (lines 165-173): --sample_size if non-zero, else line 172.
SampleN ==
  IF opt_sample_size # 0 THEN opt_sample_size
  ELSE PctCount[MassTotal, opt_sample_pct]

\* Output records: the group written, the abundance annotated, the ordinal.
Record == [group : Nat, size : Int, ordinal : Int]

Fatal(e) == /\ pc' = "fatal"
            /\ error' = e

Init ==
  /\ opt_sizein \in BOOLEAN
  /\ opt_sample_size \in SampleSizes
  /\ opt_sample_pct \in SamplePcts
  /\ configured \in OutputConfigs
  /\ db_is_fastq \in BOOLEAN
  /\ dbsequencecount \in 0..MaxGroups
  /\ db_abundance \in [0..(dbsequencecount - 1) -> Weights]
  /\ open_fails \in SUBSET configured
  /\ pc = "open"
  /\ error = "none"
  /\ files = [d \in Dests |-> "none"]
  /\ out = [d \in Dests |-> <<>>]
  /\ n = 0 /\ x = 0 /\ a = 0 /\ r = 0 /\ m = 0 /\ mass = 0
  /\ abundance = [j \in 0..(dbsequencecount - 1) |-> 0]
  /\ i = 0 /\ samples = 0 /\ discarded = 0

(***************************************************************************)
(* Lines 83-117: fopen_output for each configured option in turn; the      *)
(* first failure is fatal and leaves the files opened before it open.      *)
(***************************************************************************)
OpenOutputs ==
  /\ pc = "open"
  /\ \/ /\ open_fails = {}
        /\ files' = [d \in Dests |-> IF d \in configured THEN "open" ELSE "none"]
        /\ pc' = "load"
        /\ UNCHANGED error
     \/ \E j \in 1..4 :
          /\ OpenOrder[j] \in open_fails
          /\ \A k \in 1..(j - 1) : OpenOrder[k] \notin open_fails
          /\ files' = [d \in Dests |->
                         IF d \in configured /\ \E k \in 1..(j - 1) : OpenOrder[k] = d
                         THEN "open" ELSE "none"]
          /\ Fatal("open_failed")
  /\ UNCHANGED <<inputs, out, n, x, a, r, m, mass, abundance, i, samples, discarded>>

\* Mutant of Load: the n > mass_total check dropped.
LoadNoSizeCheck ==
  /\ pc = "load"
  /\ IF configured \cap FastqDests # {} /\ ~db_is_fastq
     THEN Fatal("no_quality") /\ UNCHANGED <<n, x, a, r, m, mass, abundance>>
     ELSE /\ n' = SampleN
          /\ x' = n'
          /\ a' = 0 /\ r' = 0 /\ m' = 0
          /\ mass' \in MassOf(0)
          /\ abundance' = [j \in Groups |-> 0]
          /\ pc' = "select"
          /\ UNCHANGED error
  /\ UNCHANGED <<inputs, files, out, i, samples, discarded>>

(***************************************************************************)
(* Lines 119-186: db_read, the FASTQ-output-needs-FASTQ-input check,       *)
(* mass_total, n, the n > mass_total check, and the loop's initial state:  *)
(* the abundance vector zeroed and mass read for amplicon 0.               *)
(***************************************************************************)
Load ==
  /\ pc = "load"
  /\ IF configured \cap FastqDests # {} /\ ~db_is_fastq
     THEN Fatal("no_quality") /\ UNCHANGED <<n, x, a, r, m, mass, abundance>>
     ELSE IF SampleN > MassTotal
     THEN /\ Fatal("sample_too_large")
          /\ n' = SampleN
          /\ UNCHANGED <<x, a, r, m, mass, abundance>>
     ELSE /\ n' = SampleN
          /\ x' = n'
          /\ a' = 0 /\ r' = 0 /\ m' = 0
          /\ mass' \in MassOf(0)
          /\ abundance' = [j \in Groups |-> 0]
          /\ pc' = "select"
          /\ UNCHANGED error
  /\ UNCHANGED <<inputs, files, out, i, samples, discarded>>

\* Mutants of SelectStep, each a plausible slip in lines 190-211.
\* m not reset when the loop moves to the next amplicon.
SelectStepNoReset ==
  /\ pc = "select" /\ x > 0
  /\ \E random \in 0..(MassTotal - r - 1) :
       IF random < x THEN abundance' = [abundance EXCEPT ![a] = IntWrap(@ + 1)] /\ x' = x - 1
       ELSE UNCHANGED <<abundance, x>>
  /\ r' = r + 1
  /\ m' = m + 1
  /\ IF m + 1 >= mass THEN a' = a + 1 /\ mass' \in MassOf(a + 1)
     ELSE UNCHANGED <<a, mass>>
  /\ UNCHANGED <<inputs, pc, error, files, out, n, i, samples, discarded>>

\* random_ulong(mass_total - r + 1): the draw's bound one too large.
SelectStepWideDraw ==
  /\ pc = "select" /\ x > 0
  /\ \E random \in 0..(MassTotal - r) :
       IF random < x THEN abundance' = [abundance EXCEPT ![a] = IntWrap(@ + 1)] /\ x' = x - 1
       ELSE UNCHANGED <<abundance, x>>
  /\ r' = r + 1
  /\ IF m + 1 >= mass THEN a' = a + 1 /\ mass' \in MassOf(a + 1) /\ m' = 0
     ELSE m' = m + 1 /\ UNCHANGED <<a, mass>>
  /\ UNCHANGED <<inputs, pc, error, files, out, n, i, samples, discarded>>

\* random_ulong(mass_total - r - 1): the draw's bound one too small.
SelectStepNarrowDraw ==
  /\ pc = "select" /\ x > 0
  /\ \E random \in 0..(MassTotal - r - 2) :
       IF random < x THEN abundance' = [abundance EXCEPT ![a] = IntWrap(@ + 1)] /\ x' = x - 1
       ELSE UNCHANGED <<abundance, x>>
  /\ r' = r + 1
  /\ IF m + 1 >= mass THEN a' = a + 1 /\ mass' \in MassOf(a + 1) /\ m' = 0
     ELSE m' = m + 1 /\ UNCHANGED <<a, mass>>
  /\ UNCHANGED <<inputs, pc, error, files, out, n, i, samples, discarded>>

\* The selected read credited after the amplicon change (swapped order).
SelectStepLateCredit ==
  /\ pc = "select" /\ x > 0
  /\ r' = r + 1
  /\ IF m + 1 >= mass THEN a' = a + 1 /\ mass' \in MassOf(a + 1) /\ m' = 0
     ELSE m' = m + 1 /\ UNCHANGED <<a, mass>>
  /\ \E random \in 0..(MassTotal - r - 1) :
       IF random < x THEN abundance' = [abundance EXCEPT ![a'] = IntWrap(@ + 1)] /\ x' = x - 1
       ELSE UNCHANGED <<abundance, x>>
  /\ UNCHANGED <<inputs, pc, error, files, out, n, i, samples, discarded>>

(***************************************************************************)
(* Lines 190-211: one iteration of while (x > 0).  Unit r is selected when *)
(* the draw in [0, mass_total - r) falls below x; after mass units the     *)
(* loop moves to the next amplicon and reads its mass.                     *)
(***************************************************************************)
SelectStep ==
  /\ pc = "select"
  /\ x > 0
  /\ \E random \in 0..(MassTotal - r - 1) :
       IF random < x
       THEN /\ abundance' = [abundance EXCEPT ![a] = IntWrap(@ + 1)]
            /\ x' = x - 1
       ELSE UNCHANGED <<abundance, x>>
  /\ r' = r + 1
  /\ IF m + 1 >= mass
     THEN /\ a' = a + 1
          /\ mass' \in MassOf(a + 1)
          /\ m' = 0
     ELSE /\ m' = m + 1
          /\ UNCHANGED <<a, mass>>
  /\ UNCHANGED <<inputs, pc, error, files, out, n, i, samples, discarded>>

\* Lines 190, 212-216: the loop ends once x = 0; the output pass starts.
SelectDone ==
  /\ pc = "select"
  /\ x = 0
  /\ pc' = "write"
  /\ i' = 0 /\ samples' = 0 /\ discarded' = 0
  /\ UNCHANGED <<inputs, error, files, out, n, x, a, r, m, mass, abundance>>

\* Mutant of WriteGroup: the discarded part computed from the database
\* abundance whether or not --sizein was given.
WriteGroupRawAbundance ==
  /\ pc = "write"
  /\ i < dbsequencecount
  /\ LET ab_sub == abundance[i]
         ab_discarded == db_abundance[i] - ab_sub
         kept == [group |-> i, size |-> ab_sub, ordinal |-> IntWrap(samples + 1)]
         disc == [group |-> i, size |-> ab_discarded, ordinal |-> IntWrap(discarded + 1)]
     IN /\ samples' = IF ab_sub > 0 THEN IntWrap(samples + 1) ELSE samples
        /\ discarded' = IF ab_discarded > 0 THEN IntWrap(discarded + 1) ELSE discarded
        /\ out' = [d \in Dests |->
                     IF d \notin configured THEN out[d]
                     ELSE IF d \in KeptDests /\ ab_sub > 0 THEN Append(out[d], kept)
                     ELSE IF d \in DiscardedDests /\ ab_discarded > 0
                          THEN Append(out[d], disc)
                     ELSE out[d]]
  /\ i' = i + 1
  /\ UNCHANGED <<inputs, pc, error, files, n, x, a, r, m, mass, abundance>>

(***************************************************************************)
(* Lines 217-286: one iteration of the output loop.  The kept part goes,   *)
(* with the next kept ordinal, to the kept outputs that were given; the    *)
(* discarded part likewise to the discarded outputs.                       *)
(***************************************************************************)
WriteGroup ==
  /\ pc = "write"
  /\ i < dbsequencecount
  /\ LET ab_sub == abundance[i]
         ab_discarded == EffWeight(i) - ab_sub
         kept == [group |-> i, size |-> ab_sub, ordinal |-> IntWrap(samples + 1)]
         disc == [group |-> i, size |-> ab_discarded, ordinal |-> IntWrap(discarded + 1)]
     IN /\ samples' = IF ab_sub > 0 THEN IntWrap(samples + 1) ELSE samples
        /\ discarded' = IF ab_discarded > 0 THEN IntWrap(discarded + 1) ELSE discarded
        /\ out' = [d \in Dests |->
                     IF d \notin configured THEN out[d]
                     ELSE IF d \in KeptDests /\ ab_sub > 0 THEN Append(out[d], kept)
                     ELSE IF d \in DiscardedDests /\ ab_discarded > 0
                          THEN Append(out[d], disc)
                     ELSE out[d]]
  /\ i' = i + 1
  /\ UNCHANGED <<inputs, pc, error, files, n, x, a, r, m, mass, abundance>>

\* Lines 290-319: report, db_free, fclose of every output that was given.
Finish ==
  /\ pc = "write"
  /\ i = dbsequencecount
  /\ pc' = "done"
  /\ files' = [d \in Dests |-> IF d \in configured THEN "closed" ELSE "none"]
  /\ UNCHANGED <<inputs, error, out, n, x, a, r, m, mass, abundance,
                 i, samples, discarded>>

Next ==
  \/ OpenOutputs
  \/ Load
  \/ SelectStep
  \/ SelectDone
  \/ WriteGroup
  \/ Finish

\* A single thread runs the function to its end: every enabled step is
\* eventually taken.
Spec == Init /\ [][Next]_vars /\ WF_vars(Next)

-----------------------------------------------------------------------------
(***************************************************************************)
(* Properties.                                                             *)
(***************************************************************************)

TypeOK ==
  /\ pc \in {"open", "load", "select", "write", "done", "fatal"}
  /\ error \in {"none", "open_failed", "no_quality", "sample_too_large"}
  /\ files \in [Dests -> {"none", "open", "closed"}]
  /\ out \in [Dests -> Seq(Record)]
  /\ n \in Nat /\ x \in Nat /\ a \in 0..dbsequencecount /\ r \in 0..MassTotal /\ m \in Nat /\ mass \in Nat
  /\ abundance \in [Groups -> Nat]
  /\ i \in 0..dbsequencecount /\ samples \in Nat /\ discarded \in Nat

\* Units owned by the amplicons before amplicon j.
Prefix(j) == SumFunctionOnSet(EffWeights, 0..(j - 1))

\* While the loop still draws, the unit r it is about to examine is one of
\* amplicon a's own units: the counters a, m and r of the while loop
\* (lines 190-211) stay in step with the contiguous run of units each
\* amplicon owns (spec 4.2), across every group change the loop makes.
UnitOwnership ==
  (pc = "select" /\ x > 0) =>
    /\ a < dbsequencecount
    /\ r = Prefix(a) + m
    /\ m < EffWeight(a)

\* The draw random_ulong(mass_total - r) of line 192 always has room for
\* the x selections still owed: x <= mass_total - r holds throughout the
\* loop, so the draw's bound is never 0 while x > 0 (spec 4.2).
DrawBoundValid ==
  pc = "select" => x <= MassTotal - r

\* The whole selection loop, seen from outside, is the abstract selection
\* of SubsampleSelection: once it ends, every amplicon got at most its
\* weight and the counts add up to n exactly.
Sel == INSTANCE SubsampleSelection
         WITH weight   <- EffWeights,
              size     <- SampleN,
              result   <- IF pc \in {"write", "done"} THEN abundance
                          ELSE [j \in Groups |-> 0],
              selected <- pc \in {"write", "done"}

SelectionRefined == Sel!Spec

\* Sum of the abundances annotated in the records of output d.
SizesOf(d) == SumFunction([j \in DOMAIN out[d] |-> out[d][j].size])

\* When the run completes, every output given holds one record per
\* amplicon with a positive part, in database order, numbered 1, 2, ...,
\* and the kept outputs annotate n reads in total while the discarded
\* ones annotate the other mass_total - n (spec 4.3, 8).
OutputPartition ==
  pc = "done" =>
    \A d \in configured :
      /\ \A j \in DOMAIN out[d] :
           /\ out[d][j].ordinal = j
           /\ out[d][j].size > 0
           /\ j > 1 => out[d][j - 1].group < out[d][j].group
      /\ d \in KeptDests => SizesOf(d) = n
      /\ d \in DiscardedDests => SizesOf(d) = MassTotal - n

\* Every run ends, either after closing its outputs or with a fatal error.
Termination == <>(pc \in {"done", "fatal"})

\* The exact sample size of the spec (section 2): floor(M * pct / 100)
\* for the decimal percentage given.
SpecSampleN ==
  IF opt_sample_size # 0 THEN opt_sample_size
  ELSE (MassTotal * opt_sample_pct.num) \div (100 * opt_sample_pct.den)

\* A run that completes has selected exactly floor(M * pct / 100) reads
\* (spec 2 and 9), although line 172 computes n in double arithmetic; and
\* the n > mass_total refusal of line 175 is made only for a sample size
\* the spec finds too large, never for a percentage that rounding pushed
\* above mass_total.
SampleSizeIsFloor ==
  /\ pc = "done" => n = SpecSampleN /\ SumFunction(abundance) = n
  /\ error = "sample_too_large" => SpecSampleN > MassTotal

\* db_getabundance is only ever called with the index of a database entry.
AbundanceReadInBounds ==
  (opt_sizein /\ pc \in {"select", "write", "done"}) => a < dbsequencecount

\* A sample size larger than the population is refused before any output
\* file is created or truncated (spec 4.2: "before any mutation or I/O").
PreconditionBeforeIO ==
  error = "sample_too_large" => \A d \in Dests : files[d] = "none"

=============================================================================
