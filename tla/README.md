# TLA+ models of vsearch's subsampling, read joining and FASTQ statistics

This directory holds TLA+ models of the three source files under `src/src/`,
the TLC configurations that check them, and `PROJECT.json`, which maps every
modelled definition to the lines it translates and lists the runs, mutants,
findings and hazards.

## 1. Inventory

The repository's `src/` holds three independent commands of vsearch. Each runs
on a single thread, synchronously, from start to end. They share no state with
each other. Every one of them talks to external collaborators that are not in
`src/`: the FASTA/FASTQ parser and writer, the sequence database `db_*`, the
random number generator `random_ulong`, and progress and log output.

### subsample.cc: `subsample()` (`--fastx_subsample`)

This is the core and the subject of `spec.md`.

| part (spec name) | state | operations |
|---|---|---|
| output setup | four `FILE*` for `fastaout`, `fastaout_discarded`, `fastqout`, `fastqout_discarded` | open each given output in that order. A failure is fatal (lines 83-117) |
| MassAccumulator | `mass_total` | `db_read`. Fatal if FASTQ output is asked of FASTA input (122). Sum the abundances, or count the entries without `--sizein` (135-147) |
| sample size | `n` | `--sample_size`, or else `mass_total * pct / 100.0` truncated (165-173). Fatal if `n > mass_total` (175) |
| Selector | `x` (reads left), `a` (amplicon), `r` (unit examined), `m` (units used in `a`), `mass` (abundance of `a`), `abundance[]` | `while (x > 0)`: draw `random_ulong(mass_total - r)`. Select when the draw is below `x`. Move to the next amplicon after `mass` units (190-211) |
| Partitioner | `samples`, `discarded` (ordinals), output records | per amplicon, write the kept part and the discarded part when positive (217-286). Close the outputs (290-319) |

How they interact: the phases run one after the other in a single function,
and the loop-local variables are the only shared state. The data that drives a
run is fixed before it starts: the options, the database contents, which
`fopen` fails, and the random draws. `db_getabundance` is read both in the loop
(lines 186 and 207) and in the output pass (line 220).

What is hard here:
- off-by-one and zero edges in the loop: an amplicon of abundance 0, the last
  unit of the last amplicon, and the draw bound `mass_total - r`;
- the order of the error checks compared with the I/O;
- the integer widths: `int` counts, and a `double` used for the percentage.

Correctness: each amplicon gets at most its abundance and the counts add up
to `n`. The loop counters stay in step with the units each amplicon owns. The
draw is never from an empty range. The outputs partition the population. The
function ends.

### fastqjoin.cc: `fastq_join()` (`--fastq_join`)

State: the forward and reverse input handles, two optional outputs, and
`total`.

Operations:
- `check_parameters` (72-84): the reverse file and an output must be given,
  and the padding strings must have the same length;
- open the outputs (87-96, 151-158);
- the lock-step loop (173-249): each pair is written as the forward read, the
  padding, and the reverse complement of the reverse read. The qualities are
  the forward qualities, the padding qualities, and the reversed reverse
  qualities;
- the end check for reverse reads left over (253);
- the statistics messages (99-123).

What is hard: unequal input lengths are found late, after output was written.
The buffer is sized from the padding sequence length but also receives the
padding quality string. The reverse iterators can be off by one.

Correctness: output j is the join of pair j. Every record has as many quality
symbols as bases. A normal end means the inputs had equal length and all pairs
were written.

### fastq_chars.cc: `fastq_chars()` (`--fastq_chars`)

State: per-byte counters `sequence_chars`, `quality_chars`, `tail_chars`,
`maxrun`; `qmin_n`/`qmax_n` for `N` bases; `seq_count`, `total_chars`.

Operations:
- the per-read scan (94-163), with its run tracking and the backwards quality
  tail loop (143-160);
- the first and last non-zero quality (171-189);
- the offset guess (195-205);
- the report (207-375), written the same way to stderr (unless `--quiet`)
  and to the log: the read count, the quality range, the guessed options
  and format, a row per base, and a row per quality symbol from `qmin` to
  `qmax`.

What is hard: the tail loop reads backwards, and the first comparison happens
before the length test. `qmin` and `qmax` are signed `char`. `maxrun` counts
repeats after the first character of a run.

Correctness: the counters agree with reference definitions over the reads. The
tail loop stays inside the quality string. The guess follows the table at lines
195-244.

## 2. Modules

| module | models | state / actions |
|---|---|---|
| `Subsample.tla` | `subsample()` | Variables: inputs chosen in `Init` (`opt_sizein`, `opt_sample_size`, `opt_sample_pct`, `configured`, `db_is_fastq`, `dbsequencecount`, `db_abundance`, `open_fails`) and the code's locals under their own names (`n`, `x`, `a`, `r`, `m`, `mass`, `abundance`, `samples`, `discarded`). Constants `DoubleBits` and `IntBits` give the machine widths. Actions: `OpenOutputs` (83-117), `Load` (119-186), `SelectStep` (one loop iteration, 190-211), `SelectDone` (212-216), `WriteGroup` (one output iteration, 217-286), `Finish` (287-319) |
| `SubsampleSelection.tla` | the contract of the selection (spec 3, 4.2) | `Select` picks any `s` with `s[g] <= weight[g]` and `Sum(s) = size` |
| `MCSubsample.tla` | model values for `Subsample` | output sets, loader weights 1..3, the spec's weights 0..2 |
| `FastqJoin.tla` | `fastq_join()` | Variables: the inputs `fwd`, `rev` (sequences of records), options and `open_fails`, plus `fi`, `ri`, `total`, the two outputs and `stats` (the pair counts printed, per destination). Actions: `Start` (`CheckParameters` and `JoinFileOpenW`), `JoinPair` (one loop iteration), `Finish` (end check, `ReportStats` for the statistics messages of lines 99-123, close) |
| `FastqJoinContract.tla` | the contract of `--fastq_join` | Variables `fwd`, `rev`, `usable`, `emitted`, `status`. `Emit` the next pair in file order, `Complete` once every pair of two equal-length files is out, `Fail` only before any pair when the options or outputs are unusable, or once every common pair is out when the lengths differ |
| `MCFastqJoin.tla` | model values for `FastqJoin` | three reads of lengths 0 to 2, three padding choices, and the complement table |
| `FastqChars.tla` | `fastq_chars()` | Variables: the reads, `--fastq_tail`, `--quiet` and `--log` chosen in `Init`, `report` (the lines written per destination), the counters and the loop locals under the code's names (`qp` is the offset of `q` in the quality string). Actions: `NextRead` (94-106), `ScanChar` (one character, 107-141), `ScanEnd` (the tail setup, 143-147), `TailStep` (one backward comparison, 148-160), `Summary` (164-205), `Report` (207-375: `ReportLines` built from `Format`, `LetterRows` and `QualRows`; a line is its kind and the numbers it prints) |
| `MCFastqChars.tla` | model values for `FastqChars` | six reads of length 0 to 3 over `A`, `N` and qualities `#`, `I`, `h` |

How the code is abstracted:
- `random_ulong(k)` is `\E random \in 0..k-1`.
- An out-of-range `db_getabundance` read returns any value (`MassOf`).
- A `fatal()` ends the run in state `pc = "fatal"` and records the error.
- A `double` is a fraction with a power-of-two denominator and a
  `DoubleBits`-bit significand (`ToDouble` rounds to nearest, ties to even).
  Line 172 is `PctToCount`: the decimal `--sample_pct` and `mass_total` are
  rounded, then the product, then the quotient, and the result is truncated. `PctCount`
  tabulates it once over the model's masses, because TLC's fairness check
  re-evaluates the recursion very slowly when it is inlined in `Load`.
- An `int` is the low `IntBits` bits in two's complement (`IntWrap`,
  `IntCast`). This covers the `abundance` vector, `samples` and `discarded` of
  `subsample()`, and the ordinal cast of `fastq_join()`. Signed overflow is
  undefined, and the build wraps.
- Records carry only the group or header, the sequence and quality, the
  abundance and the ordinal. The formatting is left out.

## 3. Runs

| run | cfg | result | shows |
|---|---|---|---|
| `subsample` | `MCSubsample.cfg` | pass, 427,486 states | `TypeOK`, `UnitOwnership`, `DrawBoundValid`, `OutputPartition`, `SampleSizeIsFloor` (n is floor(M * pct / 100) for the percentages of the run, and a refusal at line 175 only for a sample the spec finds too large), the refinement `SelectionRefined` and `Termination` hold for every option combination and every sequence of draws |
| `subsample_zero_weight` | `MCSubsampleZeroWeight.cfg` | violation | an abundance-0 amplicon is credited a read (e.g. weights 0,2 and `n = 1` give `s = 1,0`; TLC may print another trace of the same kind, such as weights 0,0,2 giving `s = 1,0,0`) |
| `subsample_read_bounds` | `MCSubsampleReadBounds.cfg` | violation | `db_getabundance(dbsequencecount)` is called: for an empty database at line 186, and after the last amplicon at line 207 |
| `subsample_precondition_io` | `MCSubsamplePrecondition.cfg` | violation | outputs are truncated before `n > mass_total` is refused |
| `subsample_double_pct` | `MCSubsampleDouble.cfg` | violation | with an 8-bit significand, 99.9% of 1 read gives `n = 1`, not floor(0.999) = 0 |
| `subsample_double_mass` | `MCSubsampleDoubleMass.cfg` | violation | with a 2-bit significand, 7 reads convert to 8.0, so `--sample_pct 100` gives `n = 8` and line 175 refuses the run |
| `subsample_int_width` | `MCSubsampleIntWidth.cfg` | violation | with a 2-bit `int`, the second read of an amplicon wraps `abundance` to -2, so the kept record is lost |
| `fastq_join` | `MCFastqJoin.cfg` | pass, 619,936 states | `TypeOK`, `PairsJoinedInOrder`, `CompletedRunPairedAll` and the refinement `ContractRefined` (`total` is the pairs emitted, `pc` the status, `fatal` a failure; the contract's fairness makes every run end) hold |
| `fastq_join_ordinal_width` | `MCFastqJoinOrdinal.cfg` | violation | with a 2-bit `int`, the second pair gets ordinal -2 |
| `fastq_chars` | `MCFastqChars.cfg` | pass, 50,764 states | `TypeOK`, `CharCountsMatch`, `MaxRunMatches` (one less than the longest run inside one read), `TailCountsMatch`, `QualityRangesMatch` and `ReportMatchesReads` (the report lists every base and quality symbol of the file in order, with its tail count) hold against RECURSIVE and fold reference definitions |
| `fastq_chars_tail_bounds` | `MCFastqCharsTailBounds.cfg` | violation | with `--fastq_tail 1` a read of length 1 makes the tail loop read before the quality string |
| `fastq_chars_empty_quality` | `MCFastqCharsEmptyQuality.cfg` | violation | `RangeOfFileQualities`: one empty read is reported as `Qmin 0, Qmax 0, Range 1`, guessed `-fastq_qmin -33 -fastq_qmax -33 -fastq_ascii 33`, Sanger format |

Each property of a passing run has a mutant in `PROJECT.json`. A mutant is a
one-line slip in the code's definition, and TLC finds the property violated
under it:

| property | mutant |
|---|---|
| `TypeOK` | a draw bound one too wide |
| `UnitOwnership` | a missing `m = 0` |
| `DrawBoundValid` | a dropped `n > mass_total` check |
| `OutputPartition` | the discarded part computed without `opt_sizein` |
| `SelectionRefined` | the read credited after the amplicon change |
| `Termination` | a draw bound one too narrow |
| `SampleSizeIsFloor` | the quotient of line 172 rounded to nearest instead of truncated |
| `TypeOK` of `FastqJoin` | the sequence copied into the quality buffer |
| `PairsJoinedInOrder` | a forward instead of a reverse transform |
| `CompletedRunPairedAll` | the leftover-reverse check dropped |
| `TypeOK` of `FastqChars` | `seq_count++` forgotten |
| `CharCountsMatch` | the quality counter indexed by the base |
| `MaxRunMatches` | the run not reset at a new read |
| `TailCountsMatch` | a tail counted only when longer than `--fastq_tail` |
| `QualityRangesMatch` | `qmax` found by the upward scan of `qmin` |
| `ReportMatchesReads` | the quality table's loop stopping before `qmax` |
| `ContractRefined` | the missing reverse read detected one read early (`ri + 1 >= Len(rev)`) |

### Bounds

`Subsample` runs with:
- up to 3 amplicons of abundance 1..3, so up to 9 units;
- `--sample_size` in {0, 1, 3, 5}, so that `n = 0`, `n < mass_total`,
  `n = mass_total` and `n > mass_total` all occur;
- `--sample_pct` in {0, 50, 100}, so that truncation happens (odd totals at
  50%);
- outputs: none, one kept, one discarded, or all four.

- `--sample_pct` values are fractions (`Pct(333, 10)` is 33.3%);
- `DoubleBits = 12` and `IntBits = 8` in the passing run. For these masses
  and percentages the 12-bit computation rounds the way the 53-bit one does,
  and no count exceeds an 8-bit `int`. The violation runs shrink one width at
  a time, to 8 bits and to 2 bits, so that the overflow or rounding case
  happens within the bounds. The real widths are out of TLC's integer range,
  and the cases need billions of reads.

These sizes reach every branch of the loop: a selected unit, a skipped unit,
an amplicon change with and without a selection, and the forced selection when
`x = mass_total - r`.

`FastqJoin` runs with:
- up to 3 reads per file, so equal, longer and shorter forward files, empty
  files, and a surplus of one or of two reads on either side all occur;
- reads of length 0, 1 and 2, so that the reversal is visible.

`FastqChars` runs with up to 3 reads out of six (empty, length 1, and length
2 and 3 with runs and quality tails, and one with quality `h`, so that both
offsets are guessed) and `--fastq_tail` in 1..3. Tails shorter,
equal to and longer than the option occur, as do a run that would continue
across two reads and `N` bases with different qualities. A read before the
quality string returns any byte (`QualAt`), since its value is undefined.

### Fairness

Each module has `WF_vars(Next)`. Each function is one thread that is never
blocked: in the code, a step that can be taken is taken. `CHECK_DEADLOCK FALSE`
is set because the function returns, in `pc = "done"` or `pc = "fatal"`.
`Termination` of `Subsample` checks that no other state is final; for
`FastqJoin` the fairness of `FastqJoinContract`, checked through
`ContractRefined`, says the same.

## 4. Findings

- **Zero abundance (spec/code divergence, subsample.cc:203).** Spec section 3
  allows `w_i >= 0` and requires `s_i <= w_i`. The loop increments `m` before
  the `m >= mass` test, so an amplicon of abundance 0 still consumes one unit
  and can be selected. Every later amplicon is then shifted by one unit. The
  code is correct only under the loader's guarantee that abundances are at
  least 1. The passing run assumes that guarantee (`MCWeights == 1..3`).
- **Read one past the database (code bug, subsample.cc:207 and 186).** This
  happens with `--sizein`. The loop reads `db_getabundance(a)` after advancing
  past the last amplicon, and line 186 reads entry 0 of an empty database. The
  value is not used afterwards.
- **Outputs truncated before the precondition (spec/code divergence,
  subsample.cc:175).** The spec says `n > M` fails before any I/O, but the
  outputs are opened at lines 83-117.
- **Percentage rounding (spec/code divergence, subsample.cc:172).** Spec
  sections 2 and 9 ask for `n = floor(M * pct / 100)`. The code computes it in
  `double`, so `n` can land on the wrong side of an integer. The run shows
  this with 8 bits. With IEEE doubles, 18.4% of 375 reads gives 68 instead of
  69; that value was computed by evaluating the same expression in IEEE
  arithmetic.
- **Full percentage refused (spec/code divergence, subsample.cc:172/175).**
  `mass_total` itself is converted to `double`. Above 2^53 reads it can round
  up, and `--sample_pct 100` then gives `n = mass_total + 1`, which line 175
  refuses as too large. In IEEE doubles, 2^53 + 3 reads give `n = 2^53 + 4`;
  the run shows the same with 2 bits (7 reads, `n = 8`).
- **`int` abundance counts (code bug, subsample.cc:162/197).** An amplicon
  with more than 2^31 - 1 selected reads overflows `abundance[a]`. Its kept
  record is then dropped and its discarded part is too large.
- **Ordinal cast (code bug, fastqjoin.cc:226).** `static_cast<int>(total + 1)`
  turns negative after 2^31 - 1 pairs.
- **Tail loop reads before the read (code bug, fastq_chars.cc:148).** The
  comparison `*q-- == tail_char` runs before the `tail_len >= opt_fastq_tail`
  test. With `--fastq_tail 1` and a read of length 1 it reads the byte before
  the quality string. The count is right whatever that byte is, so only the
  read is wrong.
- **Quality range of a file without quality bytes (code bug,
  fastq_chars.cc:168-216).** `qmin` and `qmax` start at 0 and the first and
  last non-null searches leave them there when every read is empty. The
  report then prints `Qmin 0, Qmax 0, Range 1` and guesses
  `-fastq_qmin -33 -fastq_qmax -33 -fastq_ascii 33`, Original Sanger format,
  for a file that has no quality data.

## 5. Not modelled

- Probabilities: uniform subsets and hypergeometric counts are statistical
  claims, out of TLC's reach. The model only checks that the outcomes are
  exactly the valid ones (`SelectionRefined`), not that they are equally likely.
- Widths at their real size (53-bit significand, 32-bit `int`). They are
  checked at reduced widths; see Bounds.
- Signed `char` bytes above 127 in `fastq_chars()` (lines 109 and 176). The
  FASTQ parser outside `src/` decides whether such bytes reach the code, so
  the model's inputs stay in the printable range.
- Opening the input files, parsing, progress output, and the layout of the
  printed lines: the percentages of the `fastq_chars()` report, widths and
  wording. What each line reports is modelled.
- `FastqChars` has no termination property: every loop is bounded by the
  read length or by `--fastq_tail`, so no slip in the code's definitions makes
  it run forever in a finite model.

## 6. Plan

1. Done: `Subsample` and `SubsampleSelection`, the core of the spec, with
   refinement, loop invariants, output partition and termination.
2. Done: `FastqJoin`.
3. Done: `FastqChars`: the counters against reference definitions, and the
   tail loop's out-of-bounds read.
4. Done: the numeric hazards. The `double` percentage and the `int` counters
   of `Subsample`, and the ordinal cast of `FastqJoin`, are modelled at
   parameterised widths.
5. Done: the report of `fastq_chars()`, with a property that ties it to the
   file, and the statistics messages of `fastq_join()` (modelled in `Finish`;
   no property checks them, since where they go follows from `Finish`'s branch
   and `StatsWritten` alone).
6. Done: `FastqJoin` with three reads per file, and the abstract
   `FastqJoinContract` it refines; the report of files whose reads are all
   empty (`fastq_chars_empty_quality`).

Everything in `src/` that changes state is now an action of a module. What
remains is listed under Not modelled: the real machine widths, bytes above 127,
probabilities, and the collaborators outside `src/`.
