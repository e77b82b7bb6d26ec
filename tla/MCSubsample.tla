----------------------------- MODULE MCSubsample -----------------------------
(***************************************************************************)
(* Model-checking instance of Subsample: up to three amplicons, and sample *)
(* sizes and percentages that reach n = 0, 0 < n < mass_total, n =        *)
(* mass_total and n > mass_total.                                          *)
(***************************************************************************)
EXTENDS Subsample

\* Every output alone, all four together, and none.
MCOutputConfigs ==
  {{}, {"fastaout"}, {"fastqout_discarded"},
   {"fastaout", "fastaout_discarded", "fastqout", "fastqout_discarded"}}

\* Loader abundances: the loader never yields 0 (see README).
MCWeights == 1..3

\* --sample_pct p/d.
Pct(p, d) == [num |-> p, den |-> d]

\* Percentages that truncate (50 of an odd total, 33.3) and the edges.
MCSamplePcts == {Pct(0, 1), Pct(333, 10), Pct(50, 1), Pct(100, 1)}

\* Percentages whose double product falls on the other side of an integer
\* with an 8-bit significand (49.9% of 2, 99.9% of 9, ...).
MCEdgePcts == {Pct(499, 10), Pct(999, 10)}

\* The whole file: the percentage that may not give more reads than there are.
MCFullPct == {Pct(100, 1)}

\* Abundances as the spec allows them: w_i >= 0.
MCSpecWeights == 0..2

=============================================================================
