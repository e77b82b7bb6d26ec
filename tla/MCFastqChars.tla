----------------------------- MODULE MCFastqChars -----------------------------
(***************************************************************************)
(* Model-checking instance of FastqChars: up to three reads of length 0 to *)
(* 3 over the bases A (65) and N (78) and the quality symbols '#' (35),    *)
(* 'I' (73) and 'h' (104), with runs, N bases, quality tails of every      *)
(* length up to 3, and files that guess phred+33 and phred+64.             *)
(***************************************************************************)
EXTENDS FastqChars

MCReadSet ==
  {[seq |-> <<>>,           qual |-> <<>>],
   [seq |-> <<65>>,         qual |-> <<73>>],
   [seq |-> <<65, 65, 78>>, qual |-> <<35, 73, 73>>],
   [seq |-> <<78, 78>>,     qual |-> <<35, 35>>],
   [seq |-> <<65, 78, 65>>, qual |-> <<73, 73, 73>>],
   [seq |-> <<78>>,         qual |-> <<104>>]}

=============================================================================
