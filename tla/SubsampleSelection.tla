------------------------- MODULE SubsampleSelection -------------------------
(***************************************************************************)
(* What the selection loop of subsample() promises, with no loop at all:   *)
(* given the per-group weights and a sample size no larger than their      *)
(* total, one step picks a count for every group such that no group gives  *)
(* more than its weight and the counts add up to the sample size exactly   *)
(* (spec section 3, SelectionResult, and section 8).  Which of these       *)
(* results comes out is left open: the random draws decide it.             *)
(***************************************************************************)
EXTENDS Naturals, Functions

VARIABLES
  weight,    \* group index -> number of virtual units (reads) it owns
  size,      \* the requested sample size n
  result,    \* group index -> number of its units selected
  selected   \* TRUE once the result has been drawn

vars == <<weight, size, result, selected>>

\* Every result the selection may return for these weights and this size.
ValidResults ==
  { s \in [DOMAIN weight -> Nat] :
      /\ \A g \in DOMAIN weight : s[g] <= weight[g]
      /\ SumFunction(s) = size }

Init ==
  /\ ~selected
  /\ result = [g \in DOMAIN weight |-> 0]

Select ==
  /\ ~selected
  /\ size <= SumFunction(weight)
  /\ result' \in ValidResults
  /\ selected' = TRUE
  /\ UNCHANGED <<weight, size>>

Spec == Init /\ [][Select]_vars

=============================================================================
