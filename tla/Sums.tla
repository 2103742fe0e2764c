-------------------------------- MODULE Sums --------------------------------
(* The sum of a function's values, from the community modules: what the rows
   of a ledger, or the scores of a study, add up to. *)
Folded == INSTANCE Functions

Sum(f) == Folded!SumFunction(f)
=============================================================================
