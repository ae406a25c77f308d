-------------------------------- MODULE Sums --------------------------------
(***************************************************************************)
(* The sum of the values of a function, as foldl and folds over the rows   *)
(* of a table compute it.                                                  *)
(***************************************************************************)
EXTENDS Integers, FiniteSetsExt

\* 0 for the empty function.
Total(f) == MapThenSumSet(LAMBDA x : f[x], DOMAIN f)
=============================================================================
