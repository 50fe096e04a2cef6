-------------------------------- MODULE Sums --------------------------------
(* The sum of a family of numbers.                                         *)
EXTENDS Integers, FiniteSets, FiniteSetsExt

Sum(f) == MapThenSumSet(LAMBDA x : f[x], DOMAIN f)
=============================================================================
