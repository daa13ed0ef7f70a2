--------------------------------- MODULE Sums ---------------------------------
(***************************************************************************)
(* The sum of the values of a function over a finite set, which the tables *)
(* of the analyses add sizes with.                                         *)
(***************************************************************************)
EXTENDS Integers, FiniteSetsExt

SumOver(f, S) == MapThenSumSet(LAMBDA x : f[x], S)

===============================================================================
