--------------------------- MODULE MCBenchmarkRun ---------------------------
(***************************************************************************)
(* Instances of BenchmarkRun: one run of two rows over two invocations     *)
(* that may overlap, and two runs of one row that share the pointers.      *)
(***************************************************************************)
EXTENDS BenchmarkRun, TLC

CONSTANTS p1, p2, k1, k2, clean, other, dirty

OneProc == {p1}
TwoProcs == {p1, p2}
OneKey == {k1}
TwoKeys == {k1, k2}
AllEnvs == {clean, other, dirty}
CleanEnvs == {clean, other}
DirtyEnvs == {clean, dirty}
OneClean == {clean}

Swaps == Permutations(TwoProcs)
=============================================================================
