--------------------------- MODULE MCMetricControl ---------------------------
(* MetricControl on a small instance: which clients are interchangeable.   *)
EXTENDS MetricControl, TLC

Symmetry == Permutations(Procs) \cup Permutations(Clis)
=============================================================================
