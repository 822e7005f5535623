-------------------------- MODULE MCBenchmarkSession --------------------------
(***************************************************************************)
(* Instances of BenchmarkSession for TLC.                                  *)
(***************************************************************************)
EXTENDS BenchmarkSession

CONSTANTS c1, c2

SmallPeriods == [i \in Streams |-> 1]
ShortLease == [payload |-> 0, seed |-> 0, lease |-> 3, period |-> [i \in Streams |-> 0]]
=============================================================================
