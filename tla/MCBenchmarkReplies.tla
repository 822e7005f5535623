--------------------------- MODULE MCBenchmarkReplies --------------------------
(***************************************************************************)
(* An instance of the benchmark service and its reply budget for TLC.      *)
(***************************************************************************)
EXTENDS BenchmarkReplies, TLC

CONSTANTS c1, c2

TwoClients == {c1, c2}
Symmetry == Permutations(TwoClients)

Config(status, health, lease) ==
  [payload |-> 1, seed |-> 1, lease |-> lease,
   period |-> [i \in Streams |-> IF i = 0 THEN status ELSE health]]

SmallPeriods == [i \in Streams |-> i + 1]
\* Both streams on, one of them disabled, one of them out of range.
SomeConfigurations == {Config(1, 2, 3), Config(2, 0, 2), Config(2, 5, 2)}
\* The pattern a probe has to carry under its identity, and an empty one.
SomePayloads == {Pattern(1, 1, 1), Pattern(0, 0, 0)}
=============================================================================
