----------------------------- MODULE BenchmarkRun -----------------------------
(***************************************************************************)
(* What the benchmark service promises its clients about runs, without     *)
(* clocks, buckets or result codes: at most one client holds the board at  *)
(* a time; runs are numbered and a number is used once; the number after   *)
(* MaxEpoch never starts; and the deadline of a run moves only when its    *)
(* holder presents an identity larger than every one it used before.       *)
(***************************************************************************)
EXTENDS Integers

CONSTANTS Clients, MaxEpoch, None

VARIABLES
  run,       \* the number of the current or next run, MaxEpoch + 1 when spent
  holder,    \* the client that holds the board, or None
  last,      \* the largest control identity accepted in this run
  deadline   \* when the run ends unless renewed

vars == <<run, holder, last, deadline>>

Init == run = 1 /\ holder = None /\ last = 0 /\ deadline = 0

\* A client acquires the board; if a run was still held, it ends in the same step.
Grant ==
  /\ run' = (IF holder = None THEN run ELSE run + 1)
  /\ run' <= MaxEpoch
  /\ holder' \in Clients
  /\ last' \in Nat
  /\ deadline' \in Nat

Renew ==
  /\ holder # None
  /\ last' \in Nat
  /\ last' > last
  /\ deadline' \in Nat
  /\ UNCHANGED <<run, holder>>

\* The holder stops, its lease expires or the board loses its network.
Release ==
  /\ holder # None
  /\ run' = run + 1
  /\ holder' = None
  /\ last' = 0
  /\ deadline' = 0

Next == Grant \/ Renew \/ Release

Spec == Init /\ [][Next]_vars
=============================================================================
