---------------------------- MODULE BenchmarkBoard ----------------------------
(***************************************************************************)
(* What the board promises about runs when the service is composed with    *)
(* the sockets and the network it is reached through: as BenchmarkRun, and *)
(* nothing is granted or renewed while the board is off the network.  A    *)
(* run may be over as soon as it begins, before its client hears of it.    *)
(***************************************************************************)
EXTENDS BenchmarkRun

VARIABLE online   \* the board has a link and an address

\* A run is granted and ends in the same step; its number is used.
Abort ==
  /\ run' = (IF holder = None THEN run ELSE run + 1) + 1
  /\ run' <= MaxEpoch + 1
  /\ holder' = None /\ last' = 0 /\ deadline' = 0

\* The network comes and goes; a run that is held lasts until it is released.
NetworkChange == online' # online /\ UNCHANGED vars

BoardNext ==
  \/ online /\ (Grant \/ Renew \/ Abort) /\ UNCHANGED online
  \/ Release /\ UNCHANGED online
  \/ NetworkChange

BoardSpec == Init /\ [][BoardNext]_<<vars, online>>
=============================================================================
