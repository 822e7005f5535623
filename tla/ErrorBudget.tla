------------------------------ MODULE ErrorBudget ------------------------------
(***************************************************************************)
(* What the limiter of error replies promises: a budget that grows by one  *)
(* unit with every unit of time, without losing fractions of a reply, up   *)
(* to Burst.  A reply costs Cost units; one is withheld only while the     *)
(* budget does not cover it.                                               *)
(***************************************************************************)
EXTENDS Naturals

CONSTANTS Burst, Cost

VARIABLES budget, decision

Decisions == {"none", "accept", "error", "ignore", "limited"}

Grown(b) == IF b < Burst THEN b + 1 ELSE Burst

Init == budget = Burst /\ decision = "none"

Pass == budget' = Grown(budget) /\ decision' = decision

Reply == budget >= Cost /\ budget' = budget - Cost /\ decision' = "error"

Withhold == budget < Cost /\ budget' = budget /\ decision' = "limited"

Other == budget' = budget /\ decision' \in {"none", "accept", "ignore"}

Spec == Init /\ [][Pass \/ Reply \/ Withhold \/ Other]_<<budget, decision>>
=============================================================================
