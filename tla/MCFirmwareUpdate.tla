--------------------------- MODULE MCFirmwareUpdate ---------------------------
(***************************************************************************)
(* Instances of FirmwareUpdate for TLC.                                    *)
(***************************************************************************)
EXTENDS FirmwareUpdate

CONSTANTS factory, update, messaging, forged

AllImages == {factory, update, messaging, forged}
Released == {factory, update, messaging}
Lengths == [i \in Images |-> IF i = update THEN 2 ELSE 1]
\* Images of every kind; the rollback-test build carries the updater.
AllKinds ==
  [i \in Images |-> IF i = update THEN "rollback" ELSE IF i = messaging THEN "messaging" ELSE "managed"]
\* Images as released: every one confirms itself.
Releases == [i \in Images |-> IF i = messaging THEN "messaging" ELSE "managed"]
=============================================================================
