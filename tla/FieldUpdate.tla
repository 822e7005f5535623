----------------------------- MODULE FieldUpdate -----------------------------
(***************************************************************************)
(* What a field update promises to the owner of a board, without sectors,  *)
(* words and buffers: whenever the power fails, which image the next reset *)
(* brings up is decided by what runs, whether it is on trial, and the one  *)
(* image that was verified and activated.  Staging is atomic: an image is  *)
(* pending from one instant, and only after it was verified.               *)
(***************************************************************************)
CONSTANTS Images, Signed, None

VARIABLES
  power,      \* the board runs
  running,    \* the image it runs, or would run
  trial,      \* whether that image has yet to confirm itself
  fallback,   \* the image a trial would be undone with, or None
  verified,   \* the image that was verified and is about to be activated, or None
  pending     \* the image the next reset tries, as a set

vars == <<power, running, trial, fallback, verified, pending>>
images == <<running, trial, fallback>>

Init ==
  /\ ~power /\ running \in Signed /\ ~trial
  /\ fallback = None /\ verified = None /\ pending = {}

\* An image is verified only once the one that waited and the one that was replaced
\* are gone.
Verify ==
  /\ power /\ pending = {} /\ fallback = None
  /\ verified' \in Images
  /\ UNCHANGED <<power, images, pending>>

\* A reset tries the image if its signature is valid; power may fail right after.
Activate ==
  /\ power /\ verified # None
  /\ pending' = {verified} \cap Signed
  /\ verified' = None /\ power' \in BOOLEAN
  /\ UNCHANGED images

\* The image could not be activated.
Abandon ==
  /\ power /\ verified # None
  /\ verified' = None /\ power' \in BOOLEAN
  /\ UNCHANGED <<images, pending>>

\* The next upload takes the place of the image that was replaced, then of the one
\* that waits.
Discard ==
  /\ power /\ verified = None /\ power' \in BOOLEAN
  /\ \/ fallback' = None /\ UNCHANGED pending
     \/ pending' = {} /\ UNCHANGED fallback
  /\ UNCHANGED <<running, trial, verified>>

Confirm == power /\ trial /\ ~trial' /\ UNCHANGED <<power, running, fallback, verified, pending>>

PowerOff == power /\ ~power' /\ verified' = None /\ UNCHANGED <<images, pending>>

\* The image that is pending is tried; a trial that was not confirmed is undone;
\* otherwise the same image starts again.
Reset ==
  /\ ~power /\ power' /\ pending' = {}
  /\ \/ /\ running' \in pending /\ trial' /\ fallback' = running
     \/ /\ pending = {} /\ trial /\ fallback # None
        /\ running' = fallback /\ ~trial' /\ fallback' = running
     \/ /\ pending = {} /\ ~(trial /\ fallback # None)
        /\ UNCHANGED images
  /\ UNCHANGED verified

Next == Verify \/ Activate \/ Abandon \/ Discard \/ Confirm \/ PowerOff \/ Reset

Spec == Init /\ [][Next]_vars
=============================================================================
