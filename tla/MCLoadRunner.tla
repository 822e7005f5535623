------------------------------ MODULE MCLoadRunner ------------------------------
(* A load trial for TLC; the configurations choose the schedule and the window. *)
EXTENDS LoadRunner

\* One packet more than the window holds at once, so that the sender has to wait.
ASSUME Count > Window
=============================================================================
