-------------------------------- MODULE MCStartup --------------------------------
(* The tasks of the messaging firmware, its benchmark service left out, and of the *)
(* managed firmware. *)
EXTENDS Startup

MCTasks ==
  [messaging |-> {"net", "supervise", "commands", "status", "health"},
   managed |-> {"net", "supervise", "echo"}]
MCBinding == [messaging |-> {"commands", "status", "health"}, managed |-> {}]
MCReporters == [messaging |-> {"net", "commands", "status", "health"}, managed |-> {}]
=============================================================================
