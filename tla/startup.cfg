\* From reset to confirmation, the messaging and the managed firmware.
SPECIFICATION FairSpec
CONSTANTS
  Tasks <- MCTasks
  Binding <- MCBinding
  Reporters <- MCReporters
  Withheld = FALSE
  Yields = 3
  Deadline = 3
INVARIANTS ConfirmedIsServing
PROPERTIES CheckpointDecides
CHECK_DEADLOCK FALSE
