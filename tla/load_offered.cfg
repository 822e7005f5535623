\* The offered rate of a trial held back by its window.
SPECIFICATION Spec
CONSTANTS
  Count = 3
  Window = 1
  Gap = 1
  Measurement = 3
  Drain = 2
  Timeout = 3
  Repeated = {}
  MaxTime = 6
  Preemption = FALSE
INVARIANTS OfferedIsSent
CHECK_DEADLOCK FALSE
