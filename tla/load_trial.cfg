\* Three packets sent in a burst, two outstanding at a time, one of them answered twice.
SPECIFICATION FairSpec
CONSTANTS
  Count = 3
  Window = 2
  Gap = 0
  Measurement = 2
  Drain = 0
  Timeout = 1
  Repeated = {0}
  MaxTime = 3
  Preemption = TRUE
INVARIANTS WindowExact ExpiryExact CountsAgree
PROPERTIES TrialEnds
CHECK_DEADLOCK FALSE
