\* A session competes with another client for a board that may lose its link and
\* restart, over an unreliable network.
SPECIFICATION Spec
CONSTANTS
  c1 = c1
  c2 = c2
  None = None
  Clients = {c1, c2}
  Session = c1
  Requested <- ShortLease
  MaxEpoch = 2
  SequenceMod = 1
  Burst = 1
  TokenPeriod = 1
  UsPerMs = 1
  Alphabet = 1
  MaxPayload = 1
  MinPeriod <- SmallPeriods
  MaxPeriod = 1
  MinLease = 3
  MaxLease = 3
  CounterMax = 0
  Timeout = 1
  Retry = 1
  RunTime = 2
  MaxControl = 3
  ForeignIds = {1}
  MaxBoot = 2
  MaxTime = 3
INVARIANTS HostLeaseHeld RejectionTruthful CleanupTruthful
