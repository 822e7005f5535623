\* Requests, expiry, samples and network loss race, under three sorts of traffic: what
\* survives the end of a run, what becomes of every slot, and what must happen under a flood.
SPECIFICATION MCSpec
CONSTANTS
  c1 = c1
  a1 = a1
  None = None
  Clients = {c1}
  MaxEpoch = 2
  SequenceMod = 4
  Burst = 1
  TokenPeriod = 9
  UsPerMs = 1
  Alphabet = 1
  MaxPayload = 0
  MinPeriod <- MinPeriods
  MaxPeriod = 4
  MinLease = 2
  MaxLease = 4
  CounterMax = 2
  MaxTime = 3
  Addresses = {a1}
  Datagrams <- AllTraffic
  RxCapacity = 2
  TxCapacity <- QueueLimits
INVARIANTS QueuesOfThisRun RequestsOfThisRun SlotsAccounted QueuedNewest
PROPERTIES BoardSpec RunEndsInFlood SamplesTakenInFlood
