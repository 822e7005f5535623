\* Two clients contend for the board with streams on; two runs exhaust the epochs, late
\* calls skip slots, sequences wrap, the bucket holds one token and the clock goes back.
SPECIFICATION RepliesSpec
CONSTANTS
  c1 = c1
  c2 = c2
  None = None
  Clients <- TwoClients
  MaxEpoch = 2
  SequenceMod = 2
  Burst = 1
  TokenPeriod = 2
  UsPerMs = 1
  Alphabet = 2
  MaxPayload = 2
  MinPeriod <- SmallPeriods
  MaxPeriod = 4
  MinLease = 2
  MaxLease = 6
  CounterMax = 1
  ClockTimes = {0, 1, 2, 3}
  Ids = {1, 2}
  Configurations <- SomeConfigurations
  Payloads <- SomePayloads
SYMMETRY Symmetry
INVARIANTS LeaseUnexpired OnlyOwnerActs StreamsFollowRun SlotsOnGrid RepliesWithinBudget EffectDespiteSuppression
PROPERTIES NewestSample RunSpec
