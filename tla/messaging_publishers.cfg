\* One publication task next to an idle command task.
SPECIFICATION FairSpec
CONSTANTS
  CounterMax = 4
  leased = leased
  fallback = fallback
  None = None
  Publishers <- One
  Period <- Slow
  MaxLate = 7
  DrainLimit = 2
  Credit = 0
  Cost = 0
  SequenceMod = 4
  Datagrams <- NoDatagrams
  Addresses = {leased}
  QueueLength = 1
INVARIANTS SlotsOnGrid SlotsAccounted NoStalePacket FailuresShow
PROPERTIES SlotsTaken
