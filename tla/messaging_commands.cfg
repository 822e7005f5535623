\* The command task alone, with datagrams of every decision.
SPECIFICATION FairSpec
CONSTANTS
  CounterMax = 1
  leased = leased
  fallback = fallback
  None = None
  Publishers <- NoPublishers
  Period <- NoPeriods
  MaxLate = 1
  DrainLimit = 1
  Credit = 3
  Cost = 2
  SequenceMod = 2
  Datagrams <- Inbox
  Addresses = {leased}
  QueueLength = 2
PROPERTIES BudgetKept CommandsResume
