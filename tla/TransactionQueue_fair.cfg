\* Two clients, one of them with a bot: three submitting threads, three orders,
\* every interleaving with registration, prices and stop, under fairness.
SPECIFICATION FairSpec
CONSTANTS
  c1 = c1
  c2 = c2
  Clients = {c1, c2}
  BotClients = {c1}
  Viewers = {}
  Quantities <- TenLots
  Prices <- OnePrice
  FeeDen = 10000
  InitialAccount <- TwoClients
  MaxRequests = 3
INVARIANTS TypeOK FifoOnce DrainedAtExit HistoryMatchesLog ResultsFollowLog
PROPERTIES Served StopReturns
CHECK_DEADLOCK FALSE
