CONSTANTS
  Clients = {c1, c2}
  c1 = c1
  c2 = c2
  BufferLines = 1
  MaxIds = 3
  MaxStarts = 2
  MaxKills = 1
  MaxFailures = 1
SYMMETRY Symmetric
SPECIFICATION Spec
INVARIANT TypeOK
INVARIANT AcknowledgedIsSaved
INVARIANT HistoryIsBacked
INVARIANT HistoryIncreases
INVARIANT UsersHaveWallets
PROPERTY KilledCostsOneWallet
PROPERTY ImplementsBank
CHECK_DEADLOCK FALSE
