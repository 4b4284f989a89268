SPECIFICATION FairSpec
CONSTANTS
  Clients = {alice, bob}
  Connections = {c1, c2}
  None = None
  PoolSizes = {1, 2}
INVARIANTS TypeOK ServedIsRegistered NothingRunsAtExit
PROPERTIES ImplementsAdmission Answered StopReturns
CHECK_DEADLOCK FALSE
