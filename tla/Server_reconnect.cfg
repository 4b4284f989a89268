SPECIFICATION Spec
CONSTANTS
  Clients = {alice}
  Connections = {c1, c2}
  None = None
  PoolSizes = {2}
PROPERTIES RefusedIsConnected
CHECK_DEADLOCK FALSE
