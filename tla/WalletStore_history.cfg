CONSTANTS
  Clients = {c1}
  c1 = c1
  BufferLines = 1
  MaxIds = 1
  MaxStarts = 3
  MaxKills = 0
  MaxFailures = 0
SPECIFICATION Spec
PROPERTY HistorySurvivesLoad
CHECK_DEADLOCK FALSE
