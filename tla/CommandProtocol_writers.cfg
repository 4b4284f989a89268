SPECIFICATION Spec
CONSTANTS
  MaxCommands = 2
  MaxBotOrders = 0
  MaxHistory = 0
INVARIANTS OneWriter
CHECK_DEADLOCK FALSE
