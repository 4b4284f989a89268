SPECIFICATION FairSpec
CONSTANTS
  MaxCommands = 4
  MaxBotOrders = 2
  MaxHistory = 1
INVARIANTS TypeOK InStepUnlessSurprised BenchCountsSettled
PROPERTIES CommandReturns
CHECK_DEADLOCK FALSE
