\* A delay beyond four slots of fifteen seconds.
SPECIFICATION Spec
CONSTANTS
  Size = 4
  Interval = 15
  Delays = {0, 1, 14, 15, 29, 30, 45, 59, 60, 61, 200}
  MaxUpdates = 10
INVARIANTS TooLongGivesTheOldest
CHECK_DEADLOCK FALSE
