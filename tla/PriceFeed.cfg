\* Four slots, filled and overwritten more than twice.
SPECIFICATION Spec
CONSTANTS
  Size = 4
  Interval = 15
  Delays = {0, 1, 14, 15, 29, 30, 45, 59, 60, 61, 200}
  MaxUpdates = 10
INVARIANTS TypeOK RingIsRecentPast PreviousPriceIsPast HistoryHoldsWhatWasSeen
CHECK_DEADLOCK FALSE
