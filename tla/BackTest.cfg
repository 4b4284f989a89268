\* Periods of three, four steps, two runs; every series of prices.
SPECIFICATION Spec
CONSTANTS
  Prices = {1, 4}
  NoisyPrices = {0, 1, 4}
  Period = 3
  SquareK = 1
  Steps = 4
  Runs = 2
  Balance = 4096
  FractionDen = 2
  ThresholdDen = 100
  MaxData = 8
INVARIANTS TypeOK ReadsTheSeries BotAgrees
CHECK_DEADLOCK FALSE
