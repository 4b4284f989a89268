\* One client and its bot: every interleaving of the three threads, the
\* client's commands and the server's stop.
SPECIFICATION FairSpec
CONSTANTS
  Prices = {1, 2}
  Period = 2
  SquareK = 1
  Funds = 2
  MaxQueue = 2
INVARIANTS TypeOK LongHoldsCrypto
PROPERTIES StoppedBotIsSilent JoinsReturn
CHECK_DEADLOCK FALSE
