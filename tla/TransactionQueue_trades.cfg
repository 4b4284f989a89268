\* One client with a bot that places three orders, looking at its wallet meanwhile.
SPECIFICATION Spec
CONSTANTS
  c1 = c1
  c2 = c2
  Clients = {c1}
  BotClients = {c1}
  Viewers = {c1}
  Quantities <- SomeLots
  Prices <- TwoPrices
  FeeDen = 10000
  InitialAccount <- OneClient
  MaxRequests = 3
INVARIANTS NoOverdraft BooksBalance FileTellsThePast EachFigureIsReal
PROPERTIES ImplementsLedger
CHECK_DEADLOCK FALSE
