CONSTANTS
  Bots = {b1}
  Pairs = {p1, p2}
  NoTask = none
  MaxDeals = 2
  Funds = 4
  Cost = 2
  MaxAttempts = 3
  MaxOrders = 3
  MaxCrashes = 1
  LimitBots = {}
  Requests = {}
  Events <- AllButCancel
SPECIFICATION Spec
CHECK_DEADLOCK FALSE
INVARIANTS
  TypeOK
  OneDealPerPair
  TradesAreComplete
  NoEmptyDeal
PROPERTIES
  ImplementsLedger
