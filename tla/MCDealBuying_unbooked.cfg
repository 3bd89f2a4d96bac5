CONSTANTS
  Bots = {b1}
  Pairs = {p1}
  NoTask = none
  MaxDeals = 1
  Funds = 2
  Cost = 1
  MaxAttempts = 2
  MaxOrders = 2
  MaxCrashes = 0
  LimitBots = {}
  Requests = {}
  Events <- GivingUp
SPECIFICATION Spec
INVARIANTS
  SettledIsCorrected
CHECK_DEADLOCK FALSE
