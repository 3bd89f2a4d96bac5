CONSTANTS
  Bots = {b1}
  Pairs = {p1, p2}
  NoTask = none
  MaxDeals = 1
  Funds = 1
  Cost = 1
  MaxAttempts = 2
  MaxOrders = 2
  MaxCrashes = 0
  LimitBots = {}
  Requests = {r1}
  Events <- GivingUpAndCancel
SPECIFICATION Spec
INVARIANTS
  NeverStale
CHECK_DEADLOCK FALSE
