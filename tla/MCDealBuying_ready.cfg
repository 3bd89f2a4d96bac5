CONSTANTS
  Bots = {b1}
  Pairs = {p1}
  NoTask = none
  MaxDeals = 1
  Funds = 2
  Cost = 1
  MaxAttempts = 2
  MaxOrders = 2
  MaxCrashes = 0
  LimitBots = {}
  Requests = {r1}
  Events <- NoEvents
SPECIFICATION Spec
INVARIANTS
  ReadyIsRecorded
CHECK_DEADLOCK FALSE
