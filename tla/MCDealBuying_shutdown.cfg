CONSTANTS
  Bots = {b1, b2}
  Pairs = {p1, p2}
  NoTask = none
  MaxDeals = 1
  Funds = 1
  Cost = 1
  MaxAttempts = 2
  MaxOrders = 2
  MaxCrashes = 0
  LimitBots = {b2}
  Requests = {r1, r2}
  Events <- GivingUpAndCancel
SPECIFICATION FairSpec
CHECK_DEADLOCK FALSE
INVARIANTS
  BarrierHolds
PROPERTIES
  TaskFinishes
  WaiterAnswered
