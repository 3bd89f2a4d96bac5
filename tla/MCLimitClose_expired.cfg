CONSTANTS
  Size = 2
  Other = 2
  MinOrder = 1
  MaxOrders = 2
  MaxCrashes = 0
  Sellers = {s1}
  Users = {}
  Monitor = monitor
  SupportsEdit = TRUE
  Events <- ExchangeSide
SPECIFICATION Spec
INVARIANT OrderWithinRest
CHECK_DEADLOCK FALSE
