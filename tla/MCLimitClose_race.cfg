CONSTANTS
  Size = 2
  Other = 2
  MinOrder = 1
  MaxOrders = 2
  MaxCrashes = 0
  Sellers = {s1}
  Users = {u1}
  Monitor = monitor
  SupportsEdit = TRUE
  Events <- NoEvents
SPECIFICATION Spec
INVARIANT NoDuplicateSell
CHECK_DEADLOCK FALSE
