CONSTANTS
  Size = 2
  Other = 0
  MinOrder = 1
  MaxOrders = 3
  MaxCrashes = 0
  Sellers = {s1}
  Users = {}
  Monitor = monitor
  SupportsEdit = FALSE
  Events <- NoEvents
SPECIFICATION Spec
INVARIANT SettledInFull
CHECK_DEADLOCK FALSE
