CONSTANTS
  Size = 3
  Other = 1
  MinOrder = 1
  MaxOrders = 2
  MaxCrashes = 1
  Sellers = {s1}
  Users = {u1}
  Monitor = monitor
  SupportsEdit = FALSE
  Events <- AllEvents
SPECIFICATION Spec
CHECK_DEADLOCK FALSE
INVARIANTS
  TypeOK
  BookingInv
  OwnOrderSettled
PROPERTIES
  ImplementsLedger
