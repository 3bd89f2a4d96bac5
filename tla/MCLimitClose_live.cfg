CONSTANTS
  Size = 2
  Other = 2
  MinOrder = 1
  MaxOrders = 4
  MaxCrashes = 1
  Sellers = {s1}
  Users = {}
  Monitor = monitor
  SupportsEdit = FALSE
  Events <- ExchangeSide
SPECIFICATION FairSpec
CHECK_DEADLOCK FALSE
INVARIANTS
  LiveOrderTracked
PROPERTIES
  ClosedIsFinal
  TerminalIsSettled
  FilledIsBooked
