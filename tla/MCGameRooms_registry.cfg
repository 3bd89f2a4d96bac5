SPECIFICATION Spec
CONSTANTS
  Users <- OneToTwo
  Rooms <- OneToTwo
  Games = {g1, g2}
  MaxPlayers = 2
  MaxInbox = 1
  MaxLosses = 1
  None = None
INVARIANTS RegistryInv RegisteredIsMember HostIsMember
CHECK_DEADLOCK FALSE
