\* The games of two players and the poker table
CONSTANTS
  MaxWire = 1
  MaxLosses = 1
  TopRank = 5
  SpeedCopies = 2
  SpeedHand = 2
  SpeedDeals <- SpeedTables
  Deck <- ThreePairs
  WarDeals <- WarDecks
  MaxRounds = 4
  FishRanks <- ThreeRanks
  BookSize = 3
  FishHand = 2
  NumSeats = 3
  StartChips = 4
  Blinds <- TwoLevels
  Bonus = 3
  MaxBonuses = 1
  MaxHands = 2
SPECIFICATION Spec
INVARIANTS NothingLost MemoryTableAgrees TurnCanBeTaken PagesInSync
PROPERTIES PlayPassesOn WarCardsKept TttPlaysOneGame GamesEnd
CHECK_DEADLOCK FALSE
