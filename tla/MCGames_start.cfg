\* Speed: a table nobody can play on, and the flip that starts it does not look
CONSTANTS
  MaxWire = 1
  MaxLosses = 1
  TopRank = 5
  SpeedCopies = 2
  SpeedHand = 2
  SpeedDeals <- SpeedTables
  Deck <- ThreePairs
  WarDeals <- WarDecks
  MaxRounds = 4
  FishRanks <- ThreeRanks
  BookSize = 3
  FishHand = 2
  NumSeats = 3
  StartChips = 4
  Blinds <- TwoLevels
  Bonus = 3
  MaxBonuses = 1
  MaxHands = 2
SPECIFICATION Spec
INVARIANT SpeedNeverStuck
CHECK_DEADLOCK FALSE
