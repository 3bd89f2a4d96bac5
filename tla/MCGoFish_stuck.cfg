\* Is the player's turn one the player can take?
SPECIFICATION Spec
CONSTANTS
  Ranks <- MCRanks
  BookSize = 4
  HandSize = 2
  MaxIterations = 52
INVARIANT PlayerCanAsk
CHECK_DEADLOCK FALSE
