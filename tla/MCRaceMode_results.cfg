SPECIFICATION Spec
CONSTANTS
  Host = host
  Guest = guest
  RaceTypes <- AllTypes
  Scores <- TwoScores
  CountFrom = 1
  MaxDrops = 1
  MaxReports = 1
  None = None
SYMMETRY EitherPlayer
INVARIANTS BestScoreAgrees ResultIsEarned StartsTogether
CHECK_DEADLOCK FALSE
