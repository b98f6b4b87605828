CONSTANTS
  Owners <- Team
  Deals <- Deals1v1
  PointsToWin = 12
  InitialScores <- FarScores
SPECIFICATION Spec
INVARIANTS
  TypeOK
  LadderInv
  EndsWhenSecured
  OneWinner
  SpecialHandFitsScore
  OffersAreLegal
  NothingWithheld
  DecisionHasItsTeam
PROPERTIES
  ImplementsScoreboard
CHECK_DEADLOCK FALSE
