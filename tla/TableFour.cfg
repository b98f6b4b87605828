CONSTANTS
  TurnOrder <- Four
  Humans <- First
  Unsteady = {}
  MaxLevel = 2
  MaxRounds = 2
  Onzes = {"T1", "T2"}
SPECIFICATION FairSpec
CONSTRAINT Apart
INVARIANTS
  TurnFollowsCards
PROPERTIES
  BetIsAnswered
CHECK_DEADLOCK FALSE
