CONSTANTS
  TurnOrder <- Four
  Humans <- First
  Unsteady <- First
  MaxLevel = 1
  MaxRounds = 2
  Onzes = {}
SPECIFICATION Spec
CONSTRAINT OneOperation
PROPERTIES
  AcceptResumesTurn
CHECK_DEADLOCK FALSE
