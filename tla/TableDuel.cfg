CONSTANTS
  TurnOrder <- Duel
  Humans <- First
  Unsteady <- First
  MaxLevel = 2
  MaxRounds = 3
  Onzes = {"T1", "T2"}
SPECIFICATION FairSpec
CONSTRAINT Apart
INVARIANTS
  TypeOK
  DueBotIsAttended
PROPERTIES
  BotsMoveOn
CHECK_DEADLOCK FALSE
