CONSTANTS
  Owners <- Team
  Deals <- PlainDeal
  PointsToWin = 12
  InitialScores <- Ends
  Handlers = {h1, h2, h3}
  MaxCommands = 4
SYMMETRY HandlerSymmetry
SPECIFICATION StoreSpec
INVARIANTS
  StoredMatchSound
  SoloCommandsStay
CHECK_DEADLOCK FALSE
