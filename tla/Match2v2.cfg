CONSTANTS
  Owners <- Seats
  Deals <- Deals2v2
  PointsToWin = 1
  InitialScores <- ZeroAll
SPECIFICATION Spec
CONSTRAINT SeatsInOrder
INVARIANTS
  CardsConserved
  LiveHandPlayable
  HandsStayHidden
CHECK_DEADLOCK FALSE
