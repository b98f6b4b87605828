CONSTANTS
  Players = {"A", "B", "C"}
  Sockets = {"a1", "a2", "b", "c"}
  PlayerOf <- MCPlayerOf
  RatingOf <- MCRatingOf
  Modes = {"1v1", "2v2"}
  Jobs = {j1, j2}
  MaxWait = 1
  MaxTime = 2
  Joins <- MCJoins
  MaxRequests = 4
  None = None

SPECIFICATION Spec
INVARIANTS OnePlacePerPlayer SeatedIsNotWaiting NoIdlePair
PROPERTIES PairIsServed
CHECK_DEADLOCK FALSE
