CONSTANTS
  None = None
  Matches = {"m"}
  Players = {"A", "B"}
  Sockets = {"a1", "a2", "b1"}
  Starters = {"b1"}
  Moves = {"T1A", "T2A"}
  Again = FALSE
  PlayerOfSocket <- OwnerAB
  Kinds <- AllKinds
CONSTRAINTS FirstHandsIn1v1
SPECIFICATION Spec
INVARIANTS
  TypeOK
  OneSessionPerPlayer
PROPERTIES
  AgreementLostOnlyTo
  AgreedTableKept
  SeatPassesOnlyToReturning
CHECK_DEADLOCK FALSE
