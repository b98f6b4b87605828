CONSTANTS
  Clients = {a, b}
  WindowMs = 2
  MaxEvents = 2
  BlockMs = 3
  CleanupThreshold = 2
  MaxTime = 6
SYMMETRY ClientSymmetry
SPECIFICATION Spec
INVARIANTS TypeOK WindowHolds
PROPERTIES WaitIsKept BlockIsEarned
CHECK_DEADLOCK FALSE
