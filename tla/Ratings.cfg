CONSTANTS
  Matches = {"m1", "m2"}
  Users = {"ana", "bia"}
  Side <- Met
  Slots <- Twice
  Restless = {"m1"}
  Start = 100
SPECIFICATION Spec
INVARIANTS
  CreditedOnce
  NoResultLost
  ProfileAddsUp
CHECK_DEADLOCK FALSE
