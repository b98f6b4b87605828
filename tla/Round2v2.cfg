CONSTANTS
  Owners <- Seats
  Viras <- Viras2v2
  Deck <- Deck2v2
SPECIFICATION Spec
INVARIANTS
  ResultIsStrongest
  LeaderPlayedStrongestFirst
  ShownCardsAgree
CHECK_DEADLOCK FALSE
