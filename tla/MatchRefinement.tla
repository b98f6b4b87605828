--------------------------- MODULE MatchRefinement ---------------------------
(* Match implements Scoreboard: the mapping hides the cards and rounds, and *)
(* reads who bid last off the offer or, once agreed, off the right to raise *)
(* that the other team received with it.                                    *)
EXTENDS Match

Live == state = "in_progress"

lastBidder ==
  IF ~Live THEN None
  ELSE IF hand.betState = "awaiting_response" THEN hand.requestedBy
  ELSE IF hand.authority = None THEN None
  ELSE Opponent(hand.authority)

Board == INSTANCE Scoreboard WITH
  phase  <- state,
  score  <- score,
  stake  <- IF Live THEN hand.value ELSE 1,
  offer  <- IF Live THEN hand.pending ELSE 0,
  bidder <- lastBidder,
  sealed <- Live /\ hand.special = "mao_de_onze"

(* Every step of the aggregate is a step the players were promised: each   *)
(* raise is the next rung and comes from the team that did not make the    *)
(* last one, the value in play is always one both teams accepted, and a    *)
(* hand pays exactly that value, once, to the team that took it.           *)
ImplementsScoreboard == Board!Spec
=============================================================================
