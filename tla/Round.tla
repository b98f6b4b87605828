-------------------------------- MODULE Round --------------------------------
(***************************************************************************)
(* One round of a hand: cards of the deck played one by one, one per owner *)
(* (two players, or four seats), in any order -- the domain does not check *)
(* whose turn it is -- until everyone has played.                          *)
(***************************************************************************)
EXTENDS TrucoRules

CONSTANTS Owners,   \* the players of a 1v1 round or the seats of a 2v2 round
          Viras,    \* the ranks the turned card may have
          Deck      \* the cards that may be played

ASSUME RoundAssumption ==
  /\ Owners \in {Team, {"T1A", "T1B", "T2A", "T2B"}}
  /\ Viras \subseteq Rank
  /\ Deck \subseteq Card

VARIABLES viraRank, orderedPlays

vars == <<viraRank, orderedPlays>>

Init == viraRank \in Viras /\ orderedPlays = <<>>

Finished == Len(orderedPlays) >= Cardinality(Owners)

PlayCard(owner, card) ==
  /\ ~Finished
  /\ \A i \in DOMAIN orderedPlays :
       orderedPlays[i].owner # owner /\ orderedPlays[i].card # card
  /\ orderedPlays' = Append(orderedPlays, Play(owner, card))
  /\ UNCHANGED viraRank

Next == \E owner \in Owners, card \in Deck : PlayCard(owner, card)

Spec == Init /\ [][Next]_vars

-----------------------------------------------------------------------------
(* Round.getResult compares each card with the first of the best so far.   *)
(* That gives the round to a team exactly when every strongest card is     *)
(* that team's, whatever the order of play.                                *)
ResultIsStrongest ==
  Finished =>
    LET owners == {PlayerOf(orderedPlays[i].owner) :
                     i \in StrongestPlays(orderedPlays, viraRank)}
        result == RoundResult(orderedPlays, viraRank)
    IN  IF result = "TIE" THEN owners = Team ELSE owners = {result}

(* The owner Round.getWinningOwnerId names, whom the gateway lets lead the *)
(* next round, was the first to play a strongest card, and partners' level *)
(* cards leave the lead with the earlier of the two.                       *)
LeaderPlayedStrongestFirst ==
  Finished /\ RoundResult(orderedPlays, viraRank) # "TIE" =>
    LET strongest == StrongestPlays(orderedPlays, viraRank)
        first == CHOOSE i \in strongest : \A j \in strongest : i <= j
    IN  WinningOwner(orderedPlays, viraRank) = orderedPlays[first].owner

(* The card rebuildLegacyPlays shows for a team decides like the whole     *)
(* table: comparing the two shown cards gives the round's result.          *)
ShownCardsAgree ==
  Finished =>
    LET shown(t) == TeamBest(orderedPlays, viraRank, t).card
        cmp == CompareCards(shown("P1"), shown("P2"), viraRank)
    IN  RoundResult(orderedPlays, viraRank) =
          CASE cmp = "A" -> "P1" [] cmp = "B" -> "P2" [] OTHER -> "TIE"
=============================================================================
