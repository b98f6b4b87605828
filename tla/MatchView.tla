------------------------------ MODULE MatchView ------------------------------
(***************************************************************************)
(* What a stored match looks like to a viewer                              *)
(* (application/mappers/match-to-view-match-state.mapper.ts): the actions  *)
(* it is offered, the decision the table waits for, and whose cards it may *)
(* see.  The clients draw their controls from this view and the gateway    *)
(* picks the bot that must act from it, so a view that disagrees with the  *)
(* aggregate stops the table or offers what will be refused.  The view has *)
(* no state of its own: it is read beside every state of Match.            *)
(***************************************************************************)
EXTENDS Match

\* Faulty: raises are offered to the team without the right to raise, too.
CanRaiseToTargetAnyone(h, viewer, from) ==
  /\ ~h.finished /\ ~h.decisionPending
  /\ h.special # "mao_de_onze"
  /\ \/ h.betState = "awaiting_response" /\ h.pending = from
     \/ h.betState = "idle" /\ h.value = from

\* Faulty: an offer can only be answered, never raised.
CanRaiseToTargetIdle(h, viewer, from) ==
  /\ ~h.finished /\ ~h.decisionPending
  /\ h.special = "normal"
  /\ h.betState = "idle" /\ h.value = from
  /\ from > 1 => h.authority = viewer

\* Whether the viewer's team is offered the raise that takes `from` up a rung.
CanRaiseToTarget(h, viewer, from) ==
  /\ ~h.finished /\ ~h.decisionPending
  /\ h.special = "normal"
  /\ \/ /\ h.betState = "awaiting_response"
        /\ h.requestedBy # viewer
        /\ h.pending = from
     \/ /\ h.betState = "idle"
        /\ h.value = from
        /\ from > 1 => h.authority = viewer

CanRespondToBet(h, viewer) ==
  h.betState = "awaiting_response" /\ h.requestedBy # viewer

CanResolveMaoDeOnze(h, viewer) ==
  h.special = "mao_de_onze" /\ h.decisionPending /\ h.decider = viewer

CanAttemptPlayCard(h) == ~h.finished /\ h.betState = "idle" /\ ~h.decisionPending

\* Faulty: the pending decision of a mao de onze is not looked at.
NextDecisionTypeNoOnze(h) ==
  IF h.finished THEN "start-next-hand"
  ELSE IF h.betState = "idle" THEN "play-card"
  ELSE "respond-bet"

NextDecisionType(h) ==
  IF h.finished THEN "start-next-hand"
  ELSE IF h.special = "mao_de_onze" /\ h.decisionPending THEN "resolve-mao-de-onze"
  ELSE IF h.betState = "awaiting_response" THEN "respond-bet"
  ELSE "play-card"

ViewerCanActNow(h, viewer) ==
  /\ ~h.finished
  /\ \/ CanRespondToBet(h, viewer)
     \/ CanResolveMaoDeOnze(h, viewer)
     \/ CanAttemptPlayCard(h)

-----------------------------------------------------------------------------
(* Whose cards a view names.  A viewer is an owner; a card shown as HIDDEN *)
(* is left out of the set.                                                 *)

\* The cards under playerOneHand or playerTwoHand.
VisibleTeamHand(h, viewer, team) ==
  IF PlayerOf(viewer) = team THEN h.cards[viewer] ELSE {}

\* Faulty: partners see each other's cards.
VisibleSeatHandTeam(h, viewer, owner) ==
  IF PlayerOf(viewer) = PlayerOf(owner) THEN h.cards[owner] ELSE {}

\* The cards under seatHands, which a 1v1 view does not have.
VisibleSeatHand(h, viewer, owner) ==
  IF viewer = owner /\ Owners # Team THEN h.cards[owner] ELSE {}

CardsShown(h, viewer) ==
  (UNION ({VisibleTeamHand(h, viewer, t) : t \in Team}
            \cup {VisibleSeatHand(h, viewer, o) : o \in Owners}))
    \cup {p.card : p \in UNION {ToSet(h.rounds[r]) : r \in DOMAIN h.rounds}}

-----------------------------------------------------------------------------
(* What must hold *)

(* Every control a player is offered is a command the aggregate accepts    *)
(* from that player's team: no button of a finished hand, of the other     *)
(* team, or of a rung not next on the ladder ever shows.                   *)
OffersAreLegal ==
  hand # NoHand => \A t \in Team :
    /\ \A from \in {1, 3, 6, 9} : CanRaiseToTarget(hand, t, from) =>
         state = "in_progress" /\ MayRequest(hand, t, NextValue(from))
    /\ CanRespondToBet(hand, t) => state = "in_progress" /\ MayAnswer(hand, t)
    /\ CanResolveMaoDeOnze(hand, t) =>
         state = "in_progress" /\ MayDecideOnze(hand, t)

(* Nothing the aggregate would accept is withheld from a player, with the  *)
(* one exception of a raise in a mao de ferro, which the aggregate accepts *)
(* and no client is offered.                                               *)
NothingWithheld ==
  state = "in_progress" => \A t \in Team :
    /\ \A from \in {1, 3, 6, 9} :
         MayRequest(hand, t, NextValue(from)) /\ hand.special # "mao_de_ferro" =>
           CanRaiseToTarget(hand, t, from)
    /\ MayAnswer(hand, t) => CanRespondToBet(hand, t)
    /\ MayDecideOnze(hand, t) => CanResolveMaoDeOnze(hand, t)
    /\ \A o \in Owners : \A card \in hand.cards[o] :
         MayPlay(hand, o, card) => CanAttemptPlayCard(hand)

(* The decision the view says the table waits for, by which the gateway    *)
(* chooses the bot to wake, is one that some team can take in the          *)
(* aggregate, and viewerCanActNow is true of exactly the teams that can:   *)
(* the table never waits for the wrong side or for nobody.                 *)
DecisionHasItsTeam ==
  hand # NoHand =>
    LET able == {t \in Team : ViewerCanActNow(hand, t)}
        next == NextDecisionType(hand)
    IN  /\ next = "start-next-hand" <=> state # "in_progress"
        /\ next = "start-next-hand" => able = {}
        /\ next = "resolve-mao-de-onze" =>
             able = {hand.decider} /\ MayDecideOnze(hand, hand.decider)
        /\ next = "respond-bet" =>
             /\ able = {Opponent(hand.requestedBy)}
             /\ MayAnswer(hand, Opponent(hand.requestedBy))
        /\ next = "play-card" =>
             able = Team /\ \E o \in Owners : \E card \in hand.cards[o] :
                              MayPlay(hand, o, card)

(* The view of a seat names its own cards and those on the table: never a  *)
(* card another seat, its partner included, still holds.                   *)
HandsStayHidden ==
  hand # NoHand => \A viewer \in Owners : \A o \in Owners \ {viewer} :
    CardsShown(hand, viewer) \cap hand.cards[o] = {}
=============================================================================
