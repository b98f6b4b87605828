-------------------------------- MODULE Match --------------------------------
(***************************************************************************)
(* The Match aggregate and the Hand it owns (src/domain/entities): deals,  *)
(* card plays, the bet ladder 1-3-6-9-12, mao de onze, mao de ferro, and   *)
(* the score.  A call the code answers with an InvalidMoveError is a call  *)
(* whose guard is false: no use case saves the match after one.  Commands  *)
(* come from either team at any time, because the aggregate knows whose    *)
(* answer is awaited but not whose turn it is to play a card.              *)
(*                                                                         *)
(* The hand is one record, and each of its operations is an operator on    *)
(* that record beside the guard it throws by, so that the modules which    *)
(* load, change and save a match can use the same definitions.             *)
(***************************************************************************)
EXTENDS TrucoRules

CONSTANTS
  Owners,         \* who holds cards: Team in 1v1, the four seats in 2v2
  Deals,          \* the deals explored: vira rank and three cards per owner
  PointsToWin,    \* 12 unless create-match said otherwise
  InitialScores   \* the scores a stored match may be restored with

Value == {1, 3, 6, 9, 12}

Deal == [vira : Rank, cards : [Owners -> SUBSET Card]]

ASSUME OwnersAssumption == Owners \in {Team, {"T1A", "T1B", "T2A", "T2B"}}

ASSUME PointsAssumption == PointsToWin \in Nat \ {0}

ASSUME ScoresAssumption == InitialScores \subseteq [Team -> 0..(PointsToWin - 1)]

ASSUME DealsAssumption ==
  /\ Deals \subseteq Deal
  /\ \A d \in Deals : \A o \in Owners :
       /\ Cardinality(d.cards[o]) = 3
       /\ \A q \in Owners \ {o} : d.cards[o] \cap d.cards[q] = {}

VARIABLES state,   \* "waiting", "in_progress" or "finished"
          score,
          hand     \* the current hand, NoHand before the first deal

vars == <<state, score, hand>>

-----------------------------------------------------------------------------
(* Hand *)

PlayRecord == [owner : Owners, card : Card]

\* HandSnapshot; null is None for a team and 0 for a value.
HandType ==
  [ vira : Rank, cards : [Owners -> SUBSET Card], rounds : Seq(Seq(PlayRecord)),
    finished : BOOLEAN, winner : Team \cup {None}, awarded : Value \cup {0},
    value : Value, betState : {"idle", "awaiting_response"},
    pending : Value \cup {0}, requestedBy : Team \cup {None},
    authority : Team \cup {None},
    special : {"normal", "mao_de_onze", "mao_de_ferro"},
    decisionPending : BOOLEAN, decider : Team \cup {None} ]

NoHand == [finished |-> TRUE]

NewHand(deal, special, decider) ==
  [ vira |-> deal.vira, cards |-> deal.cards, rounds |-> << <<>> >>,
    finished |-> FALSE, winner |-> None, awarded |-> 0,
    value |-> 1, betState |-> "idle", pending |-> 0,
    requestedBy |-> None, authority |-> None,
    special |-> special, decisionPending |-> decider # None,
    decider |-> decider ]

RoundFinished(plays) == Len(plays) >= Cardinality(Owners)

\* The results of the finished rounds; only the last round may be open.
FinishedResults(h) ==
  LET last == Len(h.rounds)
      done == IF RoundFinished(h.rounds[last]) THEN last ELSE last - 1
  IN  [i \in 1..done |-> RoundResult(h.rounds[i], h.vira)]

FinishWithWinner(h, team, points) ==
  [h EXCEPT !.finished = TRUE, !.winner = team, !.awarded = points,
            !.betState = "idle", !.pending = 0, !.requestedBy = None,
            !.decisionPending = FALSE]

\* Faulty: an owner may play again in the round it played in.
MayPlayTwice(h, owner, card) ==
  /\ ~h.finished /\ ~h.decisionPending /\ h.betState = "idle"
  /\ card \in h.cards[owner]
  /\ ~RoundFinished(Last(h.rounds))

\* Hand.play: the card leaves the hand, joins the open round, and the round it
\* closes may close the hand; a next round is opened only for a live hand.
MayPlay(h, owner, card) ==
  /\ ~h.finished /\ ~h.decisionPending /\ h.betState = "idle"
  /\ card \in h.cards[owner]
  /\ LET open == Last(h.rounds)
     IN  ~RoundFinished(open) /\ \A i \in DOMAIN open : open[i].owner # owner

\* Faulty: no third round is opened.
AfterPlayTwoRounds(h, owner, card) ==
  LET open == Append(Last(h.rounds), Play(owner, card))
      played == [h EXCEPT !.cards[owner] = @ \ {card},
                          !.rounds = Append(Front(@), open)]
      winner == HandWinner(FinishedResults(played))
  IN  IF ~RoundFinished(open) THEN played
      ELSE IF winner # None THEN FinishWithWinner(played, winner, h.value)
      ELSE IF Len(played.rounds) < 2
           THEN [played EXCEPT !.rounds = Append(@, <<>>)]
      ELSE played

AfterPlay(h, owner, card) ==
  LET open == Append(Last(h.rounds), Play(owner, card))
      played == [h EXCEPT !.cards[owner] = @ \ {card},
                          !.rounds = Append(Front(@), open)]
      winner == HandWinner(FinishedResults(played))
  IN  IF ~RoundFinished(open) THEN played
      ELSE IF winner # None THEN FinishWithWinner(played, winner, h.value)
      ELSE IF Len(played.rounds) < 3
           THEN [played EXCEPT !.rounds = Append(@, <<>>)]
      ELSE played

NextValue(v) == CASE v = 1 -> 3 [] v = 3 -> 6 [] v = 6 -> 9 [] v = 9 -> 12
                  [] OTHER -> 0

CanChangeBet(h) == ~h.finished /\ ~h.decisionPending

\* Faulty: either team may raise an agreed value.
MayRequestAnyone(h, team, v) ==
  /\ CanChangeBet(h)
  /\ h.special # "mao_de_onze"
  /\ \/ /\ h.betState = "awaiting_response"
        /\ h.requestedBy # team
        /\ v = NextValue(h.pending)
     \/ h.betState = "idle" /\ v = NextValue(h.value)

\* requestTruco, raiseToSix, raiseToNine, raiseToTwelve.  Only the mao de onze
\* is closed to raises: a mao de ferro is raised like any other hand.
MayRequest(h, team, v) ==
  /\ CanChangeBet(h)
  /\ h.special # "mao_de_onze"
  /\ \/ /\ h.betState = "awaiting_response"
        /\ h.requestedBy # team
        /\ v = NextValue(h.pending)
     \/ /\ h.betState = "idle"
        /\ v = NextValue(h.value)
        /\ h.authority = IF v = 3 THEN None ELSE team

\* Faulty: a raise over an offer leaves the value as it was.
AfterRequestNotAccepting(h, team, v) ==
  [h EXCEPT !.betState = "awaiting_response", !.pending = v,
            !.requestedBy = team]

\* A raise over an offer accepts that offer first.
AfterRequest(h, team, v) ==
  LET countered == h.betState = "awaiting_response"
  IN  [h EXCEPT !.value = IF countered THEN h.pending ELSE @,
                !.authority = IF countered THEN team ELSE @,
                !.betState = "awaiting_response",
                !.pending = v, !.requestedBy = team]

MayAnswer(h, team) ==
  CanChangeBet(h) /\ h.betState = "awaiting_response" /\ h.requestedBy # team

\* Faulty: the offer is added to the value.
AfterAcceptAdds(h, team) ==
  [h EXCEPT !.value = @ + h.pending, !.authority = team, !.betState = "idle",
            !.pending = 0, !.requestedBy = None]

AfterAccept(h, team) ==
  [h EXCEPT !.value = h.pending, !.authority = team, !.betState = "idle",
            !.pending = 0, !.requestedBy = None]

AfterDecline(h) == FinishWithWinner(h, h.requestedBy, h.value)

MayDecideOnze(h, team) ==
  h.special = "mao_de_onze" /\ h.decisionPending /\ h.decider = team

AfterAcceptOnze(h) ==
  [h EXCEPT !.value = 3, !.betState = "idle", !.pending = 0,
            !.requestedBy = None, !.authority = None, !.decisionPending = FALSE]

AfterDeclineOnze(h, team) == FinishWithWinner(h, Opponent(team), 1)

-----------------------------------------------------------------------------
(* Match *)

\* Faulty: the other team decides the mao de onze.
InitialHandWrongDecider(deal, sc) ==
  IF sc["P1"] = 11 /\ sc["P2"] = 11 THEN NewHand(deal, "mao_de_ferro", None)
  ELSE IF sc["P1"] = 11 /\ sc["P2"] < 11 THEN NewHand(deal, "mao_de_onze", "P2")
  ELSE IF sc["P2"] = 11 /\ sc["P1"] < 11 THEN NewHand(deal, "mao_de_onze", "P1")
  ELSE NewHand(deal, "normal", None)

\* buildInitialHandState
InitialHand(deal, sc) ==
  IF sc["P1"] = 11 /\ sc["P2"] = 11 THEN NewHand(deal, "mao_de_ferro", None)
  ELSE IF sc["P1"] = 11 /\ sc["P2"] < 11 THEN NewHand(deal, "mao_de_onze", "P1")
  ELSE IF sc["P2"] = 11 /\ sc["P1"] < 11 THEN NewHand(deal, "mao_de_onze", "P2")
  ELSE NewHand(deal, "normal", None)

\* Faulty: the target has to be passed.
ResolvePastTarget(h) ==
  /\ hand' = h
  /\ IF ~h.finished THEN UNCHANGED <<state, score>>
     ELSE /\ score' = [score EXCEPT ![h.winner] = @ + h.awarded]
          /\ state' = IF \E t \in Team : score'[t] > PointsToWin
                      THEN "finished" ELSE "waiting"

\* resolveFinishedHandIfNeeded, run by every call that may finish the hand.
Resolve(h) ==
  /\ hand' = h
  /\ IF ~h.finished THEN UNCHANGED <<state, score>>
     ELSE /\ score' = [score EXCEPT ![h.winner] = @ + h.awarded]
          /\ state' = IF \E t \in Team : score'[t] >= PointsToWin
                      THEN "finished" ELSE "waiting"

Init ==
  /\ state = "waiting"
  /\ score \in InitialScores
  /\ hand = NoHand

Start ==
  /\ state = "waiting"
  /\ \E deal \in Deals : hand' = InitialHand(deal, score)
  /\ state' = "in_progress"
  /\ UNCHANGED score

PlayCard(owner, card) ==
  /\ state = "in_progress"
  /\ MayPlay(hand, owner, card)
  /\ Resolve(AfterPlay(hand, owner, card))

RequestBet(team, v) ==
  /\ state = "in_progress"
  /\ MayRequest(hand, team, v)
  /\ hand' = AfterRequest(hand, team, v)
  /\ UNCHANGED <<state, score>>

AcceptBet(team) ==
  /\ state = "in_progress"
  /\ MayAnswer(hand, team)
  /\ hand' = AfterAccept(hand, team)
  /\ UNCHANGED <<state, score>>

DeclineBet(team) ==
  /\ state = "in_progress"
  /\ MayAnswer(hand, team)
  /\ Resolve(AfterDecline(hand))

AcceptMaoDeOnze(team) ==
  /\ state = "in_progress"
  /\ MayDecideOnze(hand, team)
  /\ hand' = AfterAcceptOnze(hand)
  /\ UNCHANGED <<state, score>>

DeclineMaoDeOnze(team) ==
  /\ state = "in_progress"
  /\ MayDecideOnze(hand, team)
  /\ Resolve(AfterDeclineOnze(hand, team))

Next ==
  \/ Start
  \/ \E owner \in Owners : \E card \in Card : PlayCard(owner, card)
  \/ \E team \in Team :
       \/ \E v \in {3, 6, 9, 12} : RequestBet(team, v)
       \/ AcceptBet(team)
       \/ DeclineBet(team)
       \/ AcceptMaoDeOnze(team)
       \/ DeclineMaoDeOnze(team)

Spec == Init /\ [][Next]_vars

-----------------------------------------------------------------------------
(* What must hold *)

(* The types of the aggregate's fields (HandSnapshot, MatchSnapshot).      *)
TypeOK ==
  /\ state \in {"waiting", "in_progress", "finished"}
  /\ score \in [Team -> Nat]
  /\ hand \in HandType \cup {NoHand}

\* How the offer on the table, the agreed value and the right to raise fit.
Ladder(h) ==
  /\ h.betState = "idle" => h.pending = 0 /\ h.requestedBy = None
  /\ h.betState = "awaiting_response" =>
       /\ ~h.finished /\ ~h.decisionPending
       /\ h.pending = NextValue(h.value) /\ h.pending # 0
       /\ h.requestedBy \in Team
       /\ h.authority = IF h.value = 1 THEN None ELSE h.requestedBy
  /\ h.special = "mao_de_onze" =>
       /\ h.betState = "idle" /\ h.authority = None
       /\ h.decider \in Team
       /\ h.value = IF h.decisionPending \/ (h.finished /\ h.awarded = 1)
                    THEN 1 ELSE 3
       /\ h.finished /\ h.awarded = 1 => h.winner = Opponent(h.decider)
  /\ h.special # "mao_de_onze" =>
       /\ ~h.decisionPending
       /\ (h.authority = None) <=> (h.value = 1)
  /\ h.finished =>
       h.winner \in Team /\ h.awarded = h.value /\ ~h.decisionPending

(* assertStateInvariants never throws after an operation: a raised hand    *)
(* has a side with the right to raise it (an accepted mao de onze aside),  *)
(* an offer is complete and a finished hand has its result.  The code only *)
(* tests it after some operations; it holds after all of them.             *)
StateInvariants ==
  hand # NoHand =>
    /\ \/ hand.value = 1 \/ hand.authority # None
       \/ hand.special = "mao_de_onze" /\ hand.value = 3
    /\ hand.betState = "awaiting_response" =>
         hand.pending # 0 /\ hand.requestedBy # None
    /\ hand.finished => hand.winner # None /\ hand.awarded # 0

(* The negotiation never strands: an offer is always the rung above the    *)
(* agreed value, a counter-raise leaves its author the agreed value's      *)
(* owner, and a hand without an offer has none left over from before.      *)
LadderInv == hand # NoHand => Ladder(hand)

Plays(h, owner) ==
  {p \in (1..3) \X (1..4) :
     /\ p[1] \in DOMAIN h.rounds /\ p[2] \in DOMAIN h.rounds[p[1]]
     /\ h.rounds[p[1]][p[2]].owner = owner}

(* Cards are neither lost nor made: each owner's three cards are in hand   *)
(* or on the table, no card is in two places, and nobody has played twice  *)
(* in a round or a round ahead of another.                                 *)
CardsConserved ==
  hand # NoHand =>
    /\ \A o \in Owners :
         Cardinality(hand.cards[o]) + Cardinality(Plays(hand, o)) = 3
    /\ \A o, q \in Owners : \A p \in Plays(hand, q) :
         hand.rounds[p[1]][p[2]].card \notin hand.cards[o]
    /\ \A r \in DOMAIN hand.rounds :
         /\ r < Len(hand.rounds) => RoundFinished(hand.rounds[r])
         /\ \A o \in Owners :
              Cardinality({p \in Plays(hand, o) : p[1] = r}) <= 1

(* A live hand can always go on: its last round is open, and everyone who  *)
(* has not played in it still holds a card.                                *)
LiveHandPlayable ==
  hand # NoHand /\ ~hand.finished =>
    /\ ~RoundFinished(Last(hand.rounds))
    /\ \A o \in Owners :
         \/ hand.cards[o] # {}
         \/ \E i \in DOMAIN Last(hand.rounds) : Last(hand.rounds)[i].owner = o

(* A hand ends by cards when no further round could change who takes it,   *)
(* neither later nor earlier, and goes to the team the full count of       *)
(* rounds would give it.  In a hand that was given up the last round is    *)
(* still open.                                                             *)
EndsWhenSecured ==
  hand # NoHand =>
    /\ \A t \in Team : Secured(FinishedResults(hand), t) =>
         hand.finished /\ hand.winner = t
    /\ hand.finished /\ RoundFinished(Last(hand.rounds)) =>
         Secured(FinishedResults(hand), hand.winner)

(* The match is in progress exactly while its hand is live, so the         *)
(* commands of a hand are refused once it has ended, until the next start. *)
HandOpenIffInProgress == (state = "in_progress") <=> ~hand.finished

(* The step that ends a hand pays it to its winner, at the value agreed    *)
(* before that step, and no other step changes the score; and a hand that  *)
(* has ended only gives way to one in which nobody has played.             *)
HandsPaidOnce ==
  [][ /\ IF hand'.finished /\ ~hand.finished
         THEN /\ hand'.winner \in Team
              /\ score' = [score EXCEPT ![hand'.winner] = @ + hand.value]
         ELSE UNCHANGED score
      /\ hand.finished /\ hand' # hand => hand'.rounds = << <<>> >> ]_vars

(* The match ends at once and only one team reaches the target.            *)
OneWinner ==
  /\ (state = "finished") <=> (\E t \in Team : score[t] >= PointsToWin)
  /\ \E t \in Team : score[t] < PointsToWin

(* What kind of hand is played always fits the score it is played at, and  *)
(* the team at eleven is the one that decides a mao de onze.  A mao de     *)
(* ferro ends every match of at most twelve points.                        *)
SpecialHandFitsScore ==
  /\ state = "in_progress" =>
       /\ hand.special = "mao_de_onze" <=>
            \E t \in Team : score[t] = 11 /\ score[Opponent(t)] < 11
       /\ hand.special = "mao_de_onze" => score[hand.decider] = 11
       /\ hand.special = "mao_de_ferro" <=> \A t \in Team : score[t] = 11
  /\ state = "waiting" /\ hand # NoHand /\ PointsToWin <= 12 =>
       hand.special # "mao_de_ferro"
=============================================================================
