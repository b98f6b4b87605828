------------------------------- MODULE MCMatch -------------------------------
(* Match on small instances.  The deals are chosen so that a round can go  *)
(* to either team or tie whoever plays what, with and without manilhas.    *)
EXTENDS MatchRefinement, MatchView

C(r, s) == [rank |-> r, suit |-> s]

Seats == {"T1A", "T1B", "T2A", "T2B"}

TwoHands(a, b) == [o \in Team |-> IF o = "P1" THEN a ELSE b]

\* Vira 3 of ouros, so fours are manilhas: every round is open to both teams.
EvenDeal == [vira |-> 9, cards |-> TwoHands(
  {C(8, "P"), C(7, "P"), C(0, "O")}, {C(8, "O"), C(7, "O"), C(1, "P")})]

\* Equal ranks only: three ties are possible.
TiedDeal == [vira |-> 4, cards |-> TwoHands(
  {C(8, "P"), C(7, "P"), C(2, "P")}, {C(8, "O"), C(7, "O"), C(2, "O")})]

Deals1v1 == {EvenDeal, TiedDeal}

Deals2v2 == {[vira |-> 4, cards |-> [o \in Seats |->
  CASE o = "T1A" -> {C(8, "P"), C(7, "P"), C(2, "P")}
    [] o = "T2A" -> {C(8, "O"), C(6, "P"), C(5, "P")}
    [] o = "T1B" -> {C(3, "P"), C(7, "O"), C(1, "P")}
    [] o = "T2B" -> {C(3, "O"), C(7, "E"), C(1, "O")}]]}

Scores(S) == [Team -> S]

FarScores == Scores({9, 11})
ZeroAll == {[t \in Team |-> 0]}

\* In a 2v2 run the seats play in table order, as the gateway makes them.
TableOrder == <<"T1A", "T2A", "T1B", "T2B">>
SeatsInOrder ==
  hand # NoHand => \A r \in DOMAIN hand.rounds : \A i \in DOMAIN hand.rounds[r] :
                     hand.rounds[r][i].owner = TableOrder[i]
=============================================================================
