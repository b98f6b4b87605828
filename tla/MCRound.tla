------------------------------- MODULE MCRound -------------------------------
(* Round with four seats and six cards that can tie, beat each other or be *)
(* manilhas.  A round of two players is one comparison, which MatchProofs  *)
(* settles for the whole deck.                                             *)
EXTENDS Round

Seats == {"T1A", "T1B", "T2A", "T2B"}

\* Two suits of the ranks 4, 2 and 3; under a 2 the manilha is a 3, and under a
\* 3 it wraps to a 4.
Deck2v2 == {c \in Card : c.rank \in {0, 8, 9} /\ c.suit \in {"P", "O"}}

Viras2v2 == {8, 9}
=============================================================================
