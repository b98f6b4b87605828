------------------------------ MODULE Scoreboard ------------------------------
(***************************************************************************)
(* What a match promises the players, without cards, rounds or snapshots:  *)
(* every hand is worth what both teams agreed to, the teams raise in turn, *)
(* one rung at a time, and each hand pays its worth to one team, once.     *)
(***************************************************************************)
EXTENDS Integers

CONSTANTS PointsToWin, InitialScores

Team == {"P1", "P2"}
None == "none"

VARIABLES phase,    \* "waiting", "in_progress" or "finished"
          score,
          stake,    \* what the hand is worth now
          offer,    \* the value proposed, 0 when nothing is
          bidder,   \* who made the last offer
          sealed    \* a mao de onze: nobody may bid

vars == <<phase, score, stake, offer, bidder, sealed>>

Rung == [v \in {1, 3, 6, 9} |-> IF v = 1 THEN 3 ELSE v + 3]

Init ==
  /\ phase = "waiting" /\ score \in InitialScores
  /\ stake = 1 /\ offer = 0 /\ bidder = None /\ sealed = FALSE

Deal ==
  /\ phase = "waiting" /\ phase' = "in_progress"
  /\ sealed' = (\E t, u \in Team : score[t] = 11 /\ score[u] < 11)
  /\ stake' = 1 /\ offer' = 0 /\ bidder' = None
  /\ UNCHANGED score

\* A team that did not make the last offer proposes the next rung; over an open
\* offer, that agrees to it first.
Bid(t) ==
  /\ phase = "in_progress" /\ ~sealed /\ bidder # t
  /\ stake' = IF offer = 0 THEN stake ELSE offer
  /\ stake' \in DOMAIN Rung /\ offer' = Rung[stake'] /\ bidder' = t
  /\ UNCHANGED <<phase, score, sealed>>

Agree ==
  /\ phase = "in_progress" /\ offer # 0
  /\ stake' = offer /\ offer' = 0
  /\ UNCHANGED <<phase, score, bidder, sealed>>

\* The team at eleven plays the hand for three points.
PlayForThree ==
  /\ phase = "in_progress" /\ sealed /\ stake = 1 /\ stake' = 3
  /\ UNCHANGED <<phase, score, offer, bidder, sealed>>

\* t takes the hand: by cards, or because the other team refused t's offer, or
\* because the team at eleven refused to play.
Settle(t) ==
  /\ phase = "in_progress"
  /\ offer # 0 => t = bidder
  /\ sealed /\ stake = 1 => score[t] # 11
  /\ score' = [score EXCEPT ![t] = @ + stake]
  /\ phase' = IF score'[t] >= PointsToWin THEN "finished" ELSE "waiting"
  /\ stake' = 1 /\ offer' = 0 /\ bidder' = None /\ sealed' = FALSE

Next ==
  \/ Deal \/ Agree \/ PlayForThree
  \/ \E t \in Team : Bid(t) \/ Settle(t)

Spec == Init /\ [][Next]_vars
=============================================================================
