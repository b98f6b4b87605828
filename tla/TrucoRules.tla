----------------------------- MODULE TrucoRules -----------------------------
(***************************************************************************)
(* The rules of Truco Paulista the server computes with: which card beats  *)
(* which, who takes a round and who takes a hand.  Nothing here has state. *)
(* A rank is its index in RANKS (4 5 6 7 Q J K A 2 3 are 0 .. 9).          *)
(***************************************************************************)
EXTENDS Integers, Sequences, FiniteSets, SequencesExt

None == "none"                          \* null, for a player or an owner
Team == {"P1", "P2"}                    \* a PlayerId stands for its team

Rank == 0..9
Suit == {"P", "C", "E", "O"}
Card == [rank : Rank, suit : Suit]

Opponent(p) == IF p = "P1" THEN "P2" ELSE "P1"

\* A seat's team; in a 1v1 match an owner is the player itself.
PlayerOf(owner) == IF owner \in {"P1", "T1A", "T1B"} THEN "P1" ELSE "P2"

-----------------------------------------------------------------------------
(* Card order *)

ManilhaRank(vira) == (vira + 1) % 10

ManilhaSuitStrength == [P |-> 3, C |-> 2, E |-> 1, O |-> 0]

\* "A" when x wins, "B" when y wins, "TIE" otherwise.
CompareCards(x, y, vira) ==
  LET manilha == ManilhaRank(vira)
      Order(s, t) == IF s > t THEN "A" ELSE IF t > s THEN "B" ELSE "TIE"
  IN  IF x.rank = manilha /\ y.rank = manilha
        THEN Order(ManilhaSuitStrength[x.suit], ManilhaSuitStrength[y.suit])
      ELSE IF x.rank = manilha THEN "A"
      ELSE IF y.rank = manilha THEN "B"
      ELSE Order(x.rank, y.rank)

-----------------------------------------------------------------------------
(* A round is the sequence of its plays, in order: [owner, card] records. *)

Play(owner, card) == [owner |-> owner, card |-> card]

\* The plays not beaten, compared one by one with the first of the best so far.
BestPlays(plays, vira) ==
  FoldLeft(LAMBDA best, p :
             LET r == IF best = <<>> THEN "A"
                      ELSE CompareCards(p.card, best[1].card, vira)
             IN  IF r = "A" THEN <<p>>
                 ELSE IF r = "TIE" THEN Append(best, p)
                 ELSE best,
           <<>>, plays)

\* Faulty: the first of the best plays takes the round, ties included.
RoundResultFirstBest(plays, vira) == PlayerOf(BestPlays(plays, vira)[1].owner)

\* getResult: the one team among the best plays, or a tie.
RoundResult(plays, vira) ==
  LET best == BestPlays(plays, vira)
      teams == {PlayerOf(best[i].owner) : i \in DOMAIN best}
  IN  IF \E t \in Team : teams = {t} THEN CHOOSE t \in Team : teams = {t}
      ELSE "TIE"

\* Faulty: the last of the best plays leads.
WinningOwnerLast(plays, vira) ==
  IF RoundResult(plays, vira) = "TIE" THEN None
  ELSE Last(BestPlays(plays, vira)).owner

\* The owner whose play leads the next round.
WinningOwner(plays, vira) ==
  IF RoundResult(plays, vira) = "TIE" THEN None
  ELSE BestPlays(plays, vira)[1].owner

\* Faulty: the team's last card is shown.
TeamBestLast(plays, vira, team) ==
  Last(SelectSeq(plays, LAMBDA p : PlayerOf(p.owner) = team))

NoPlay == [owner |-> None]              \* null, while a team has no card out

\* The best play of a team, whose card the table shows for it.
TeamBest(plays, vira, team) ==
  FoldLeft(LAMBDA best, p :
             IF /\ PlayerOf(p.owner) = team
                /\ \/ best = NoPlay
                   \/ CompareCards(p.card, best.card, vira) = "A"
             THEN p ELSE best,
           NoPlay, plays)

-----------------------------------------------------------------------------
(* A hand, from the results of its finished rounds. *)

RoundOutcome == Team \cup {"TIE"}

\* Faulty: a tie after a won round does not end the hand.
HandWinnerLateTie(rs) ==
  IF Len(rs) >= 2 /\ rs[1] # "TIE" /\ rs[2] = rs[1] THEN rs[1]
  ELSE IF Len(rs) >= 2 /\ rs[1] = "TIE" /\ rs[2] # "TIE" THEN rs[2]
  ELSE IF Len(rs) < 3 THEN None
  ELSE IF rs[3] # "TIE" THEN rs[3]
  ELSE IF rs[1] # "TIE" THEN rs[1]
  ELSE "P1"

\* evaluateFinished: the team the finished rounds give the hand to, if any.
HandWinner(rs) ==
  IF Len(rs) >= 2 /\ rs[1] # "TIE" /\ rs[2] \in {rs[1], "TIE"} THEN rs[1]
  ELSE IF Len(rs) >= 2 /\ rs[1] = "TIE" /\ rs[2] # "TIE" THEN rs[2]
  ELSE IF Len(rs) < 3 THEN None
  ELSE IF rs[3] # "TIE" THEN rs[3]
  ELSE IF rs[1] # "TIE" THEN rs[1]
  ELSE "P1"

-----------------------------------------------------------------------------
(* The reference the rules are checked against *)

\* One number per card: manilhas above every other card, by suit.
Strength(card, vira) ==
  IF card.rank = ManilhaRank(vira) THEN 10 + ManilhaSuitStrength[card.suit]
  ELSE card.rank

\* The plays of greatest strength, whatever the order they were made in.
StrongestPlays(plays, vira) ==
  {i \in DOMAIN plays : \A j \in DOMAIN plays :
     Strength(plays[i].card, vira) >= Strength(plays[j].card, vira)}

\* A full hand goes to the team that took more rounds; level, to the team that
\* took the first round anyone took; and to P1 when every round was a tie.
Verdict(r1, r2, r3) ==
  LET One(r, t) == IF r = t THEN 1 ELSE 0
      Won(t) == One(r1, t) + One(r2, t) + One(r3, t)
  IN  IF Won("P1") > Won("P2") THEN "P1"
      ELSE IF Won("P2") > Won("P1") THEN "P2"
      ELSE IF r1 # "TIE" THEN r1
      ELSE IF r2 # "TIE" THEN r2
      ELSE "P1"

\* The rounds played so far leave t the hand whatever happens in the others.
Secured(rs, t) ==
  \A r1, r2, r3 \in RoundOutcome :
     (/\ Len(rs) >= 1 => r1 = rs[1]
      /\ Len(rs) >= 2 => r2 = rs[2]
      /\ Len(rs) >= 3 => r3 = rs[3]) => Verdict(r1, r2, r3) = t
=============================================================================
