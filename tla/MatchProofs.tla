----------------------------- MODULE MatchProofs -----------------------------
(* The end of a hand, for all results; the invariants of Match and its     *)
(* refinement of Scoreboard, for any target, any deals and any restored    *)
(* score; what a viewer is offered and sees of a match, in every state;    *)
(* and the stored match under any number of use cases under way.           *)
EXTENDS MatchRefinement, MatchView, MatchStore, FiniteSetTheorems, SequenceTheorems,
        TLAPS

-----------------------------------------------------------------------------
(* The rules *)

(* evaluateFinished ends a hand as soon as, and only when, one team takes  *)
(* it whatever the remaining rounds bring, and gives it to that team.      *)
THEOREM HandWinnerSecured ==
  ASSUME NEW rs \in Seq(RoundOutcome), Len(rs) \in 0..3, NEW t \in Team
  PROVE  HandWinner(rs) = t <=> Secured(rs, t)
<1> DEFINE O == {"P1", "P2", "TIE"}
<1>1. RoundOutcome = O /\ Team = {"P1", "P2"} /\ t \in {"P1", "P2"}
  BY DEF RoundOutcome, Team
<1>2. Len(rs) \in 0..3 /\ \A i \in 1..Len(rs) : rs[i] \in O
  <2>1. Len(rs) \in Nat /\ \A i \in 1..Len(rs) : rs[i] \in RoundOutcome
    OBVIOUS
  <2>2. \A i \in 1..Len(rs) : rs[i] \in O
    BY <1>1, <2>1
  <2> QED BY <2>2
\* The hand goes against u when the other team takes the last two rounds.
<1>3. \A u \in Team : \A r1 \in O : \E r2, r3 \in O : Verdict(r1, r2, r3) # u
  <2>1. \A r1 \in O : /\ Verdict(r1, "P2", "P2") # "P1"
                      /\ Verdict(r1, "P1", "P1") # "P2"
    BY DEF Verdict
  <2> QED BY <1>1, <2>1
<1>4. CASE Len(rs) = 0
  <2>1. ~Secured(rs, t)
    <3>1. PICK r2, r3 \in O : Verdict("TIE", r2, r3) # t
      BY <1>3
    <3> QED BY <1>1, <1>4, <3>1 DEF Secured
  <2> QED BY <1>1, <1>4, <2>1 DEF HandWinner, None
<1>5. CASE Len(rs) = 1
  <2>1. ~Secured(rs, t)
    <3>1. PICK r2, r3 \in O : Verdict(rs[1], r2, r3) # t
      BY <1>2, <1>3, <1>5
    <3> QED BY <1>1, <1>2, <1>5, <3>1 DEF Secured
  <2> QED BY <1>1, <1>5, <2>1 DEF HandWinner, None
<1>6. CASE Len(rs) = 2
  <2>1. Secured(rs, t) <=> \A r3 \in O : Verdict(rs[1], rs[2], r3) = t
    BY <1>1, <1>2, <1>6 DEF Secured
  <2>2. rs[1] \in O /\ rs[2] \in O
    BY <1>2, <1>6
  <2>3. (\A r3 \in O : Verdict(rs[1], rs[2], r3) = t) <=>
          \/ rs[1] = t /\ rs[2] \in {t, "TIE"}
          \/ rs[1] = "TIE" /\ rs[2] = t
    BY <1>1, <2>2 DEF Verdict
  <2> QED BY <1>1, <1>6, <2>1, <2>2, <2>3 DEF HandWinner, None
<1>7. CASE Len(rs) = 3
  <2>1. Secured(rs, t) <=> Verdict(rs[1], rs[2], rs[3]) = t
    BY <1>1, <1>2, <1>7 DEF Secured
  <2>2. rs[1] \in O /\ rs[2] \in O /\ rs[3] \in O
    BY <1>2, <1>7
  <2>3. HandWinner(rs) = Verdict(rs[1], rs[2], rs[3])
    BY <1>7, <2>2 DEF HandWinner, Verdict
  <2> QED BY <2>1, <2>3
<1> QED
  BY <1>2, <1>4, <1>5, <1>6, <1>7

-----------------------------------------------------------------------------
(* The invariant *)

\* The rounds of a hand: all but the last are over, the last one is open in a
\* live hand, and the results so far secure the hand for its winner only: for
\* nobody while it is live, and for somebody when its last round is over.
RoundsOK(h) ==
  /\ Len(h.rounds) \in 1..3
  /\ \A i \in 1..(Len(h.rounds) - 1) : RoundFinished(h.rounds[i])
  /\ ~h.finished => ~RoundFinished(h.rounds[Len(h.rounds)])
  /\ \A t \in Team :
       HandWinner(FinishedResults(h)) = t => h.finished /\ h.winner = t
  /\ h.finished /\ RoundFinished(h.rounds[Len(h.rounds)]) =>
       HandWinner(FinishedResults(h)) = h.winner

HandOK(h) == h \in HandType /\ Ladder(h) /\ RoundsOK(h)

\* The inductive invariant.
IInv ==
  /\ TypeOK
  /\ hand # NoHand => HandOK(hand)
  /\ HandOpenIffInProgress
  /\ OneWinner
  /\ SpecialHandFitsScore

-----------------------------------------------------------------------------
(* Facts about the data *)

LEMMA OwnersCount == Cardinality(Owners) \in {2, 4}
<1>1. Cardinality({"P1", "P2"}) = 2
  <2>1. IsFiniteSet({"P1"}) /\ Cardinality({"P1"}) = 1
    BY FS_Singleton
  <2>2. {"P1", "P2"} = {"P1"} \cup {"P2"} /\ "P2" \notin {"P1"}
    OBVIOUS
  <2> QED BY <2>1, <2>2, FS_AddElement
<1>2. Cardinality({"T1A", "T1B", "T2A", "T2B"}) = 4
  <2>1. IsFiniteSet({"T1A"}) /\ Cardinality({"T1A"}) = 1
    BY FS_Singleton
  <2>2. IsFiniteSet({"T1A"} \cup {"T1B"}) /\ Cardinality({"T1A"} \cup {"T1B"}) = 2
    BY <2>1, FS_AddElement
  <2>3. /\ IsFiniteSet({"T1A"} \cup {"T1B"} \cup {"T2A"})
        /\ Cardinality({"T1A"} \cup {"T1B"} \cup {"T2A"}) = 3
    BY <2>2, FS_AddElement
  <2>4. Cardinality({"T1A"} \cup {"T1B"} \cup {"T2A"} \cup {"T2B"}) = 4
    BY <2>3, FS_AddElement
  <2>5. {"T1A"} \cup {"T1B"} \cup {"T2A"} \cup {"T2B"} = {"T1A", "T1B", "T2A", "T2B"}
    OBVIOUS
  <2> QED BY <2>4, <2>5
<1> QED
  BY <1>1, <1>2, OwnersAssumption DEF Team

LEMMA RoundResultType ==
  ASSUME NEW plays, NEW vira
  PROVE  RoundResult(plays, vira) \in RoundOutcome
BY DEF RoundResult, RoundOutcome

LEMMA FinishedResultsType ==
  ASSUME NEW h \in HandType, Len(h.rounds) \in 1..3
  PROVE  /\ FinishedResults(h) \in Seq(RoundOutcome)
         /\ Len(FinishedResults(h)) =
              IF RoundFinished(h.rounds[Len(h.rounds)])
              THEN Len(h.rounds) ELSE Len(h.rounds) - 1
<1> DEFINE n == IF RoundFinished(h.rounds[Len(h.rounds)])
                THEN Len(h.rounds) ELSE Len(h.rounds) - 1
<1>1. n \in Nat
  <2>1. \A k \in 1..3 : k \in Nat /\ k - 1 \in Nat
    OBVIOUS
  <2> QED BY <2>1
<1>2. FinishedResults(h) = [i \in 1..n |-> RoundResult(h.rounds[i], h.vira)]
  BY DEF FinishedResults
<1>3. \A i \in 1..n : RoundResult(h.rounds[i], h.vira) \in RoundOutcome
  BY RoundResultType
<1>4. [i \in 1..n |-> RoundResult(h.rounds[i], h.vira)] \in [1..n -> RoundOutcome]
  BY <1>3
<1> HIDE DEF n
<1>5. FinishedResults(h) \in Seq(RoundOutcome) /\ Len(FinishedResults(h)) = n
  BY <1>1, <1>2, <1>4, SeqDef, LenProperties
<1> QED BY <1>5 DEF n

LEMMA HandWinnerType ==
  ASSUME NEW rs \in Seq(RoundOutcome), Len(rs) \in 0..3
  PROVE  /\ HandWinner(rs) \in Team \cup {None}
         /\ Len(rs) = 3 => HandWinner(rs) \in Team
         /\ Len(rs) = 0 => HandWinner(rs) = None
<1>1. \A i \in 1..Len(rs) : rs[i] \in {"P1", "P2", "TIE"}
  BY DEF RoundOutcome, Team
<1> QED BY <1>1 DEF HandWinner, Team, None

-----------------------------------------------------------------------------
(* The bet operations keep a hand well formed *)

\* What no bet operation touches.
SameTable(h, g) ==
  /\ g.rounds = h.rounds /\ g.vira = h.vira

\* What no operation of a dealt hand touches.
SameKind(h, g) == g.special = h.special /\ g.decider = h.decider

LEMMA SameTableRounds ==
  ASSUME NEW h \in HandType, NEW g \in HandType, SameTable(h, g), RoundsOK(h),
         ~h.finished
  PROVE  RoundsOK(g)
<1>1. FinishedResults(g) = FinishedResults(h)
  BY DEF FinishedResults, SameTable
<1>2. \A t \in Team : HandWinner(FinishedResults(h)) # t
  BY DEF RoundsOK
<1> QED BY <1>1, <1>2 DEF RoundsOK, SameTable

LEMMA RequestOK ==
  ASSUME NEW h, HandOK(h), NEW team \in Team, NEW v \in {3, 6, 9, 12},
         MayRequest(h, team, v)
  PROVE  HandOK(AfterRequest(h, team, v)) /\ ~AfterRequest(h, team, v).finished
         /\ SameKind(h, AfterRequest(h, team, v))
<1> DEFINE g == AfterRequest(h, team, v)
<1>1. h \in HandType /\ Ladder(h) /\ RoundsOK(h) /\ ~h.finished
  BY DEF HandOK, MayRequest, CanChangeBet
<1>2. g \in HandType
  <2>1. h.betState = "awaiting_response" => h.pending \in Value
    BY <1>1 DEF Ladder, HandType
  <2>2. v \in Value
    BY DEF Value
  <2> QED BY <1>1, <2>1, <2>2 DEF AfterRequest, HandType
<1>3. SameTable(h, g) /\ SameKind(h, g)
  BY <1>1 DEF AfterRequest, HandType, SameTable, SameKind
<1>4. Ladder(g)
  BY <1>1 DEF AfterRequest, HandType, Ladder, MayRequest, CanChangeBet, NextValue,
              Team, None, Value
<1>5. ~g.finished
  BY <1>1 DEF AfterRequest, HandType
<1> QED BY <1>1, <1>2, <1>3, <1>4, <1>5, SameTableRounds DEF HandOK

LEMMA AcceptOK ==
  ASSUME NEW h, HandOK(h), NEW team \in Team, MayAnswer(h, team)
  PROVE  /\ HandOK(AfterAccept(h, team)) /\ ~AfterAccept(h, team).finished
         /\ SameKind(h, AfterAccept(h, team))
<1> DEFINE g == AfterAccept(h, team)
<1>1. h \in HandType /\ Ladder(h) /\ RoundsOK(h) /\ ~h.finished
  BY DEF HandOK, MayAnswer, CanChangeBet
<1>2. g \in HandType
  <2>1. h.pending \in Value
    BY <1>1 DEF Ladder, HandType, MayAnswer
  <2> QED BY <1>1, <2>1 DEF AfterAccept, HandType
<1>3. SameTable(h, g) /\ SameKind(h, g) /\ ~g.finished
  BY <1>1 DEF AfterAccept, HandType, SameTable, SameKind
<1>4. Ladder(g)
  BY <1>1 DEF AfterAccept, HandType, Ladder, MayAnswer, CanChangeBet, NextValue,
              Team, None, Value
<1> QED BY <1>1, <1>2, <1>3, <1>4, SameTableRounds DEF HandOK

LEMMA AcceptOnzeOK ==
  ASSUME NEW h, HandOK(h), ~h.finished, NEW team \in Team, MayDecideOnze(h, team)
  PROVE  /\ HandOK(AfterAcceptOnze(h)) /\ ~AfterAcceptOnze(h).finished
         /\ SameKind(h, AfterAcceptOnze(h))
<1> DEFINE g == AfterAcceptOnze(h)
<1>1. h \in HandType /\ Ladder(h) /\ RoundsOK(h)
  BY DEF HandOK
<1>2. g \in HandType
  BY <1>1 DEF AfterAcceptOnze, HandType, Value
<1>3. SameTable(h, g) /\ SameKind(h, g) /\ ~g.finished
  BY <1>1 DEF AfterAcceptOnze, HandType, SameTable, SameKind
<1>4. Ladder(g)
  BY <1>1 DEF AfterAcceptOnze, HandType, Ladder, MayDecideOnze, Team, None, Value
<1> QED BY <1>1, <1>2, <1>3, <1>4, SameTableRounds DEF HandOK

LEMMA FinishLadder ==
  ASSUME NEW h \in HandType, Ladder(h), ~h.finished, NEW w \in Team,
         h.special = "mao_de_onze" /\ h.value = 1 => w = Opponent(h.decider)
  PROVE  LET g == FinishWithWinner(h, w, h.value)
         IN  /\ g \in HandType /\ Ladder(g) /\ SameTable(h, g) /\ SameKind(h, g)
             /\ g.finished /\ g.winner = w
<1> DEFINE g == FinishWithWinner(h, w, h.value)
<1>1. g \in HandType
  BY DEF FinishWithWinner, HandType
<1>2. SameTable(h, g) /\ SameKind(h, g) /\ g.finished /\ g.winner = w
  BY DEF FinishWithWinner, HandType, SameTable, SameKind
<1>3. Ladder(g)
  BY DEF FinishWithWinner, HandType, Ladder, Team, None, Value
<1> QED BY <1>1, <1>2, <1>3

LEMMA FinishOK ==
  ASSUME NEW h, HandOK(h), ~h.finished, NEW w \in Team,
         h.special = "mao_de_onze" /\ h.value = 1 => w = Opponent(h.decider)
  PROVE  LET g == FinishWithWinner(h, w, h.value)
         IN  HandOK(g) /\ g.finished /\ SameKind(h, g)
BY FinishLadder, SameTableRounds DEF HandOK

LEMMA DeclineOK ==
  ASSUME NEW h, HandOK(h), NEW team \in Team, MayAnswer(h, team)
  PROVE  HandOK(AfterDecline(h)) /\ AfterDecline(h).finished
         /\ SameKind(h, AfterDecline(h))
<1>1. /\ h \in HandType /\ Ladder(h) /\ ~h.finished
      /\ h.betState = "awaiting_response"
  BY DEF HandOK, MayAnswer, CanChangeBet
<1>2. h.requestedBy \in Team /\ h.special # "mao_de_onze"
  BY <1>1 DEF Ladder
<1> QED BY <1>1, <1>2, FinishOK DEF AfterDecline

LEMMA DeclineOnzeOK ==
  ASSUME NEW h, HandOK(h), ~h.finished, NEW team \in Team, MayDecideOnze(h, team)
  PROVE  LET g == AfterDeclineOnze(h, team)
         IN  HandOK(g) /\ g.finished /\ SameKind(h, g)
<1>1. h.value = 1 /\ h.decider = team
  BY DEF HandOK, Ladder, MayDecideOnze
<1>2. Opponent(team) \in Team
  BY DEF Opponent, Team
<1> QED BY <1>1, <1>2, FinishOK DEF AfterDeclineOnze

-----------------------------------------------------------------------------
(* A card play keeps a hand well formed *)

\* Replacing the open round by one more play.
LEMMA PlayedRounds ==
  ASSUME NEW rounds \in Seq(Seq(PlayRecord)), Len(rounds) \in 1..3,
         NEW owner \in Owners, NEW card \in Card
  PROVE  LET n == Len(rounds)
             open == Append(Last(rounds), Play(owner, card))
             new == Append(Front(rounds), open)
         IN  /\ open \in Seq(PlayRecord)
             /\ new \in Seq(Seq(PlayRecord)) /\ Len(new) = n
             /\ new[n] = open
             /\ \A i \in 1..(n - 1) : new[i] = rounds[i]
<1> DEFINE n == Len(rounds)
           open == Append(Last(rounds), Play(owner, card))
           new == Append(Front(rounds), open)
<1>1. Last(rounds) \in Seq(PlayRecord) /\ Play(owner, card) \in PlayRecord
  <2>1. Play(owner, card) \in PlayRecord
    BY SMTT(30) DEF Play, PlayRecord
  <2>2. rounds[Len(rounds)] \in Seq(PlayRecord)
    <3>1. \A k \in 1..3 : k \in 1..k
      OBVIOUS
    <3>2. Len(rounds) \in 1..Len(rounds)
      BY <3>1
    <3> QED BY ONLY <3>2, ElementOfSeq, rounds \in Seq(Seq(PlayRecord))
  <2> QED BY <2>1, <2>2 DEF Last
<1>2. open \in Seq(PlayRecord)
  BY <1>1, AppendProperties
<1>3. /\ Front(rounds) \in Seq(Seq(PlayRecord)) /\ Len(Front(rounds)) = n - 1
      /\ \A i \in 1..(n - 1) : Front(rounds)[i] = rounds[i]
  <2>1. n \in 1..3 /\ n - 1 \in Int /\ 1 \in Int
    OBVIOUS
  <2>2. \A i \in 1..(n - 1) : rounds[i] \in Seq(PlayRecord)
    BY <2>1, ElementOfSeq
  <2> HIDE DEF n
  <2>3. /\ SubSeq(rounds, 1, n - 1) \in Seq(Seq(PlayRecord))
        /\ Len(SubSeq(rounds, 1, n - 1)) = n - 1
        /\ \A i \in 1..(n - 1) : SubSeq(rounds, 1, n - 1)[i] = rounds[i]
    <3>1. /\ SubSeq(rounds, 1, n - 1) \in Seq(Seq(PlayRecord))
          /\ Len(SubSeq(rounds, 1, n - 1)) = IF 1 <= n - 1 THEN (n - 1) - 1 + 1 ELSE 0
          /\ \A i \in 1..((n - 1) - 1 + 1) :
               SubSeq(rounds, 1, n - 1)[i] = rounds[1 + i - 1]
      BY <2>1, <2>2, SubSeqProperties
    <3> QED BY <2>1, <3>1
  <2> QED BY <2>3 DEF Front, n
<1> HIDE DEF open
<1>4. /\ new \in Seq(Seq(PlayRecord)) /\ Len(new) = n /\ new[n] = open
      /\ \A i \in 1..(n - 1) : new[i] = rounds[i]
  BY <1>2, <1>3, AppendProperties
<1> QED BY <1>2, <1>4 DEF open

LEMMA SameResults ==
  ASSUME NEW h \in HandType, NEW g \in HandType, h.vira = g.vira,
         Len(h.rounds) \in 1..3, Len(g.rounds) \in 1..3,
         Len(FinishedResults(h)) = Len(FinishedResults(g)),
         \A i \in 1..Len(FinishedResults(h)) : h.rounds[i] = g.rounds[i]
  PROVE  FinishedResults(h) = FinishedResults(g)
<1>1. \A i \in 1..Len(FinishedResults(h)) :
         /\ FinishedResults(h)[i] = RoundResult(h.rounds[i], h.vira)
         /\ FinishedResults(g)[i] = RoundResult(g.rounds[i], g.vira)
  <2>1. /\ DOMAIN FinishedResults(h) = 1..Len(FinishedResults(h))
        /\ DOMAIN FinishedResults(g) = 1..Len(FinishedResults(g))
    BY FinishedResultsType, LenProperties
  <2> QED BY <2>1 DEF FinishedResults
<1> QED BY <1>1, FinishedResultsType, SeqEqual

LEMMA PlayOK ==
  ASSUME NEW h, HandOK(h), NEW owner \in Owners, NEW card \in Card,
         MayPlay(h, owner, card)
  PROVE  HandOK(AfterPlay(h, owner, card)) /\ SameKind(h, AfterPlay(h, owner, card))
<1> DEFINE n == Len(h.rounds)
           open == Append(Last(h.rounds), Play(owner, card))
           new == Append(Front(h.rounds), open)
           played == [h EXCEPT !.cards[owner] = @ \ {card},
                               !.rounds = Append(Front(@), open)]
           winner == HandWinner(FinishedResults(played))
           g == AfterPlay(h, owner, card)
<1>1. /\ h \in HandType /\ Ladder(h) /\ RoundsOK(h)
      /\ ~h.finished /\ ~h.decisionPending /\ n \in 1..3
      /\ h.rounds \in Seq(Seq(PlayRecord))
  BY DEF HandOK, MayPlay, RoundsOK, HandType
<1>2. /\ open \in Seq(PlayRecord)
      /\ new \in Seq(Seq(PlayRecord)) /\ Len(new) = n /\ new[n] = open
      /\ \A i \in 1..(n - 1) : new[i] = h.rounds[i]
  BY <1>1, PlayedRounds
<1> HIDE DEF open
<1>3. played.rounds = new /\ played.vira = h.vira /\ SameKind(h, played)
  BY <1>1 DEF HandType, SameKind
<1>4. played \in HandType
  <2>1. [h.cards EXCEPT ![owner] = @ \ {card}] \in [Owners -> SUBSET Card]
    BY <1>1 DEF HandType
  <2> QED BY <1>1, <1>2, <2>1 DEF HandType
<1>5. Ladder(played) /\ ~played.finished /\ ~played.decisionPending
      /\ played.value = h.value
  BY <1>1 DEF HandType, Ladder
<1>6. g = IF ~RoundFinished(open) THEN played
          ELSE IF winner # None THEN FinishWithWinner(played, winner, h.value)
          ELSE IF Len(played.rounds) < 3
               THEN [played EXCEPT !.rounds = Append(@, <<>>)]
          ELSE played
  BY DEF AfterPlay, open
<1> HIDE DEF new, played
<1>7. /\ \A i \in 1..(n - 1) : RoundFinished(h.rounds[i])
      /\ ~RoundFinished(h.rounds[n])
      /\ Len(FinishedResults(h)) = n - 1
      /\ \A t \in Team : HandWinner(FinishedResults(h)) # t
  BY <1>1, FinishedResultsType DEF RoundsOK
<1>8. CASE ~RoundFinished(open)
  <2>1. g = played
    BY <1>6, <1>8
  <2>2. Len(FinishedResults(played)) = n - 1
    BY <1>2, <1>3, <1>4, <1>8, <1>1, FinishedResultsType
  <2>3. FinishedResults(played) = FinishedResults(h)
    <3>1. \A i \in 1..Len(FinishedResults(played)) : played.rounds[i] = h.rounds[i]
      BY <1>2, <1>3, <2>2
    <3>2. Len(played.rounds) \in 1..3 /\ Len(h.rounds) \in 1..3
      BY <1>1, <1>2, <1>3
    <3>3. Len(FinishedResults(played)) = Len(FinishedResults(h))
      BY <1>7, <2>2
    <3> QED BY <1>1, <1>3, <1>4, <3>1, <3>2, <3>3, SameResults
  <2>4. RoundsOK(played)
    BY <1>1, <1>2, <1>3, <1>7, <1>8, <2>3 DEF RoundsOK
  <2> QED BY <1>3, <1>4, <1>5, <2>1, <2>4 DEF HandOK
<1>9. CASE RoundFinished(open)
  <2>1. /\ FinishedResults(played) \in Seq(RoundOutcome)
        /\ Len(FinishedResults(played)) = n
    BY <1>1, <1>2, <1>3, <1>4, <1>9, FinishedResultsType
  <2>2. winner \in Team \cup {None} /\ (n = 3 => winner \in Team)
    BY <1>1, <2>1, HandWinnerType
  <2>3. \A i \in 1..n : RoundFinished(new[i])
    <3>1. \A i \in 1..n : i = n \/ i \in 1..(n - 1)
      BY <1>1
    <3> QED BY <1>2, <1>7, <1>9, <3>1
  <2>4. CASE winner # None
    <3>1. g = FinishWithWinner(played, winner, played.value) /\ winner \in Team
      BY <1>5, <1>6, <1>9, <2>2, <2>4
    <3>2. ~(played.special = "mao_de_onze" /\ played.value = 1)
      BY <1>5 DEF Ladder
    <3>3. /\ g \in HandType /\ Ladder(g) /\ SameTable(played, g)
          /\ SameKind(played, g) /\ g.finished /\ g.winner = winner
      BY <1>4, <1>5, <3>1, <3>2, FinishLadder
    <3>4. FinishedResults(g) = FinishedResults(played)
      BY <3>3 DEF SameTable, FinishedResults
    <3>5. RoundsOK(g)
      BY <1>1, <1>2, <1>3, <2>3, <3>3, <3>4 DEF RoundsOK, SameTable
    <3> QED BY <1>3, <3>3, <3>5 DEF HandOK, SameKind
  <2>5. CASE winner = None
    <3>1. n \in 1..2
      BY <1>1, <2>2, <2>5 DEF Team, None
    <3>2. g = [played EXCEPT !.rounds = Append(new, <<>>)]
      BY <1>2, <1>3, <1>6, <1>9, <2>5, <3>1
    <3>3. /\ Append(new, <<>>) \in Seq(Seq(PlayRecord))
          /\ Len(Append(new, <<>>)) = n + 1
          /\ Append(new, <<>>)[n + 1] = <<>>
          /\ \A i \in 1..n : Append(new, <<>>)[i] = new[i]
      BY <1>1, <1>2, AppendProperties
    <3>4. /\ g \in HandType /\ Ladder(g) /\ SameKind(played, g)
          /\ ~g.finished /\ g.vira = played.vira
          /\ g.rounds = Append(new, <<>>)
      BY <1>4, <1>5, <3>2, <3>3 DEF HandType, Ladder, SameKind
    <3>a. Len(g.rounds) = n + 1
      BY <3>3, <3>4
    <3>b. n + 1 \in 1..3 /\ (n + 1) - 1 = n
      <4> HIDE DEF n
      <4> QED BY <3>1
    <3>5. ~RoundFinished(<<>>)
      BY OwnersCount DEF RoundFinished
    <3>6. Len(FinishedResults(g)) = n
      <4>1. Len(g.rounds) = n + 1 /\ Len(g.rounds) \in 1..3
        BY <3>a, <3>b
      <4>2. ~RoundFinished(g.rounds[Len(g.rounds)])
        BY <3>3, <3>4, <3>5, <4>1
      <4>3. Len(FinishedResults(g)) = (n + 1) - 1
        BY <3>4, <4>1, <4>2, FinishedResultsType
      <4> QED BY <3>1, <4>3
    <3>7. FinishedResults(g) = FinishedResults(played)
      <4>1. \A i \in 1..Len(FinishedResults(g)) : g.rounds[i] = played.rounds[i]
        BY <1>3, <3>3, <3>4, <3>6
      <4>2. Len(g.rounds) \in 1..3 /\ Len(played.rounds) \in 1..3
        BY <1>1, <1>2, <1>3, <3>a, <3>b
      <4> QED BY <1>4, <2>1, <3>4, <3>6, <4>1, <4>2, SameResults
    <3>8. \A t \in Team : HandWinner(FinishedResults(g)) # t
      BY <2>5, <3>7 DEF Team, None
    <3>9. RoundsOK(g)
      <4>1. Len(g.rounds) = n + 1 /\ Len(g.rounds) \in 1..3
            /\ Len(g.rounds) - 1 = n
        BY <3>a, <3>b
      <4>2. \A i \in 1..n : RoundFinished(g.rounds[i])
        BY <2>3, <3>3, <3>4
      <4>3. ~RoundFinished(g.rounds[Len(g.rounds)])
        BY <3>3, <3>4, <3>5, <4>1
      <4> QED BY <3>8, <4>1, <4>2, <4>3 DEF RoundsOK
    <3> QED BY <1>3, <3>4, <3>9 DEF HandOK, SameKind
  <2> QED BY <2>4, <2>5
<1> QED BY <1>8, <1>9

-----------------------------------------------------------------------------
(* A dealt hand is well formed *)

LEMMA NewHandOK ==
  ASSUME NEW deal \in Deals,
         NEW special \in {"normal", "mao_de_onze", "mao_de_ferro"},
         NEW decider \in Team \cup {None},
         special = "mao_de_onze" <=> decider \in Team
  PROVE  LET g == NewHand(deal, special, decider)
         IN  HandOK(g) /\ ~g.finished /\ g.special = special /\ g.decider = decider
<1> DEFINE g == NewHand(deal, special, decider)
<1>1. deal.vira \in Rank /\ deal.cards \in [Owners -> SUBSET Card]
  BY DealsAssumption DEF Deal
<1>2. << <<>> >> \in Seq(Seq(PlayRecord)) /\ Len(<< <<>> >>) = 1
      /\ << <<>> >>[1] = <<>>
  OBVIOUS
<1>3. g \in HandType /\ g.rounds = << <<>> >> /\ ~g.finished
      /\ g.special = special /\ g.decider = decider
  BY <1>1, <1>2 DEF NewHand, HandType, Value, None, Team
<1>4. Ladder(g)
  BY DEF NewHand, Ladder, NextValue, None, Team
<1>5. ~RoundFinished(<<>>)
  BY OwnersCount DEF RoundFinished
<1> HIDE DEF g
<1>6. FinishedResults(g) \in Seq(RoundOutcome) /\ Len(FinishedResults(g)) = 0
  <2>1. Len(g.rounds) = 1 /\ 1 \in 1..3 /\ g.rounds[1] = <<>>
    BY <1>2, <1>3
  <2>2. ~RoundFinished(g.rounds[Len(g.rounds)])
    BY <1>5, <2>1
  <2>3. /\ FinishedResults(g) \in Seq(RoundOutcome)
        /\ Len(FinishedResults(g)) = 1 - 1
    BY <1>3, <2>1, <2>2, FinishedResultsType
  <2> QED BY <2>3
<1>7. HandWinner(FinishedResults(g)) = None
  <2>1. 0 \in 0..3
    OBVIOUS
  <2> QED BY <1>6, <2>1, HandWinnerType
<1>8. RoundsOK(g)
  BY <1>2, <1>3, <1>5, <1>7 DEF RoundsOK, Team, None
<1> QED BY <1>3, <1>4, <1>8 DEF g, HandOK

LEMMA InitialHandOK ==
  ASSUME NEW deal \in Deals, NEW sc \in [Team -> Nat]
  PROVE  LET g == InitialHand(deal, sc)
         IN  /\ HandOK(g) /\ ~g.finished
             /\ g.special = "mao_de_onze" <=>
                  \E t \in Team : sc[t] = 11 /\ sc[Opponent(t)] < 11
             /\ g.special = "mao_de_onze" => sc[g.decider] = 11
             /\ g.special = "mao_de_ferro" <=> \A t \in Team : sc[t] = 11
<1>1. sc["P1"] \in Nat /\ sc["P2"] \in Nat
  BY DEF Team
<1>2. CASE sc["P1"] = 11 /\ sc["P2"] = 11
  <2>1. InitialHand(deal, sc) = NewHand(deal, "mao_de_ferro", None)
    BY <1>2 DEF InitialHand
  <2> QED BY <1>2, <2>1, NewHandOK DEF Team, None, Opponent
<1>3. CASE sc["P1"] = 11 /\ sc["P2"] < 11
  <2>1. InitialHand(deal, sc) = NewHand(deal, "mao_de_onze", "P1")
    BY <1>1, <1>3 DEF InitialHand
  <2> QED BY <1>1, <1>3, <2>1, NewHandOK DEF Team, None, Opponent
<1>4. CASE sc["P2"] = 11 /\ sc["P1"] < 11
  <2>1. InitialHand(deal, sc) = NewHand(deal, "mao_de_onze", "P2")
    BY <1>1, <1>4 DEF InitialHand
  <2> QED BY <1>1, <1>4, <2>1, NewHandOK DEF Team, None, Opponent
<1>5. CASE /\ ~(sc["P1"] = 11 /\ sc["P2"] <= 11)
           /\ ~(sc["P2"] = 11 /\ sc["P1"] <= 11)
  <2>1. InitialHand(deal, sc) = NewHand(deal, "normal", None)
    BY <1>1, <1>5 DEF InitialHand
  <2> QED BY <1>1, <1>5, <2>1, NewHandOK DEF Team, None, Opponent
<1> QED BY <1>1, <1>2, <1>3, <1>4, <1>5

-----------------------------------------------------------------------------
(* The inductive invariant *)

LEMMA InitInv == Init => IInv
<1> SUFFICES ASSUME Init PROVE IInv
  OBVIOUS
<1>1. score \in [Team -> Nat] /\ \A t \in Team : score[t] < PointsToWin
  BY ScoresAssumption, PointsAssumption DEF Init
<1>2. NoHand.finished = TRUE /\ "P1" \in Team
  BY DEF NoHand, Team
<1>3. state = "waiting" /\ hand = NoHand
  BY DEF Init
<1>4. TypeOK
  BY <1>1, <1>3 DEF TypeOK
<1>5. OneWinner
  <2>1. \A t \in Team : ~(score[t] >= PointsToWin)
    BY <1>1, PointsAssumption
  <2> QED BY <1>1, <1>2, <1>3, <2>1 DEF OneWinner
<1>6. HandOpenIffInProgress /\ SpecialHandFitsScore
  BY <1>2, <1>3 DEF HandOpenIffInProgress, SpecialHandFitsScore
<1> QED
  BY <1>3, <1>4, <1>5, <1>6 DEF IInv

LEMMA LiveHand ==
  ASSUME IInv, state = "in_progress"
  PROVE  /\ hand # NoHand /\ HandOK(hand) /\ ~hand.finished
         /\ score \in [Team -> Nat] /\ \A t \in Team : score[t] < PointsToWin
<1>1. ~hand.finished
  BY DEF IInv, HandOpenIffInProgress
<1>2. hand # NoHand
  BY <1>1 DEF NoHand
<1>3. score \in [Team -> Nat] /\ \A t \in Team : ~(score[t] >= PointsToWin)
  BY DEF IInv, OneWinner, TypeOK
<1>4. \A t \in Team : score[t] \in Nat
  BY <1>3
<1> QED BY <1>1, <1>2, <1>3, <1>4, PointsAssumption DEF IInv

LEMMA NotNoHand ==
  ASSUME NEW h \in HandType
  PROVE  h # NoHand
<1>1. "value" \in DOMAIN h /\ "value" \notin DOMAIN NoHand
  BY DEF HandType, NoHand
<1> QED BY <1>1

\* A step within a live hand.
LEMMA LiveStep ==
  ASSUME IInv, state = "in_progress", NEW g, hand' = g,
         HandOK(g), ~g.finished, SameKind(hand, g), UNCHANGED <<state, score>>
  PROVE  IInv'
<1>1. g \in HandType /\ g # NoHand
  BY NotNoHand DEF HandOK
<1>2. TypeOK'
  BY <1>1 DEF IInv, TypeOK
<1>3. (hand # NoHand => HandOK(hand))'
  BY <1>1
<1>4. HandOpenIffInProgress'
  BY DEF HandOpenIffInProgress
<1>5. OneWinner'
  BY DEF IInv, OneWinner
<1>6. SpecialHandFitsScore'
  BY DEF IInv, SpecialHandFitsScore, SameKind
<1> QED BY <1>2, <1>3, <1>4, <1>5, <1>6 DEF IInv

\* A step that may end the hand.
LEMMA ResolveStep ==
  ASSUME IInv, state = "in_progress", NEW g, HandOK(g), SameKind(hand, g),
         Resolve(g)
  PROVE  IInv'
<1>1. CASE ~g.finished
  BY <1>1, LiveStep DEF Resolve
<1>2. CASE g.finished
  <2>1. /\ g \in HandType /\ g # NoHand /\ hand' = g /\ Ladder(g)
        /\ score' = [score EXCEPT ![g.winner] = @ + g.awarded]
        /\ state' = IF \E t \in Team : score'[t] >= PointsToWin
                    THEN "finished" ELSE "waiting"
    BY <1>2, NotNoHand DEF HandOK, Resolve
  <2>2. g.winner \in Team /\ g.awarded \in {1, 3, 6, 9, 12}
    BY <1>2, <2>1 DEF Ladder, HandType, Value
  <2>3. /\ hand # NoHand /\ score \in [Team -> Nat]
        /\ \A t \in Team : score[t] < PointsToWin
    BY LiveHand
  <2>4. /\ score' \in [Team -> Nat]
        /\ score'[g.winner] = score[g.winner] + g.awarded
        /\ \A t \in Team \ {g.winner} : score'[t] = score[t]
    BY <2>1, <2>2, <2>3
  <2>5. TypeOK'
    BY <2>1, <2>4 DEF TypeOK
  <2>6. (hand # NoHand => HandOK(hand))'
    BY <2>1
  <2>7. HandOpenIffInProgress'
    BY <1>2, <2>1 DEF HandOpenIffInProgress
  <2>8. OneWinner'
    <3>1. Opponent(g.winner) \in Team \ {g.winner}
      BY <2>2 DEF Opponent, Team
    <3>2. score'[Opponent(g.winner)] < PointsToWin
      BY <2>3, <2>4, <3>1
    <3>3. state' = "finished" <=> \E t \in Team : score'[t] >= PointsToWin
      BY <2>1
    <3> QED BY <3>1, <3>2, <3>3 DEF OneWinner
  <2>9. SpecialHandFitsScore'
    <3>1. SUFFICES ASSUME state' = "waiting", PointsToWin <= 12
                   PROVE  g.special # "mao_de_ferro"
      BY <2>1 DEF SpecialHandFitsScore
    <3>2. ~(score'[g.winner] >= PointsToWin)
      BY <2>1, <2>2, <3>1
    <3>3. score[g.winner] # 11
      BY <2>2, <2>3, <2>4, <3>1, <3>2, PointsAssumption
    <3>4. hand.special # "mao_de_ferro"
      BY <2>2, <3>3 DEF IInv, SpecialHandFitsScore
    <3> QED BY <3>4 DEF SameKind
  <2> QED BY <2>5, <2>6, <2>7, <2>8, <2>9 DEF IInv
<1> QED BY <1>1, <1>2

LEMMA StartStep ==
  ASSUME IInv, Start
  PROVE  IInv'
<1>1. PICK deal \in Deals : hand' = InitialHand(deal, score)
  BY DEF Start
<1>2. score \in [Team -> Nat] /\ score' = score /\ state = "waiting"
      /\ state' = "in_progress"
  BY DEF IInv, TypeOK, Start
<1>3. /\ HandOK(hand') /\ ~hand'.finished
      /\ hand'.special = "mao_de_onze" <=>
           \E t \in Team : score[t] = 11 /\ score[Opponent(t)] < 11
      /\ hand'.special = "mao_de_onze" => score[hand'.decider] = 11
      /\ hand'.special = "mao_de_ferro" <=> \A t \in Team : score[t] = 11
  BY <1>1, <1>2, InitialHandOK
<1>4. (hand # NoHand => HandOK(hand))' /\ TypeOK'
  BY <1>2, <1>3 DEF HandOK, TypeOK
<1>5. HandOpenIffInProgress'
  BY <1>2, <1>3 DEF HandOpenIffInProgress
<1>6. OneWinner'
  BY <1>2 DEF IInv, OneWinner
<1>7. SpecialHandFitsScore'
  BY <1>2, <1>3 DEF SpecialHandFitsScore
<1> QED BY <1>4, <1>5, <1>6, <1>7 DEF IInv

LEMMA NextInv == IInv /\ [Next]_vars => IInv'
<1> SUFFICES ASSUME IInv, [Next]_vars PROVE IInv'
  OBVIOUS
<1>1. CASE Start
  BY <1>1, StartStep
<1>2. ASSUME NEW owner \in Owners, NEW card \in Card, PlayCard(owner, card)
      PROVE  IInv'
  BY <1>2, LiveHand, PlayOK, ResolveStep DEF PlayCard
<1>3. ASSUME NEW team \in Team, NEW v \in {3, 6, 9, 12}, RequestBet(team, v)
      PROVE  IInv'
  BY <1>3, LiveHand, RequestOK, LiveStep DEF RequestBet
<1>4. ASSUME NEW team \in Team, AcceptBet(team)
      PROVE  IInv'
  BY <1>4, LiveHand, AcceptOK, LiveStep DEF AcceptBet
<1>5. ASSUME NEW team \in Team, DeclineBet(team)
      PROVE  IInv'
  BY <1>5, LiveHand, DeclineOK, ResolveStep DEF DeclineBet
<1>6. ASSUME NEW team \in Team, AcceptMaoDeOnze(team)
      PROVE  IInv'
  BY <1>6, LiveHand, AcceptOnzeOK, LiveStep DEF AcceptMaoDeOnze
<1>7. ASSUME NEW team \in Team, DeclineMaoDeOnze(team)
      PROVE  IInv'
  BY <1>7, LiveHand, DeclineOnzeOK, ResolveStep DEF DeclineMaoDeOnze
<1>8. CASE UNCHANGED vars
  BY <1>8 DEF vars, IInv, TypeOK, HandOpenIffInProgress, OneWinner,
              SpecialHandFitsScore
<1> QED BY <1>1, <1>2, <1>3, <1>4, <1>5, <1>6, <1>7, <1>8 DEF Next

LEMMA Invariance == Spec => []IInv
BY InitInv, NextInv, PTL DEF Spec

-----------------------------------------------------------------------------
(* What the invariant gives *)

LEMMA LadderKept == IInv => LadderInv
BY DEF IInv, HandOK, LadderInv

LEMMA NeverThrows == IInv => StateInvariants
<1> SUFFICES ASSUME IInv, hand # NoHand PROVE StateInvariants
  BY DEF StateInvariants
<1>1. hand \in HandType /\ Ladder(hand)
  BY DEF IInv, HandOK
<1> QED BY <1>1 DEF Ladder, StateInvariants, HandType, Team, None, Value

LEMMA EndsInTime == IInv => EndsWhenSecured
<1> SUFFICES ASSUME IInv, hand # NoHand PROVE EndsWhenSecured
  BY DEF EndsWhenSecured
<1>1. hand \in HandType /\ RoundsOK(hand) /\ Len(hand.rounds) \in 1..3 /\ Ladder(hand)
  BY DEF IInv, HandOK, RoundsOK
<1>2. /\ FinishedResults(hand) \in Seq(RoundOutcome)
      /\ \/ Len(FinishedResults(hand)) = Len(hand.rounds)
         \/ Len(FinishedResults(hand)) = Len(hand.rounds) - 1
  BY <1>1, FinishedResultsType
<1>3. Len(FinishedResults(hand)) \in 0..3
  <2>1. \A n \in 1..3 : n \in 0..3 /\ n - 1 \in 0..3
    OBVIOUS
  <2> QED BY <1>1, <1>2, <2>1
<1>4. \A t \in Team : HandWinner(FinishedResults(hand)) = t <=> Secured(FinishedResults(hand), t)
  BY <1>2, <1>3, HandWinnerSecured
<1>5. ASSUME NEW t \in Team, Secured(FinishedResults(hand), t)
      PROVE  hand.finished /\ hand.winner = t
  BY <1>1, <1>4, <1>5 DEF RoundsOK
<1>6. ASSUME hand.finished, RoundFinished(Last(hand.rounds))
      PROVE  Secured(FinishedResults(hand), hand.winner)
  <2>1. hand.winner \in Team
    BY <1>1, <1>6 DEF Ladder
  <2>2. HandWinner(FinishedResults(hand)) = hand.winner
    BY <1>1, <1>6 DEF RoundsOK, Last
  <2> QED BY <1>4, <2>1, <2>2
<1> QED BY <1>5, <1>6 DEF EndsWhenSecured

\* The step of HandsPaidOnce.
Paid ==
  /\ IF hand'.finished /\ ~hand.finished
     THEN /\ hand'.winner \in Team
          /\ score' = [score EXCEPT ![hand'.winner] = @ + hand.value]
     ELSE UNCHANGED score
  /\ hand.finished /\ hand' # hand => hand'.rounds = << <<>> >>

\* What resolveFinishedHandIfNeeded adds is what was agreed.
LEMMA ResolvePays ==
  ASSUME IInv, state = "in_progress", NEW g, HandOK(g), Resolve(g),
         g.finished => g.value = hand.value
  PROVE  Paid
<1>1. hand' = g /\ ~hand.finished
  BY LiveHand DEF Resolve
<1>2. g.finished => g.winner \in Team /\ g.awarded = g.value
  BY DEF HandOK, Ladder
<1> QED BY <1>1, <1>2 DEF Resolve, Paid

LEMMA StepPays ==
  ASSUME IInv, [Next]_vars
  PROVE  Paid
<1>a. ASSUME state = "in_progress" PROVE hand \in HandType /\ HandOK(hand) /\ ~hand.finished
  BY <1>a, LiveHand DEF HandOK
<1>b. ASSUME state = "in_progress", UNCHANGED state PROVE hand'.finished = FALSE
  <2>1. IInv' /\ state' = "in_progress"
    BY <1>b, NextInv
  <2> QED BY <2>1 DEF IInv, HandOpenIffInProgress
<1>1. CASE Start
  <2>1. hand.finished
    BY <1>1 DEF Start, IInv, HandOpenIffInProgress
  <2>2. hand'.rounds = << <<>> >> /\ ~hand'.finished
    BY <1>1 DEF Start, InitialHand, NewHand
  <2> QED BY <1>1, <2>1, <2>2 DEF Start, Paid
<1>2. ASSUME NEW owner \in Owners, NEW card \in Card, PlayCard(owner, card) PROVE Paid
  <2>1. /\ state = "in_progress" /\ hand \in HandType /\ MayPlay(hand, owner, card)
        /\ Resolve(AfterPlay(hand, owner, card)) /\ HandOK(AfterPlay(hand, owner, card))
    BY <1>2, <1>a, PlayOK DEF PlayCard
  <2>2. AfterPlay(hand, owner, card).value = hand.value
    BY <2>1 DEF AfterPlay, FinishWithWinner, HandType
  <2> QED BY <2>1, <2>2, ResolvePays
<1>3. ASSUME NEW team \in Team,
             \/ \E v \in {3, 6, 9, 12} : RequestBet(team, v)
             \/ AcceptBet(team) \/ AcceptMaoDeOnze(team)
      PROVE  Paid
  <2>1. state = "in_progress" /\ UNCHANGED <<state, score>>
    BY <1>3 DEF RequestBet, AcceptBet, AcceptMaoDeOnze
  <2> QED BY <1>a, <1>b, <2>1 DEF Paid
<1>4. ASSUME NEW team \in Team, DeclineBet(team) PROVE Paid
  <2>1. /\ state = "in_progress" /\ hand \in HandType
        /\ Resolve(AfterDecline(hand)) /\ HandOK(AfterDecline(hand))
    BY <1>4, <1>a, DeclineOK DEF DeclineBet
  <2>2. AfterDecline(hand).value = hand.value
    BY <2>1 DEF AfterDecline, FinishWithWinner, HandType
  <2> QED BY <2>1, <2>2, ResolvePays
<1>5. ASSUME NEW team \in Team, DeclineMaoDeOnze(team) PROVE Paid
  <2>1. /\ state = "in_progress" /\ hand \in HandType
        /\ Resolve(AfterDeclineOnze(hand, team)) /\ HandOK(AfterDeclineOnze(hand, team))
    BY <1>5, <1>a, DeclineOnzeOK DEF DeclineMaoDeOnze
  <2>2. AfterDeclineOnze(hand, team).value = hand.value
    BY <2>1 DEF AfterDeclineOnze, FinishWithWinner, HandType
  <2> QED BY <2>1, <2>2, ResolvePays
<1>6. CASE UNCHANGED vars
  BY <1>6 DEF vars, Paid
<1> QED BY <1>1, <1>2, <1>3, <1>4, <1>5, <1>6 DEF Next

-----------------------------------------------------------------------------
(* The properties the runs check, for every instance *)

(* The aggregate's fields keep their types.                                *)
THEOREM TypeCorrect == Spec => []TypeOK
<1>1. IInv => TypeOK
  BY DEF IInv
<1> QED BY <1>1, Invariance, PTL

(* Offers, agreed value and right to raise always fit each other.          *)
THEOREM LadderHolds == Spec => []LadderInv
BY LadderKept, Invariance, PTL

(* assertStateInvariants never throws.                                     *)
THEOREM AssertionsHold == Spec => []StateInvariants
BY NeverThrows, Invariance, PTL

(* A hand ends by cards exactly when it is secured, neither later nor      *)
(* earlier, for the right team: see EndsWhenSecured.                       *)
THEOREM EndsCorrectly == Spec => []EndsWhenSecured
BY EndsInTime, Invariance, PTL

(* A hand is paid in the step that ends it, to its winner, at the value    *)
(* that was agreed, nothing else changes the score, and what follows a     *)
(* hand that has ended is a new one: none is paid twice or not at all.     *)
THEOREM PaidOnce == Spec => HandsPaidOnce
<1>1. IInv /\ [Next]_vars => [Paid]_vars
  BY StepPays
<1>2. [][Paid]_vars => HandsPaidOnce
  BY PTL DEF Paid, HandsPaidOnce
<1> QED BY <1>1, <1>2, Invariance, PTL DEF Spec

(* The match ends as soon as a team reaches the target, and only one does. *)
THEOREM SingleWinner == Spec => []OneWinner
<1>1. IInv => OneWinner
  BY DEF IInv
<1> QED BY <1>1, Invariance, PTL

(* The kind of hand always fits the score it is played at.                 *)
THEOREM SpecialHands == Spec => []SpecialHandFitsScore
<1>1. IInv => SpecialHandFitsScore
  BY DEF IInv
<1> QED BY <1>1, Invariance, PTL

-----------------------------------------------------------------------------
(* The cards of a hand *)

\* Nobody plays twice in a round, no card is in two places, and every owner's
\* three cards are in hand or on the table.
CardsOK(h) ==
  /\ \A r \in DOMAIN h.rounds :
       /\ Len(h.rounds[r]) <= Cardinality(Owners)
       /\ \A i, j \in DOMAIN h.rounds[r] :
            h.rounds[r][i].owner = h.rounds[r][j].owner => i = j
  /\ \A o \in Owners : \A q \in Owners \ {o} : h.cards[o] \cap h.cards[q] = {}
  /\ \A o \in Owners : \A r \in DOMAIN h.rounds : \A i \in DOMAIN h.rounds[r] :
       h.rounds[r][i].card \notin h.cards[o]
  /\ \A o \in Owners :
       /\ IsFiniteSet(h.cards[o])
       /\ Cardinality(h.cards[o]) + Cardinality(Plays(h, o)) = 3

\* The inductive invariant of the cards, over that of the match.
CInv == IInv /\ (hand # NoHand => CardsOK(hand))

LEMMA PlaysFinite ==
  ASSUME NEW h, NEW o
  PROVE  IsFiniteSet(Plays(h, o)) /\ Cardinality(Plays(h, o)) \in Nat
<1>1. IsFiniteSet((1..3) \X (1..4))
  <2>1. 1 \in Int /\ 3 \in Int /\ 4 \in Int
    OBVIOUS
  <2>2. IsFiniteSet(1..3) /\ IsFiniteSet(1..4)
    BY <2>1, FS_Interval, Zenon
  <2> QED BY <2>2, FS_Product
<1>2. Plays(h, o) \in SUBSET ((1..3) \X (1..4))
  BY DEF Plays
<1> QED BY <1>1, <1>2, FS_Subset, FS_CardinalityType

LEMMA CardFinite == IsFiniteSet(Card)
<1>1. IsFiniteSet(Rank)
  <2>1. 0 \in Int /\ 9 \in Int
    OBVIOUS
  <2> QED BY <2>1, FS_Interval, Zenon DEF Rank
<1>2. IsFiniteSet(Suit)
  <2>1. IsFiniteSet({}) /\ Suit = {} \cup {"P"} \cup {"C"} \cup {"E"} \cup {"O"}
    BY FS_EmptySet DEF Suit
  <2> QED BY <2>1, FS_AddElement
<1>3. IsFiniteSet(Rank \X Suit)
  BY <1>1, <1>2, FS_Product
<1> DEFINE f == [p \in Rank \X Suit |-> [rank |-> p[1], suit |-> p[2]]]
<1>4. f \in [Rank \X Suit -> Card]
  BY DEF Card
<1>5. ASSUME NEW c \in Card
      PROVE  \E p \in Rank \X Suit : f[p] = c
  <2>1. c.rank \in Rank /\ c.suit \in Suit /\ c = [rank |-> c.rank, suit |-> c.suit]
    BY DEF Card
  <2>2. <<c.rank, c.suit>> \in Rank \X Suit /\ f[<<c.rank, c.suit>>] = c
    BY <2>1
  <2> QED BY <2>2
<1>6. f \in Surjection(Rank \X Suit, Card)
  BY <1>4, <1>5 DEF Surjection
<1> QED BY <1>3, <1>6, FS_Surjection

\* A round opened after the others moves no card.
LEMMA OpenedRoundCards ==
  ASSUME NEW h, CardsOK(h), h.rounds \in Seq(Seq(PlayRecord)),
         NEW g, g.cards = h.cards,
         g.rounds = h.rounds \/ g.rounds = Append(h.rounds, <<>>)
  PROVE  CardsOK(g)
<1> DEFINE n == Len(h.rounds)
<1>1. n \in Nat /\ DOMAIN h.rounds = 1..n
  BY LenProperties
<1>2. /\ DOMAIN g.rounds \in {1..n, 1..(n + 1)}
      /\ \A r \in 1..n : g.rounds[r] = h.rounds[r]
      /\ \A r \in DOMAIN g.rounds : r \in 1..n \/ g.rounds[r] = <<>>
  <2>1. CASE g.rounds = h.rounds
    BY <1>1, <2>1
  <2>2. CASE g.rounds = Append(h.rounds, <<>>)
    <3>1. /\ DOMAIN Append(h.rounds, <<>>) = 1..(n + 1)
          /\ \A r \in 1..n : Append(h.rounds, <<>>)[r] = h.rounds[r]
          /\ Append(h.rounds, <<>>)[n + 1] = <<>>
      BY <1>1, AppendProperties, <<>> \in Seq(PlayRecord), LenProperties
    <3> QED BY <1>1, <2>2, <3>1
  <2> QED BY <2>1, <2>2
<1>3. \A r \in DOMAIN g.rounds : r \in 1..n \/ DOMAIN g.rounds[r] = {}
  BY <1>2
<1>4. ASSUME NEW o PROVE Plays(g, o) = Plays(h, o)
  <2> HIDE DEF n
  <2> QED BY <1>1, <1>2, <1>3 DEF Plays
<1>5. /\ Len(<<>>) = 0 /\ Cardinality(Owners) \in Nat
  BY OwnersCount
<1> HIDE DEF n
<1>6. ASSUME NEW r \in DOMAIN g.rounds
      PROVE  /\ Len(g.rounds[r]) <= Cardinality(Owners)
             /\ \A i, j \in DOMAIN g.rounds[r] :
                  g.rounds[r][i].owner = g.rounds[r][j].owner => i = j
  <2>1. CASE r \in 1..n
    BY <1>1, <1>2, <2>1 DEF CardsOK
  <2>2. CASE r \notin 1..n
    BY <1>2, <1>3, <1>5, <2>2
  <2> QED BY <2>1, <2>2
<1>7. ASSUME NEW o \in Owners, NEW r \in DOMAIN g.rounds, NEW i \in DOMAIN g.rounds[r]
      PROVE  g.rounds[r][i].card \notin g.cards[o]
  BY <1>1, <1>2, <1>3 DEF CardsOK
<1> QED BY <1>4, <1>6, <1>7 DEF CardsOK

\* A card that is played leaves its owner's hand for the table.
LEMMA PlayedCards ==
  ASSUME NEW h \in HandType, Len(h.rounds) \in 1..3, CardsOK(h),
         NEW owner \in Owners, NEW card \in Card, MayPlay(h, owner, card),
         NEW g,
         g.cards = [h.cards EXCEPT ![owner] = @ \ {card}],
         g.rounds = Append(Front(h.rounds), Append(Last(h.rounds), Play(owner, card)))
  PROVE  CardsOK(g)
<1> DEFINE n == Len(h.rounds)
           open == Last(h.rounds)
           k == Len(open) + 1
<1>1. /\ h.rounds \in Seq(Seq(PlayRecord)) /\ h.cards \in [Owners -> SUBSET Card]
      /\ n \in 1..3 /\ DOMAIN h.rounds = 1..n /\ open = h.rounds[n]
      /\ card \in h.cards[owner]
      /\ \A i \in DOMAIN open : open[i].owner # owner
      /\ ~RoundFinished(open)
  BY LenProperties DEF HandType, MayPlay, Last
<1>2. /\ open \in Seq(PlayRecord) /\ Len(open) \in Nat /\ DOMAIN open = 1..(k - 1)
      /\ n \in DOMAIN h.rounds
  <2>1. n \in 1..n
    <3> HIDE DEF n
    <3> QED BY <1>1
  <2> HIDE DEF n
  <2>2. open \in Seq(PlayRecord)
    BY <1>1, <2>1, ElementOfSeq
  <2>3. Len(open) \in Nat /\ DOMAIN open = 1..Len(open)
    BY <2>2, LenProperties
  <2>4. (Len(open) + 1) - 1 = Len(open)
    BY <2>3
  <2> QED BY <1>1, <2>1, <2>2, <2>3, <2>4
<1>3. k \in 1..4 /\ k <= Cardinality(Owners)
  <2> HIDE DEF open
  <2>1. Len(open) < Cardinality(Owners) /\ Cardinality(Owners) \in {2, 4}
    BY <1>1, <1>2, OwnersCount DEF RoundFinished
  <2> QED BY <1>2, <2>1
<1>4. /\ DOMAIN g.rounds = 1..n
      /\ \A r \in 1..(n - 1) : g.rounds[r] = h.rounds[r]
      /\ DOMAIN g.rounds[n] = 1..k /\ Len(g.rounds[n]) = k
      /\ \A i \in 1..(k - 1) : g.rounds[n][i] = open[i]
      /\ g.rounds[n][k] = Play(owner, card)
  <2>1. /\ g.rounds \in Seq(Seq(PlayRecord)) /\ Len(g.rounds) = n
        /\ g.rounds[n] = Append(open, Play(owner, card))
        /\ \A r \in 1..(n - 1) : g.rounds[r] = h.rounds[r]
    <3>1. /\ h.rounds \in Seq(Seq(PlayRecord)) /\ Len(h.rounds) \in 1..3
          /\ owner \in Owners /\ card \in Card
      BY <1>1
    <3>2. LET m == Len(h.rounds)
              o == Append(Last(h.rounds), Play(owner, card))
              new == Append(Front(h.rounds), o)
          IN  /\ o \in Seq(PlayRecord)
              /\ new \in Seq(Seq(PlayRecord)) /\ Len(new) = m
              /\ new[m] = o
              /\ \A i \in 1..(m - 1) : new[i] = h.rounds[i]
      BY ONLY <3>1, PlayedRounds
    <3> QED BY <3>2
  <2>2. DOMAIN g.rounds = 1..n
    BY <2>1, LenProperties
  <2>3. Play(owner, card) \in PlayRecord
    BY SMTT(30) DEF Play, PlayRecord
  <2> HIDE DEF open, n
  <2>4. /\ Append(open, Play(owner, card)) \in Seq(PlayRecord)
        /\ Len(Append(open, Play(owner, card))) = k
        /\ \A i \in 1..(k - 1) : Append(open, Play(owner, card))[i] = open[i]
        /\ Append(open, Play(owner, card))[k] = Play(owner, card)
    BY <1>2, <2>3, AppendProperties
  <2>5. DOMAIN Append(open, Play(owner, card)) = 1..k
    BY <2>4, LenProperties
  <2> QED BY <2>1, <2>2, <2>4, <2>5
<1>5. Play(owner, card).owner = owner /\ Play(owner, card).card = card
  BY DEF Play
<1>6. /\ g.cards[owner] = h.cards[owner] \ {card}
      /\ \A o \in Owners \ {owner} : g.cards[o] = h.cards[o]
  BY <1>1
<1>7. \A r \in 1..n : r = n \/ r \in 1..(n - 1)
  BY <1>1
<1>8. \A i \in 1..k : i = k \/ i \in 1..(k - 1)
  BY <1>3
<1>9. k \notin 1..(k - 1) /\ n \notin 1..(n - 1) /\ n \in 1..n
  <2> HIDE DEF n, k
  <2> QED BY <1>1, <1>3
<1>10. /\ \A r \in 1..(n - 1) : r \in DOMAIN h.rounds
       /\ \A i \in 1..(k - 1) : i \in DOMAIN h.rounds[n]
       /\ n \in DOMAIN h.rounds /\ k \notin DOMAIN h.rounds[n]
       /\ \A i \in 1..(k - 1) : g.rounds[n][i] = h.rounds[n][i]
       /\ \A i \in DOMAIN h.rounds[n] : i \in 1..(k - 1)
  <2>1. n \in 1..3 /\ DOMAIN h.rounds = 1..n /\ open = h.rounds[n]
    BY <1>1
  <2> HIDE DEF n, k, open
  <2> QED BY <2>1, <1>2, <1>4, <1>9
<1> HIDE DEF n, open, k
<1>11. ASSUME NEW r \in DOMAIN g.rounds
      PROVE  /\ Len(g.rounds[r]) <= Cardinality(Owners)
             /\ \A i, j \in DOMAIN g.rounds[r] :
                  g.rounds[r][i].owner = g.rounds[r][j].owner => i = j
  <2>0. \A s \in DOMAIN h.rounds :
          /\ Len(h.rounds[s]) <= Cardinality(Owners)
          /\ \A i, j \in DOMAIN h.rounds[s] :
               h.rounds[s][i].owner = h.rounds[s][j].owner => i = j
    BY DEF CardsOK
  <2>1. CASE r \in 1..(n - 1)
    <3>1. g.rounds[r] = h.rounds[r] /\ r \in DOMAIN h.rounds
      BY <1>4, <1>10, <2>1
    <3>2. /\ Len(h.rounds[r]) <= Cardinality(Owners)
          /\ \A i, j \in DOMAIN h.rounds[r] :
               h.rounds[r][i].owner = h.rounds[r][j].owner => i = j
      BY <2>0, <3>1
    <3> QED BY ONLY <3>1, <3>2
  <2>2. CASE r = n
    <3>0. \A i, j \in DOMAIN h.rounds[n] :
            h.rounds[n][i].owner = h.rounds[n][j].owner => i = j
      BY <1>10, <2>0
    <3>1. \A i \in 1..(k - 1) : g.rounds[n][i].owner # owner
      BY <1>1, <1>2, <1>4
    <3>2. \A i, j \in 1..(k - 1) : g.rounds[n][i].owner = g.rounds[n][j].owner => i = j
      BY ONLY <1>10, <3>0
    <3> QED BY <1>3, <1>4, <1>5, <1>8, <2>2, <3>1, <3>2
  <2> QED BY <1>4, <1>7, <2>1, <2>2
<1>12. ASSUME NEW o \in Owners, NEW q \in Owners \ {o}
       PROVE  g.cards[o] \cap g.cards[q] = {}
  BY <1>6 DEF CardsOK
<1>13. ASSUME NEW o \in Owners, NEW r \in DOMAIN g.rounds, NEW i \in DOMAIN g.rounds[r]
       PROVE  g.rounds[r][i].card \notin g.cards[o]
  <2>1. card \notin g.cards[o]
    BY <1>1, <1>6 DEF CardsOK
  <2>2. g.cards[o] \subseteq h.cards[o]
    BY <1>6
  <2>3. CASE r \in 1..(n - 1)
    BY <1>4, <1>10, <2>2, <2>3 DEF CardsOK
  <2>4. CASE r = n /\ i \in 1..(k - 1)
    BY <1>10, <2>2, <2>4 DEF CardsOK
  <2>5. CASE r = n /\ i = k
    BY <1>4, <1>5, <2>1, <2>5
  <2> QED BY <1>4, <1>7, <1>8, <2>3, <2>4, <2>5
<1>14. ASSUME NEW o, NEW r \in 1..3, r \in 1..n, NEW i \in 1..4
       PROVE  (i \in DOMAIN g.rounds[r] /\ g.rounds[r][i].owner = o)
                <=> (\/ (i \in DOMAIN h.rounds[r] /\ h.rounds[r][i].owner = o)
                     \/ (r = n /\ i = k /\ o = owner))
  <2>1. CASE r \in 1..(n - 1)
    BY <1>4, <1>9, <2>1
  <2>2. CASE r = n
    <3>1. i \in DOMAIN g.rounds[n] <=> i = k \/ i \in DOMAIN h.rounds[n]
      BY <1>3, <1>4, <1>8, <1>10
    <3>2. i = k => (g.rounds[n][i].owner = owner /\ i \notin DOMAIN h.rounds[n])
      BY <1>4, <1>5, <1>10
    <3>3. i \in DOMAIN h.rounds[n] => (g.rounds[n][i] = h.rounds[n][i] /\ i # k)
      BY <1>10
    <3> QED BY ONLY <2>2, <3>1, <3>2, <3>3
  <2>3. r \in 1..(n - 1) \/ r = n
    BY <1>7, <1>14
  <2> QED BY ONLY <2>1, <2>2, <2>3
<1>15. DOMAIN g.rounds = 1..n /\ DOMAIN h.rounds = 1..n /\ n \in 1..n /\ n \in 1..3
  BY <1>1, <1>4, <1>9
<1>16. ASSUME NEW o
        PROVE  \A p \in (1..3) \X (1..4) :
                 p \in Plays(g, o)
                   <=> (p \in Plays(h, o) \/ (p[1] = n /\ p[2] = k /\ o = owner))
  <2>1. ASSUME NEW r \in 1..3, NEW i \in 1..4
        PROVE  <<r, i>> \in Plays(g, o)
                 <=> (<<r, i>> \in Plays(h, o) \/ (r = n /\ i = k /\ o = owner))
    <3>1. CASE r \in 1..n
      <4>1. (i \in DOMAIN g.rounds[r] /\ g.rounds[r][i].owner = o)
              <=> (\/ (i \in DOMAIN h.rounds[r] /\ h.rounds[r][i].owner = o)
                   \/ (r = n /\ i = k /\ o = owner))
        BY ONLY <1>14, <3>1
      <4> QED BY ONLY <1>15, <3>1, <4>1, r \in 1..3, i \in 1..4 DEF Plays
    <3>2. CASE r \notin 1..n
      BY ONLY <1>15, <3>2, r \in 1..3, i \in 1..4 DEF Plays
    <3> QED BY <3>1, <3>2
  <2> SUFFICES ASSUME NEW p \in (1..3) \X (1..4)
               PROVE  p \in Plays(g, o)
                        <=> (p \in Plays(h, o) \/ (p[1] = n /\ p[2] = k /\ o = owner))
    OBVIOUS
  <2>2. p[1] \in 1..3 /\ p[2] \in 1..4 /\ p = <<p[1], p[2]>>
    OBVIOUS
  <2>3. <<p[1], p[2]>> \in Plays(g, o)
          <=> (<<p[1], p[2]>> \in Plays(h, o) \/ (p[1] = n /\ p[2] = k /\ o = owner))
    BY ONLY <2>1, <2>2
  <2> QED BY ONLY <2>2, <2>3
<1>17. Plays(g, owner) = Plays(h, owner) \cup {<<n, k>>} /\ <<n, k>> \notin Plays(h, owner)
  <2>1. \A p \in (1..3) \X (1..4) :
          p \in Plays(g, owner) <=> (p \in Plays(h, owner) \/ (p[1] = n /\ p[2] = k))
    BY <1>16
  <2>2. <<n, k>> \in (1..3) \X (1..4)
    BY <1>3, <1>15
  <2>3. <<n, k>> \notin Plays(h, owner)
    BY <1>10 DEF Plays
  <2>4. Plays(g, owner) \subseteq (1..3) \X (1..4) /\ Plays(h, owner) \subseteq (1..3) \X (1..4)
    BY DEF Plays
  <2>5. \A p \in (1..3) \X (1..4) : (p[1] = n /\ p[2] = k) <=> p = <<n, k>>
    OBVIOUS
  <2> QED BY <2>1, <2>2, <2>3, <2>4, <2>5
<1>18. ASSUME NEW o \in Owners \ {owner}
       PROVE  Plays(g, o) = Plays(h, o)
  <2>1. ASSUME NEW p \in (1..3) \X (1..4)
        PROVE  p \in Plays(g, o) <=> p \in Plays(h, o)
    BY <1>16
  <2>2. Plays(g, o) \subseteq (1..3) \X (1..4) /\ Plays(h, o) \subseteq (1..3) \X (1..4)
    BY DEF Plays
  <2> QED BY <2>1, <2>2
<1>19. ASSUME NEW o \in Owners
       PROVE  /\ IsFiniteSet(g.cards[o])
              /\ Cardinality(g.cards[o]) + Cardinality(Plays(g, o)) = 3
  <2>1. CASE o = owner
    <3>1. /\ IsFiniteSet(h.cards[owner]) /\ Cardinality(h.cards[owner]) \in Nat
          /\ Cardinality(h.cards[owner]) + Cardinality(Plays(h, owner)) = 3
      BY FS_CardinalityType DEF CardsOK
    <3>2. /\ IsFiniteSet(g.cards[owner])
          /\ Cardinality(g.cards[owner]) = Cardinality(h.cards[owner]) - 1
      <4>1. card \in h.cards[owner] /\ g.cards[owner] = h.cards[owner] \ {card}
        BY <1>1, <1>6
      <4>2. ASSUME NEW S, IsFiniteSet(S), card \in S
            PROVE  IsFiniteSet(S \ {card}) /\ Cardinality(S \ {card}) = Cardinality(S) - 1
        BY ONLY <4>2, FS_RemoveElement
      <4> QED BY ONLY <3>1, <4>1, <4>2
    <3>3. Cardinality(Plays(g, owner)) = Cardinality(Plays(h, owner)) + 1
      BY <1>17, PlaysFinite, FS_AddElement
    <3>4. Cardinality(Plays(h, owner)) \in Nat
      BY PlaysFinite
    <3> QED BY <2>1, <3>1, <3>2, <3>3, <3>4
  <2>2. CASE o # owner
    BY <1>6, <1>18, <2>2 DEF CardsOK
  <2> QED BY <2>1, <2>2
<1> QED BY <1>11, <1>12, <1>13, <1>19 DEF CardsOK

LEMMA PlayCards ==
  ASSUME NEW h, HandOK(h), CardsOK(h), NEW owner \in Owners, NEW card \in Card,
         MayPlay(h, owner, card)
  PROVE  CardsOK(AfterPlay(h, owner, card))
<1> DEFINE open == Append(Last(h.rounds), Play(owner, card))
           played == [h EXCEPT !.cards[owner] = @ \ {card},
                               !.rounds = Append(Front(@), open)]
           winner == HandWinner(FinishedResults(played))
<1>1. h \in HandType /\ Len(h.rounds) \in 1..3 /\ h.rounds \in Seq(Seq(PlayRecord))
  BY DEF HandOK, RoundsOK, HandType
<1>2. /\ played.cards = [h.cards EXCEPT ![owner] = @ \ {card}]
      /\ played.rounds = Append(Front(h.rounds), open)
  BY <1>1 DEF HandType
<1>3. CardsOK(played) /\ played.rounds \in Seq(Seq(PlayRecord))
  <2>1. played.rounds \in Seq(Seq(PlayRecord))
    BY <1>1, <1>2, PlayedRounds
  <2> HIDE DEF played
  <2> QED BY <1>1, <1>2, <2>1, PlayedCards
<1>4. AfterPlay(h, owner, card) =
        IF ~RoundFinished(open) THEN played
        ELSE IF winner # None THEN FinishWithWinner(played, winner, h.value)
        ELSE IF Len(played.rounds) < 3
             THEN [played EXCEPT !.rounds = Append(@, <<>>)]
        ELSE played
  BY DEF AfterPlay
<1>5. "cards" \in DOMAIN played /\ "rounds" \in DOMAIN played
  BY <1>1 DEF HandType
<1> HIDE DEF played, winner, open
<1>6. LET g == FinishWithWinner(played, winner, h.value)
      IN  g.cards = played.cards /\ g.rounds = played.rounds
  BY <1>5 DEF FinishWithWinner
<1>7. LET g == [played EXCEPT !.rounds = Append(@, <<>>)]
      IN  g.cards = played.cards /\ g.rounds = Append(played.rounds, <<>>)
  BY <1>5
<1> QED BY <1>3, <1>4, <1>6, <1>7, OpenedRoundCards

LEMMA NewHandCards ==
  ASSUME NEW deal \in Deals, NEW sc
  PROVE  CardsOK(InitialHand(deal, sc))
<1> DEFINE g == InitialHand(deal, sc)
<1>1. g.cards = deal.cards /\ g.rounds = << <<>> >>
  BY DEF InitialHand, NewHand
<1>2. DOMAIN g.rounds = {1} /\ g.rounds[1] = <<>> /\ DOMAIN <<>> = {} /\ Len(<<>>) = 0
  BY <1>1
<1> HIDE DEF g
<1>3. \A o \in Owners : Plays(g, o) = {}
  BY <1>2 DEF Plays
<1>4. \A o \in Owners : Cardinality(Plays(g, o)) = 0
  BY <1>3, FS_EmptySet
<1>5. ASSUME NEW o \in Owners
      PROVE  IsFiniteSet(g.cards[o]) /\ Cardinality(g.cards[o]) = 3
             /\ \A q \in Owners \ {o} : g.cards[o] \cap g.cards[q] = {}
  <2>1. g.cards[o] \in SUBSET Card /\ Cardinality(g.cards[o]) = 3
        /\ \A q \in Owners \ {o} : g.cards[o] \cap g.cards[q] = {}
    BY <1>1, DealsAssumption DEF Deal
  <2> QED BY <2>1, CardFinite, FS_Subset
<1>6. 0 <= Cardinality(Owners)
  BY OwnersCount
<1>7. CardsOK(g)
  BY <1>2, <1>4, <1>5, <1>6 DEF CardsOK
<1> QED BY <1>7 DEF g

LEMMA CardsStep == CInv /\ [Next]_vars => CInv'
<1> SUFFICES ASSUME CInv, [Next]_vars PROVE CardsOK(hand') \/ hand' = NoHand
  BY NextInv DEF CInv
<1> USE DEF CInv
<1>0. ASSUME state = "in_progress"
      PROVE  HandOK(hand) /\ hand \in HandType /\ CardsOK(hand)
             /\ ("cards" \in DOMAIN hand /\ "rounds" \in DOMAIN hand)
  BY <1>0, LiveHand DEF HandOK, HandType
<1>1. CASE Start
  BY <1>1, NewHandCards DEF Start
<1>2. ASSUME NEW owner \in Owners, NEW card \in Card, PlayCard(owner, card)
      PROVE  CardsOK(hand')
  BY <1>0, <1>2, PlayCards DEF PlayCard, Resolve
<1>3. ASSUME NEW team \in Team, NEW v \in {3, 6, 9, 12}, RequestBet(team, v)
      PROVE  CardsOK(hand')
  <2>1. hand'.cards = hand.cards /\ hand'.rounds = hand.rounds
    BY <1>0, <1>3 DEF RequestBet, AfterRequest
  <2> QED BY <1>0, <1>3, <2>1, OpenedRoundCards DEF RequestBet, HandType
<1>4. ASSUME NEW team \in Team, AcceptBet(team)
      PROVE  CardsOK(hand')
  <2>1. hand'.cards = hand.cards /\ hand'.rounds = hand.rounds
    BY <1>0, <1>4 DEF AcceptBet, AfterAccept
  <2> QED BY <1>0, <1>4, <2>1, OpenedRoundCards DEF AcceptBet, HandType
<1>5. ASSUME NEW team \in Team, DeclineBet(team)
      PROVE  CardsOK(hand')
  <2>1. hand'.cards = hand.cards /\ hand'.rounds = hand.rounds
    BY <1>0, <1>5 DEF DeclineBet, AfterDecline, FinishWithWinner, Resolve
  <2> QED BY <1>0, <1>5, <2>1, OpenedRoundCards DEF DeclineBet, HandType
<1>6. ASSUME NEW team \in Team, AcceptMaoDeOnze(team)
      PROVE  CardsOK(hand')
  <2>1. hand'.cards = hand.cards /\ hand'.rounds = hand.rounds
    BY <1>0, <1>6 DEF AcceptMaoDeOnze, AfterAcceptOnze
  <2> QED BY <1>0, <1>6, <2>1, OpenedRoundCards DEF AcceptMaoDeOnze, HandType
<1>7. ASSUME NEW team \in Team, DeclineMaoDeOnze(team)
      PROVE  CardsOK(hand')
  <2>1. hand'.cards = hand.cards /\ hand'.rounds = hand.rounds
    BY <1>0, <1>7 DEF DeclineMaoDeOnze, AfterDeclineOnze, FinishWithWinner, Resolve
  <2> QED BY <1>0, <1>7, <2>1, OpenedRoundCards DEF DeclineMaoDeOnze, HandType
<1>8. CASE UNCHANGED vars
  BY <1>8 DEF vars
<1> QED BY <1>1, <1>2, <1>3, <1>4, <1>5, <1>6, <1>7, <1>8 DEF Next

LEMMA CardsInvariance == Spec => []CInv
<1>1. Init => CInv
  BY InitInv DEF CInv, Init
<1> QED BY <1>1, CardsStep, PTL DEF Spec

LEMMA CardsAreConserved == CInv => CardsConserved
<1> SUFFICES ASSUME CInv, hand # NoHand PROVE CardsConserved
  BY DEF CardsConserved
<1>1. CardsOK(hand) /\ RoundsOK(hand) /\ hand \in HandType
  BY DEF CInv, IInv, HandOK
<1>2. DOMAIN hand.rounds = 1..Len(hand.rounds) /\ Len(hand.rounds) \in 1..3
  BY <1>1, LenProperties DEF HandType, RoundsOK
<1>3. ASSUME NEW r \in DOMAIN hand.rounds, NEW o \in Owners
      PROVE  Cardinality({p \in Plays(hand, o) : p[1] = r}) <= 1
  <2> DEFINE S == {p \in Plays(hand, o) : p[1] = r}
  <2>1. \A p, q \in S : p = q
    BY <1>1 DEF CardsOK, Plays
  <2>2. CASE S = {}
    BY <2>2, FS_EmptySet
  <2>3. ASSUME NEW p \in S
        PROVE  Cardinality(S) = 1
    <3>1. S = {p}
      BY <2>1, <2>3
    <3> QED BY <3>1, FS_Singleton
  <2> QED BY <2>2, <2>3
<1>4. \A r \in DOMAIN hand.rounds : r < Len(hand.rounds) => RoundFinished(hand.rounds[r])
  BY <1>1, <1>2 DEF RoundsOK
<1>5. \A o, q \in Owners : \A p \in Plays(hand, q) :
        hand.rounds[p[1]][p[2]].card \notin hand.cards[o]
  BY <1>1 DEF CardsOK, Plays
<1> QED BY <1>1, <1>3, <1>4, <1>5 DEF CardsConserved, CardsOK

\* Who has not played in the open round has played at most once in each of the
\* rounds before it, of which there are two at most.
LEMMA CardLeft ==
  ASSUME NEW h \in HandType, RoundsOK(h), CardsOK(h), ~h.finished, NEW o \in Owners,
         \A i \in DOMAIN Last(h.rounds) : Last(h.rounds)[i].owner # o
  PROVE  h.cards[o] # {}
<1> DEFINE n == Len(h.rounds)
           R(r) == {p \in Plays(h, o) : p[1] = r}
<1>1. n \in 1..3 /\ DOMAIN h.rounds = 1..n /\ Last(h.rounds) = h.rounds[n]
  BY LenProperties DEF HandType, RoundsOK, Last
<1>2. \A p \in Plays(h, o) : p[1] \in 1..n /\ p[1] # n
  BY <1>1 DEF Plays
<1>3. Plays(h, o) = R(1) \cup R(2)
  <2>1. \A m \in 1..3 : \A r \in 1..m : r = m \/ r = 1 \/ r = 2
    OBVIOUS
  <2> HIDE DEF n
  <2>2. \A p \in Plays(h, o) : p[1] = 1 \/ p[1] = 2
    BY <1>1, <1>2, <2>1
  <2> QED BY <2>2
<1>4. ASSUME NEW r
      PROVE  IsFiniteSet(R(r)) /\ Cardinality(R(r)) \in {0, 1}
  <2>1. \A p, q \in R(r) : p = q
    BY DEF CardsOK, Plays
  <2>2. CASE R(r) = {}
    BY <2>2, FS_EmptySet
  <2>3. ASSUME NEW p \in R(r)
        PROVE  IsFiniteSet(R(r)) /\ Cardinality(R(r)) = 1
    <3>1. R(r) = {p}
      BY <2>1, <2>3
    <3> QED BY <3>1, FS_Singleton
  <2> QED BY <2>2, <2>3
<1>5. Cardinality(Plays(h, o)) <= 2
  <2>1. IsFiniteSet(R(1) \cap R(2)) /\ Cardinality(R(1) \cap R(2)) \in Nat
    BY <1>4, FS_Intersection, FS_CardinalityType
  <2>2. Cardinality(R(1) \cup R(2)) =
          Cardinality(R(1)) + Cardinality(R(2)) - Cardinality(R(1) \cap R(2))
    BY <1>4, FS_Union
  <2>3. Cardinality(R(1)) \in {0, 1} /\ Cardinality(R(2)) \in {0, 1}
    BY <1>4
  <2> HIDE DEF R
  <2> QED BY <1>3, <2>1, <2>2, <2>3
<1>6. Cardinality(h.cards[o]) # 0
  BY <1>5, PlaysFinite DEF CardsOK
<1> QED BY <1>6, FS_EmptySet

LEMMA LiveHandsGoOn == CInv => LiveHandPlayable
<1> SUFFICES ASSUME CInv, hand # NoHand, ~hand.finished PROVE LiveHandPlayable
  BY DEF LiveHandPlayable
<1>1. CardsOK(hand) /\ RoundsOK(hand) /\ hand \in HandType
  BY DEF CInv, IInv, HandOK
<1>2. ~RoundFinished(Last(hand.rounds))
  BY <1>1 DEF RoundsOK, Last
<1> QED BY <1>1, <1>2, CardLeft DEF LiveHandPlayable

(* No card of a hand is lost, doubled or played out of its round.          *)
THEOREM CardsKept == Spec => []CardsConserved
BY CardsAreConserved, CardsInvariance, PTL

(* A live hand never gets stuck.                                           *)
THEOREM HandsGoOn == Spec => []LiveHandPlayable
BY LiveHandsGoOn, CardsInvariance, PTL

-----------------------------------------------------------------------------
(* Refinement *)

LEMMA BoardInit == Init => Board!Init
<1> SUFFICES ASSUME Init PROVE Board!Init
  OBVIOUS
<1> QED BY DEF Init, Board!Init, Live, lastBidder, None, Board!None

\* A hand resolved for g.winner settles the board, whatever ended it.
LEMMA SettleStep ==
  ASSUME IInv, state = "in_progress", NEW g, HandOK(g), g.finished, Resolve(g),
         g.value = hand.value,
         hand.betState = "awaiting_response" => g.winner = hand.requestedBy,
         hand.special = "mao_de_onze" /\ hand.value = 1 =>
           g.winner = Opponent(hand.decider)
  PROVE  Board!Next
<1>1. /\ HandOK(hand) /\ hand \in HandType /\ Ladder(hand) /\ ~hand.finished
      /\ score \in [Team -> Nat] /\ \A t \in Team : score[t] < PointsToWin
      /\ hand # NoHand
  BY LiveHand DEF HandOK
<1>2. g.winner \in Team /\ g.awarded = hand.value
  BY DEF HandOK, Ladder
<1>3. /\ score' = [score EXCEPT ![g.winner] = @ + hand.value]
      /\ state' = IF \E t \in Team : score'[t] >= PointsToWin
                  THEN "finished" ELSE "waiting"
  BY <1>2 DEF Resolve
<1>4. hand.pending # 0 => hand.betState = "awaiting_response"
  BY <1>1 DEF Ladder, HandType
<1>5. hand.special = "mao_de_onze" /\ hand.value = 1 => score[g.winner] # 11
  <2>1. SUFFICES ASSUME hand.special = "mao_de_onze", hand.value = 1
                 PROVE  score[g.winner] # 11
    OBVIOUS
  <2>2. /\ score[hand.decider] = 11 /\ hand.decider \in Team
        /\ \E t \in Team : score[t] = 11 /\ score[Opponent(t)] < 11
    BY <1>1, <2>1 DEF IInv, SpecialHandFitsScore, Ladder
  <2> QED BY <1>1, <2>1, <2>2 DEF Team, Opponent
<1>6. \A t \in Team \ {g.winner} : ~(score'[t] >= PointsToWin)
  BY <1>1, <1>2, <1>3, PointsAssumption
<1>7. Board!Settle(g.winner)
  BY <1>1, <1>2, <1>3, <1>4, <1>5, <1>6
     DEF Board!Settle, Live, lastBidder, None, Board!None
<1> QED BY <1>2, <1>7 DEF Board!Next, Team, Board!Team

LEMMA BoardNext == IInv /\ [Next]_vars => [Board!Next]_(Board!vars)
<1> SUFFICES ASSUME IInv, [Next]_vars PROVE [Board!Next]_(Board!vars)
  OBVIOUS
<1>1. CASE Start
  <2>1. PICK deal \in Deals : hand' = InitialHand(deal, score)
    BY <1>1 DEF Start
  <2>2. /\ score \in [Team -> Nat] /\ score' = score /\ state = "waiting"
        /\ state' = "in_progress"
    BY <1>1 DEF IInv, TypeOK, Start
  <2>3. /\ hand'.special = "mao_de_onze" <=>
             \E t \in Team : score[t] = 11 /\ score[Opponent(t)] < 11
    BY <2>1, <2>2, InitialHandOK
  <2>4. (\E t \in Team : score[t] = 11 /\ score[Opponent(t)] < 11) <=>
          (\E t, u \in Team : score[t] = 11 /\ score[u] < 11)
    BY <2>2 DEF Team, Opponent
  <2>5. /\ hand'.value = 1 /\ hand'.pending = 0
        /\ hand'.betState = "idle" /\ hand'.authority = None
    BY <2>1 DEF InitialHand, NewHand
  <2>6. Board!Deal
    BY <2>2, <2>3, <2>4, <2>5
       DEF Board!Deal, Live, lastBidder, None, Board!None, Team, Board!Team
  <2> QED BY <2>6 DEF Board!Next
<1>2. ASSUME NEW owner \in Owners, NEW card \in Card, PlayCard(owner, card)
      PROVE  [Board!Next]_(Board!vars)
  <2> DEFINE g == AfterPlay(hand, owner, card)
  <2>1. /\ HandOK(hand) /\ hand \in HandType /\ Ladder(hand)
        /\ ~hand.finished /\ ~hand.decisionPending /\ hand.betState = "idle"
        /\ state = "in_progress" /\ Resolve(g)
    BY <1>2, LiveHand DEF PlayCard, MayPlay, HandOK
  <2>2. HandOK(g) /\ g \in HandType /\ Ladder(g) /\ SameKind(hand, g)
    BY <1>2, <2>1, PlayOK DEF PlayCard, HandOK
  <2>3. /\ g.value = hand.value
        /\ ~g.finished => /\ g.pending = hand.pending
                          /\ g.betState = hand.betState
                          /\ g.authority = hand.authority
    BY <2>1 DEF AfterPlay, FinishWithWinner, HandType
  <2>4. CASE g.finished
    <3>1. ~(hand.special = "mao_de_onze" /\ hand.value = 1)
      BY <2>1 DEF Ladder
    <3> HIDE DEF g
    <3> QED BY <2>1, <2>2, <2>3, <2>4, <3>1, SettleStep
  <2>5. CASE ~g.finished
    <3>1. hand' = g /\ UNCHANGED <<state, score>>
      BY <2>1, <2>5 DEF Resolve
    <3> HIDE DEF g
    <3> QED BY <2>1, <2>2, <2>3, <2>5, <3>1
            DEF Board!vars, Live, lastBidder, SameKind
  <2> QED BY <2>4, <2>5
<1>3. ASSUME NEW team \in Team, NEW v \in {3, 6, 9, 12}, RequestBet(team, v)
      PROVE  [Board!Next]_(Board!vars)
  <2>1. /\ hand \in HandType /\ Ladder(hand) /\ ~hand.finished
        /\ ~hand.decisionPending /\ hand.special # "mao_de_onze"
        /\ MayRequest(hand, team, v)
    BY <1>3, LiveHand DEF RequestBet, MayRequest, CanChangeBet, HandOK
  <2>2. /\ state = "in_progress" /\ UNCHANGED <<state, score>>
        /\ hand'.special = hand.special
        /\ hand'.pending = v /\ hand'.betState = "awaiting_response"
        /\ hand'.requestedBy = team
        /\ hand'.value = IF hand.betState = "awaiting_response"
                         THEN hand.pending ELSE hand.value
    BY <1>3, <2>1 DEF RequestBet, AfterRequest, HandType
  <2>3. lastBidder # team
    BY <2>1, <2>2 DEF lastBidder, Live, MayRequest, Ladder, HandType, Opponent,
                      Team, None, NextValue
  <2>4. hand'.value = IF hand.pending = 0 THEN hand.value ELSE hand.pending
    BY <2>1, <2>2 DEF Ladder, HandType
  <2>5. hand'.value \in {1, 3, 6, 9} /\ v = IF hand'.value = 1 THEN 3
                                            ELSE hand'.value + 3
    BY <2>1, <2>2 DEF MayRequest, Ladder, HandType, NextValue, Value
  <2>6. Board!Bid(team)
    <3>1. lastBidder' = team
      BY <2>2 DEF lastBidder, Live
    <3> HIDE DEF lastBidder
    <3> QED BY <2>1, <2>2, <2>3, <2>4, <2>5, <3>1
        DEF Board!Bid, Board!Rung, Live
  <2> QED BY <2>6 DEF Board!Next, Team, Board!Team
<1>4. ASSUME NEW team \in Team, AcceptBet(team)
      PROVE  [Board!Next]_(Board!vars)
  <2>1. /\ hand \in HandType /\ Ladder(hand) /\ ~hand.finished
        /\ hand.betState = "awaiting_response" /\ hand.requestedBy # team
    BY <1>4, LiveHand DEF AcceptBet, MayAnswer, CanChangeBet, HandOK
  <2>2. /\ state = "in_progress" /\ UNCHANGED <<state, score>>
        /\ hand'.special = hand.special
        /\ hand'.pending = 0 /\ hand'.betState = "idle"
        /\ hand'.authority = team /\ hand'.value = hand.pending
    BY <1>4, <2>1 DEF AcceptBet, AfterAccept, HandType
  <2>3. hand.pending # 0 /\ hand.requestedBy = Opponent(team) /\ team # None
    BY <2>1 DEF Ladder, Opponent, Team, None
  <2>4. Board!Agree
    BY <2>1, <2>2, <2>3 DEF Board!Agree, Live, lastBidder
  <2> QED BY <2>4 DEF Board!Next
<1>5. ASSUME NEW team \in Team, DeclineBet(team)
      PROVE  [Board!Next]_(Board!vars)
  <2>1. /\ HandOK(hand) /\ hand \in HandType /\ Ladder(hand)
        /\ ~hand.finished /\ hand.betState = "awaiting_response"
        /\ state = "in_progress" /\ MayAnswer(hand, team)
        /\ Resolve(AfterDecline(hand))
    BY <1>5, LiveHand DEF DeclineBet, MayAnswer, CanChangeBet, HandOK
  <2>2. HandOK(AfterDecline(hand)) /\ AfterDecline(hand).finished
    BY <2>1, DeclineOK
  <2>3. /\ AfterDecline(hand).value = hand.value
        /\ AfterDecline(hand).winner = hand.requestedBy
        /\ hand.special # "mao_de_onze"
    BY <2>1 DEF AfterDecline, FinishWithWinner, HandType, Ladder
  <2> QED BY <2>1, <2>2, <2>3, SettleStep
<1>6. ASSUME NEW team \in Team, AcceptMaoDeOnze(team)
      PROVE  [Board!Next]_(Board!vars)
  <2>1. /\ hand \in HandType /\ Ladder(hand) /\ ~hand.finished
        /\ hand.special = "mao_de_onze" /\ hand.decisionPending
    BY <1>6, LiveHand DEF AcceptMaoDeOnze, MayDecideOnze, HandOK
  <2>2. /\ state = "in_progress" /\ UNCHANGED <<state, score>>
        /\ hand'.special = hand.special
        /\ hand'.pending = 0 /\ hand'.betState = "idle"
        /\ hand'.authority = None /\ hand'.value = 3
    BY <1>6, <2>1 DEF AcceptMaoDeOnze, AfterAcceptOnze, HandType
  <2>3. /\ hand.value = 1 /\ hand.pending = 0 /\ hand.betState = "idle"
        /\ hand.authority = None
    BY <2>1 DEF Ladder
  <2>4. Board!PlayForThree
    BY <2>1, <2>2, <2>3 DEF Board!PlayForThree, Live, lastBidder
  <2> QED BY <2>4 DEF Board!Next
<1>7. ASSUME NEW team \in Team, DeclineMaoDeOnze(team)
      PROVE  [Board!Next]_(Board!vars)
  <2> DEFINE g == AfterDeclineOnze(hand, team)
  <2>1. /\ HandOK(hand) /\ hand \in HandType /\ Ladder(hand)
        /\ ~hand.finished /\ hand.special = "mao_de_onze"
        /\ hand.decider = team /\ hand.decisionPending
        /\ state = "in_progress" /\ MayDecideOnze(hand, team) /\ Resolve(g)
    BY <1>7, LiveHand DEF DeclineMaoDeOnze, MayDecideOnze, HandOK
  <2>2. HandOK(g) /\ g.finished
    BY <2>1, DeclineOnzeOK
  <2>3. hand.betState = "idle" /\ g.value = hand.value /\ g.winner = Opponent(team)
    BY <2>1 DEF AfterDeclineOnze, FinishWithWinner, HandType, Ladder
  <2> HIDE DEF g
  <2> QED BY <2>1, <2>2, <2>3, SettleStep
<1>8. CASE UNCHANGED vars
  BY <1>8 DEF vars, Board!vars, Live, lastBidder
<1> QED BY <1>1, <1>2, <1>3, <1>4, <1>5, <1>6, <1>7, <1>8 DEF Next

(* The match is the scoreboard it promises to be: see Scoreboard.          *)
THEOREM MatchImplementsScoreboard == Spec => ImplementsScoreboard
BY BoardInit, BoardNext, Invariance, PTL DEF Spec, ImplementsScoreboard, Board!Spec

-----------------------------------------------------------------------------
(* What a viewer is offered, and what it sees *)

\* An offer is on the table, or a decision is pending, only in a live hand.
LEMMA OpenHandInProgress ==
  ASSUME IInv, hand # NoHand
  PROVE  /\ hand \in HandType /\ Ladder(hand)
         /\ ~hand.finished => state = "in_progress"
         /\ hand.betState = "awaiting_response" =>
              ~hand.finished /\ ~hand.decisionPending
<1>1. hand \in HandType /\ Ladder(hand)
  BY DEF IInv, HandOK
<1>2. ~hand.finished => state = "in_progress"
  BY DEF IInv, HandOpenIffInProgress
<1>3. hand.betState = "awaiting_response" =>
        ~hand.finished /\ ~hand.decisionPending
  BY <1>1 DEF Ladder
<1> QED BY <1>1, <1>2, <1>3

LEMMA RaiseOffered ==
  ASSUME NEW h \in HandType, Ladder(h), NEW t \in Team,
         NEW from \in {1, 3, 6, 9}, CanRaiseToTarget(h, t, from)
  PROVE  MayRequest(h, t, NextValue(from))
<1>1. CASE h.betState = "awaiting_response"
  BY <1>1 DEF CanRaiseToTarget, MayRequest, CanChangeBet
<1>2. CASE h.betState = "idle"
  <2>1. CASE from = 1
    BY <1>2, <2>1 DEF CanRaiseToTarget, MayRequest, CanChangeBet, NextValue, Ladder
  <2>2. CASE from # 1
    BY <1>2, <2>2 DEF CanRaiseToTarget, MayRequest, CanChangeBet, NextValue
  <2> QED BY <2>1, <2>2
<1> QED BY <1>1, <1>2 DEF HandType

LEMMA RaiseAcceptedIsOffered ==
  ASSUME NEW h \in HandType, Ladder(h), NEW t \in Team,
         NEW from \in {1, 3, 6, 9}, MayRequest(h, t, NextValue(from)),
         h.special # "mao_de_ferro"
  PROVE  CanRaiseToTarget(h, t, from)
<1>1. h.special = "normal" /\ ~h.finished /\ ~h.decisionPending
  BY DEF MayRequest, CanChangeBet, HandType
<1>2. \A v \in {0} \cup Value : NextValue(v) = NextValue(from) => v = from
  BY DEF Value, NextValue
<1>3. CASE h.betState = "awaiting_response"
  <2>1. h.requestedBy # t /\ NextValue(h.pending) = NextValue(from)
    BY <1>3 DEF MayRequest
  <2> QED BY <1>1, <1>2, <1>3, <2>1 DEF CanRaiseToTarget, HandType
<1>4. CASE h.betState = "idle"
  <2>1. /\ NextValue(h.value) = NextValue(from)
        /\ h.authority = IF NextValue(from) = 3 THEN None ELSE t
    BY <1>4 DEF MayRequest
  <2>2. h.value = from
    BY <1>2, <2>1 DEF HandType
  <2>3. from > 1 => NextValue(from) # 3
    BY DEF NextValue
  <2> QED BY <1>1, <1>4, <2>1, <2>2, <2>3 DEF CanRaiseToTarget
<1> QED BY <1>3, <1>4 DEF HandType

LEMMA IInvOffers == IInv => OffersAreLegal
<1> SUFFICES ASSUME IInv, hand # NoHand, NEW t \in Team
             PROVE  /\ \A from \in {1, 3, 6, 9} : CanRaiseToTarget(hand, t, from) =>
                         state = "in_progress" /\ MayRequest(hand, t, NextValue(from))
                    /\ CanRespondToBet(hand, t) =>
                         state = "in_progress" /\ MayAnswer(hand, t)
                    /\ CanResolveMaoDeOnze(hand, t) =>
                         state = "in_progress" /\ MayDecideOnze(hand, t)
  BY DEF OffersAreLegal
<1>1. ASSUME NEW from \in {1, 3, 6, 9}, CanRaiseToTarget(hand, t, from)
      PROVE  state = "in_progress" /\ MayRequest(hand, t, NextValue(from))
  BY <1>1, OpenHandInProgress, RaiseOffered DEF CanRaiseToTarget
<1>2. ASSUME CanRespondToBet(hand, t)
      PROVE  state = "in_progress" /\ MayAnswer(hand, t)
  BY <1>2, OpenHandInProgress DEF CanRespondToBet, MayAnswer, CanChangeBet
<1>3. ASSUME CanResolveMaoDeOnze(hand, t)
      PROVE  state = "in_progress" /\ MayDecideOnze(hand, t)
  <2>1. ~hand.finished
    BY <1>3, OpenHandInProgress DEF CanResolveMaoDeOnze, Ladder
  <2> QED BY <1>3, <2>1, OpenHandInProgress DEF CanResolveMaoDeOnze, MayDecideOnze
<1> QED BY <1>1, <1>2, <1>3

LEMMA IInvNothingWithheld == IInv => NothingWithheld
<1> SUFFICES ASSUME IInv, state = "in_progress", NEW t \in Team
    PROVE  /\ \A from \in {1, 3, 6, 9} :
                MayRequest(hand, t, NextValue(from))
                  /\ hand.special # "mao_de_ferro" => CanRaiseToTarget(hand, t, from)
           /\ MayAnswer(hand, t) => CanRespondToBet(hand, t)
           /\ MayDecideOnze(hand, t) => CanResolveMaoDeOnze(hand, t)
           /\ \A o \in Owners : \A card \in hand.cards[o] :
                MayPlay(hand, o, card) => CanAttemptPlayCard(hand)
  BY DEF NothingWithheld
<1>1. hand \in HandType /\ Ladder(hand)
  BY LiveHand, OpenHandInProgress
<1>2. \A from \in {1, 3, 6, 9} :
        MayRequest(hand, t, NextValue(from)) /\ hand.special # "mao_de_ferro" =>
          CanRaiseToTarget(hand, t, from)
  BY <1>1, RaiseAcceptedIsOffered
<1>3. MayAnswer(hand, t) => CanRespondToBet(hand, t)
  BY DEF MayAnswer, CanRespondToBet
<1>4. MayDecideOnze(hand, t) => CanResolveMaoDeOnze(hand, t)
  BY DEF MayDecideOnze, CanResolveMaoDeOnze
<1>5. \A o \in Owners : \A card \in hand.cards[o] :
        MayPlay(hand, o, card) => CanAttemptPlayCard(hand)
  BY DEF MayPlay, CanAttemptPlayCard
<1> QED BY <1>2, <1>3, <1>4, <1>5

\* In a live hand some owner may still play in the open round, and holds a card
\* to play: fewer have played in it than sit at the table.
LEMMA SomeoneMayPlay ==
  ASSUME NEW h \in HandType, RoundsOK(h), CardsOK(h),
         ~h.finished, ~h.decisionPending, h.betState = "idle"
  PROVE  \E o \in Owners : \E card \in h.cards[o] : MayPlay(h, o, card)
<1> DEFINE open == Last(h.rounds)
           n == Len(open)
           players == {open[i].owner : i \in DOMAIN open}
<1>1. open \in Seq(PlayRecord) /\ ~RoundFinished(open)
  <2>1. h.rounds \in Seq(Seq(PlayRecord)) /\ Len(h.rounds) \in 1..3
    BY DEF HandType, RoundsOK
  <2>2. DOMAIN h.rounds = 1..Len(h.rounds) /\ open = h.rounds[Len(h.rounds)]
    BY <2>1, LenProperties DEF Last
  <2>3. \A m \in 1..3 : m \in 1..m
    OBVIOUS
  <2>4. Len(h.rounds) \in 1..Len(h.rounds)
    BY <2>1, <2>3
  <2>5. ~RoundFinished(h.rounds[Len(h.rounds)])
    BY DEF RoundsOK
  <2> HIDE DEF open
  <2> QED BY <2>1, <2>2, <2>4, <2>5, ElementOfSeq
<1>2. n \in Nat /\ DOMAIN open = 1..n /\ n < Cardinality(Owners)
  <2> HIDE DEF open
  <2> QED BY <1>1, LenProperties, OwnersCount DEF RoundFinished
<1> HIDE DEF open
<1>3. PICK o \in Owners : o \notin players
  <2> DEFINE f == [i \in 1..n |-> open[i].owner]
  <2>1. CASE Owners \subseteq players
    <3>1. f \in Surjection(1..n, players)
      BY <1>2 DEF Surjection
    <3>2. ExistsSurjection(1..n, players)
      BY <3>1 DEF ExistsSurjection
    <3>3. IsFiniteSet(players) /\ Cardinality(players) <= n
      <4>1. IsFiniteSet(1..n) /\ Cardinality(1..n) = n
        <5>1. n \in Nat /\ 1 \in Int /\ n \in Int
          BY <1>2
        <5> HIDE DEF n
        <5>2. IsFiniteSet(1..n) /\ Cardinality(1..n) = IF 1 > n THEN 0 ELSE n - 1 + 1
          BY ONLY <5>1, FS_Interval, Zenon
        <5> QED BY <5>1, <5>2
      <4> HIDE DEF players, n, f
      <4> QED BY <3>1, <4>1, FS_Surjection
    <3>4. Cardinality(Owners) <= Cardinality(players) /\ Cardinality(players) \in Nat
      <4> HIDE DEF players
      <4> QED BY <2>1, <3>3, FS_Subset, FS_CardinalityType
    <3> QED BY <1>2, <3>3, <3>4, OwnersCount
  <2> QED BY <2>1
<1>4. \A i \in DOMAIN open : open[i].owner # o
  BY <1>3
<1>5. h.cards[o] # {}
  BY <1>4, CardLeft DEF open
<1>6. PICK card \in h.cards[o] : TRUE
  BY <1>5
<1>7. MayPlay(h, o, card)
  BY <1>1, <1>4 DEF MayPlay, open
<1> QED BY <1>7

LEMMA CInvDecision == CInv => DecisionHasItsTeam
<1> SUFFICES ASSUME CInv, hand # NoHand PROVE DecisionHasItsTeam
  BY DEF DecisionHasItsTeam
<1> DEFINE able == {t \in Team : ViewerCanActNow(hand, t)}
           next == NextDecisionType(hand)
<1>1. /\ hand \in HandType /\ Ladder(hand) /\ RoundsOK(hand) /\ CardsOK(hand)
      /\ hand.finished <=> state # "in_progress"
      /\ \A t \in Team : Opponent(t) \in Team /\ Opponent(t) # t
      /\ \A t, u \in Team : t # u => u = Opponent(t)
  BY DEF CInv, IInv, HandOK, HandOpenIffInProgress, Opponent, Team
<1>2. CASE hand.finished
  BY <1>1, <1>2 DEF DecisionHasItsTeam, NextDecisionType, ViewerCanActNow
<1>3. CASE ~hand.finished /\ hand.special = "mao_de_onze" /\ hand.decisionPending
  <2>1. next = "resolve-mao-de-onze"
    BY <1>3 DEF NextDecisionType
  <2>2. hand.betState = "idle" /\ hand.decider \in Team
    BY <1>1, <1>3 DEF Ladder
  <2>3. able = {hand.decider} /\ MayDecideOnze(hand, hand.decider)
    BY <1>3, <2>2 DEF ViewerCanActNow, CanRespondToBet, CanResolveMaoDeOnze,
                      CanAttemptPlayCard, MayDecideOnze
  <2> QED BY <1>1, <1>3, <2>1, <2>3 DEF DecisionHasItsTeam
<1>4. CASE ~hand.finished /\ hand.betState = "awaiting_response"
  <2>1. ~hand.decisionPending /\ hand.requestedBy \in Team
    BY <1>1, <1>4 DEF Ladder
  <2>2. next = "respond-bet"
    BY <1>4, <2>1 DEF NextDecisionType
  <2>3. able = {Opponent(hand.requestedBy)}
    BY <1>1, <1>4, <2>1 DEF ViewerCanActNow, CanRespondToBet,
                            CanResolveMaoDeOnze, CanAttemptPlayCard
  <2>4. MayAnswer(hand, Opponent(hand.requestedBy))
    BY <1>1, <1>4, <2>1 DEF MayAnswer, CanChangeBet
  <2> QED BY <1>1, <1>4, <2>2, <2>3, <2>4 DEF DecisionHasItsTeam
<1>5. CASE ~hand.finished /\ hand.betState = "idle" /\ ~hand.decisionPending
  <2>1. next = "play-card" /\ able = Team
    BY <1>5 DEF NextDecisionType, ViewerCanActNow, CanAttemptPlayCard
  <2>2. \E o \in Owners : \E card \in hand.cards[o] : MayPlay(hand, o, card)
    BY <1>1, <1>5, SomeoneMayPlay
  <2> QED BY <1>1, <1>5, <2>1, <2>2 DEF DecisionHasItsTeam
<1>6. /\ hand.betState \in {"idle", "awaiting_response"}
      /\ hand.decisionPending => hand.special = "mao_de_onze"
  BY <1>1 DEF Ladder, HandType
<1> QED BY <1>2, <1>3, <1>4, <1>5, <1>6

LEMMA CInvHidden == CInv => HandsStayHidden
<1> SUFFICES ASSUME CInv, hand # NoHand,
                    NEW viewer \in Owners, NEW o \in Owners \ {viewer},
                    NEW c \in CardsShown(hand, viewer)
             PROVE  c \notin hand.cards[o]
  BY DEF HandsStayHidden
<1>1. CardsOK(hand)
  BY DEF CInv
<1>2. \/ c \in hand.cards[viewer]
      \/ \E r \in DOMAIN hand.rounds : \E i \in DOMAIN hand.rounds[r] :
           c = hand.rounds[r][i].card
  <2>1. CASE c \in UNION ({VisibleTeamHand(hand, viewer, t) : t \in Team}
                            \cup {VisibleSeatHand(hand, viewer, x) : x \in Owners})
    BY <2>1 DEF VisibleTeamHand, VisibleSeatHand
  <2>2. ASSUME NEW r \in DOMAIN hand.rounds, NEW p \in ToSet(hand.rounds[r]), c = p.card
        PROVE  \E i \in DOMAIN hand.rounds[r] : c = hand.rounds[r][i].card
    BY <2>2 DEF ToSet
  <2>3. \/ c \in UNION ({VisibleTeamHand(hand, viewer, t) : t \in Team}
                          \cup {VisibleSeatHand(hand, viewer, x) : x \in Owners})
        \/ \E r \in DOMAIN hand.rounds : \E p \in ToSet(hand.rounds[r]) : c = p.card
    <3> DEFINE T == UNION {ToSet(hand.rounds[r]) : r \in DOMAIN hand.rounds}
               own == UNION ({VisibleTeamHand(hand, viewer, t) : t \in Team}
                          \cup {VisibleSeatHand(hand, viewer, x) : x \in Owners})
    <3>1. CardsShown(hand, viewer) = own \cup {p.card : p \in T}
      BY DEF CardsShown
    <3>2. ASSUME NEW p \in T
          PROVE  \E r \in DOMAIN hand.rounds : p \in ToSet(hand.rounds[r])
      OBVIOUS
    <3> HIDE DEF T, own
    <3>3. c \in own \/ \E p \in T : c = p.card
      BY <3>1
    <3> QED BY <3>2, <3>3 DEF own
  <2> QED BY <2>1, <2>2, <2>3
<1>3. CASE c \in hand.cards[viewer]
  BY <1>1, <1>3 DEF CardsOK
<1>4. ASSUME NEW r \in DOMAIN hand.rounds, NEW i \in DOMAIN hand.rounds[r]
      PROVE  hand.rounds[r][i].card \notin hand.cards[o]
  BY <1>1 DEF CardsOK
<1> QED BY <1>2, <1>3, <1>4

(* Every control a player is offered is accepted: see OffersAreLegal.      *)
THEOREM OfferedIsAccepted == Spec => []OffersAreLegal
BY IInvOffers, Invariance, PTL

(* Every command the aggregate accepts is offered: see NothingWithheld.    *)
THEOREM AcceptedIsOffered == Spec => []NothingWithheld
BY IInvNothingWithheld, Invariance, PTL

(* The table always waits for a side that can act: see DecisionHasItsTeam. *)
THEOREM DecisionHasATeam == Spec => []DecisionHasItsTeam
BY CInvDecision, CardsInvariance, PTL

(* No view names a card another seat still holds: see HandsStayHidden.     *)
THEOREM ViewsHideHands == Spec => []HandsStayHidden
BY CInvHidden, CardsInvariance, PTL

-----------------------------------------------------------------------------
(* The stored match *)

\* The inductive invariant of the match, of any row or copy.
Sound(st, sc, h) ==
  /\ st \in {"waiting", "in_progress", "finished"}
  /\ sc \in [Team -> Nat]
  /\ h \in HandType \cup {NoHand}
  /\ h # NoHand => HandOK(h)
  /\ (st = "in_progress") <=> ~h.finished
  /\ (st = "finished") <=> (\E t \in Team : sc[t] >= PointsToWin)
  /\ \E t \in Team : sc[t] < PointsToWin
  /\ st = "in_progress" =>
       /\ h.special = "mao_de_onze" <=>
            \E t \in Team : sc[t] = 11 /\ sc[Opponent(t)] < 11
       /\ h.special = "mao_de_onze" => sc[h.decider] = 11
       /\ h.special = "mao_de_ferro" <=> \A t \in Team : sc[t] = 11
  /\ st = "waiting" /\ h # NoHand /\ PointsToWin <= 12 =>
       h.special # "mao_de_ferro"

SoundCopy(m) == Sound(m.state, m.score, m.hand)

Copy == [ state : {"waiting", "in_progress", "finished"},
          score : [Team -> Nat], hand : HandType \cup {NoHand} ]

Task == [ pc : {"saving", "answering"}, id : Nat, match : Copy,
          log : SUBSET Nat ]

StoreTypeOK ==
  /\ tasks \in [Handlers -> Task \cup {Idle}]
  /\ given \in Nat /\ log \in SUBSET Nat

\* The inductive invariant: row and copies are sound, and whoever is saving
\* knows of its own command and of all those that were saved alone.
StoreInv ==
  /\ StoreTypeOK
  /\ Sound(state, score, hand)
  /\ \A h \in Handlers : tasks[h] # Idle => SoundCopy(tasks[h].match)
  /\ \A h \in Handlers : Saving(h) =>
       solo \cup {tasks[h].id} \subseteq tasks[h].log
  /\ solo \subseteq log

-----------------------------------------------------------------------------
(* A copy of a sound row is sound *)

LEMMA RowSound == IInv <=> Sound(state, score, hand)
<1>1. IInv => Sound(state, score, hand)
  BY DEF IInv, Sound, TypeOK, HandOpenIffInProgress, OneWinner, SpecialHandFitsScore
<1>2. Sound(state, score, hand) => IInv
  BY DEF IInv, Sound, TypeOK, HandOpenIffInProgress, OneWinner, SpecialHandFitsScore
<1> QED BY <1>1, <1>2

LEMMA CopyType ==
  ASSUME NEW m, NEW st, NEW sc, NEW h,
         m = [state |-> st, score |-> sc, hand |-> h], Sound(st, sc, h)
  PROVE  m \in Copy /\ SoundCopy(m)
<1>1. m.state = st /\ m.score = sc /\ m.hand = h
  OBVIOUS
<1>2. /\ st \in {"waiting", "in_progress", "finished"}
      /\ sc \in [Team -> Nat] /\ h \in HandType \cup {NoHand}
  BY DEF Sound
<1>3. m \in Copy
  BY <1>2 DEF Copy
<1>4. SoundCopy(m)
  BY <1>1 DEF SoundCopy
<1> QED BY <1>3, <1>4

\* A command that leaves the hand live.
LEMMA LiveCopy ==
  ASSUME IInv, state = "in_progress", NEW g, HandOK(g), ~g.finished,
         SameKind(hand, g)
  PROVE  With(g) \in Copy /\ SoundCopy(With(g))
<1>1. Sound(state, score, hand) /\ g \in HandType
  BY RowSound DEF HandOK
<1>2. Sound(state, score, g)
  <2>1. /\ state \in {"waiting", "in_progress", "finished"}
        /\ score \in [Team -> Nat]
        /\ g \in HandType \cup {NoHand}
        /\ g # NoHand => HandOK(g)
        /\ (state = "in_progress") <=> ~g.finished
    BY <1>1 DEF Sound
  <2>2. /\ (state = "finished") <=> (\E t \in Team : score[t] >= PointsToWin)
        /\ \E t \in Team : score[t] < PointsToWin
    BY <1>1 DEF Sound
  <2>3. /\ g.special = "mao_de_onze" <=>
             \E t \in Team : score[t] = 11 /\ score[Opponent(t)] < 11
        /\ g.special = "mao_de_onze" => score[g.decider] = 11
        /\ g.special = "mao_de_ferro" <=> \A t \in Team : score[t] = 11
    BY <1>1 DEF Sound, SameKind
  <2> QED BY <2>1, <2>2, <2>3 DEF Sound
<1> QED BY <1>2, CopyType DEF With

\* A command that may end the hand.
LEMMA SettledCopy ==
  ASSUME IInv, state = "in_progress", NEW g, HandOK(g), SameKind(hand, g)
  PROVE  Settled(g) \in Copy /\ SoundCopy(Settled(g))
<1>1. CASE ~g.finished
  <2>1. Settled(g) = With(g)
    BY <1>1 DEF Settled, With
  <2> QED BY <1>1, <2>1, LiveCopy
<1>2. CASE g.finished
  <2> DEFINE total == [score EXCEPT ![g.winner] = @ + g.awarded]
             st == IF \E t \in Team : total[t] >= PointsToWin
                   THEN "finished" ELSE "waiting"
  <2>1. g \in HandType /\ g # NoHand /\ Ladder(g)
    BY NotNoHand DEF HandOK
  <2>2. g.winner \in Team /\ g.awarded \in {1, 3, 6, 9, 12}
    BY <1>2, <2>1 DEF Ladder, HandType, Value
  <2>3. /\ hand # NoHand /\ score \in [Team -> Nat]
        /\ \A t \in Team : score[t] < PointsToWin
    BY LiveHand
  <2>4. /\ total \in [Team -> Nat]
        /\ total[g.winner] = score[g.winner] + g.awarded
        /\ \A t \in Team \ {g.winner} : total[t] = score[t]
    BY <2>2, <2>3
  <2>5. Settled(g) = [state |-> st, score |-> total, hand |-> g]
    BY <1>2 DEF Settled
  <2> HIDE DEF total
  <2>6. st \in {"waiting", "finished"}
    OBVIOUS
  <2>7. /\ (st = "finished") <=> (\E t \in Team : total[t] >= PointsToWin)
        /\ \E t \in Team : total[t] < PointsToWin
    <3>1. Opponent(g.winner) \in Team \ {g.winner}
      BY <2>2 DEF Opponent, Team
    <3>2. total[Opponent(g.winner)] < PointsToWin
      BY <2>3, <2>4, <3>1
    <3> QED BY <3>1, <3>2
  <2>8. st = "waiting" /\ PointsToWin <= 12 => g.special # "mao_de_ferro"
    <3>1. SUFFICES ASSUME st = "waiting", PointsToWin <= 12
                   PROVE  g.special # "mao_de_ferro"
      OBVIOUS
    <3>2. ~(total[g.winner] >= PointsToWin)
      BY <2>2, <3>1
    <3>3. score[g.winner] # 11
      BY <2>2, <2>3, <2>4, <3>1, <3>2, PointsAssumption
    <3>4. hand.special # "mao_de_ferro"
      BY <2>2, <3>3 DEF IInv, SpecialHandFitsScore
    <3> QED BY <3>4 DEF SameKind
  <2> HIDE DEF st
  <2>9. Sound(st, total, g)
    BY <1>2, <2>1, <2>4, <2>6, <2>7, <2>8 DEF Sound
  <2> QED BY <2>5, <2>9, CopyType
<1> QED BY <1>1, <1>2

\* The first command of a hand.
LEMMA StartedCopy ==
  ASSUME IInv, state = "waiting", NEW deal \in Deals
  PROVE  LET m == [With(InitialHand(deal, score)) EXCEPT !.state = "in_progress"]
         IN  m \in Copy /\ SoundCopy(m)
<1> DEFINE g == InitialHand(deal, score)
           m == [With(g) EXCEPT !.state = "in_progress"]
<1>1. Sound(state, score, hand) /\ score \in [Team -> Nat]
  BY RowSound DEF Sound
<1>2. /\ HandOK(g) /\ ~g.finished
      /\ g.special = "mao_de_onze" <=>
           \E t \in Team : score[t] = 11 /\ score[Opponent(t)] < 11
      /\ g.special = "mao_de_onze" => score[g.decider] = 11
      /\ g.special = "mao_de_ferro" <=> \A t \in Team : score[t] = 11
  BY <1>1, InitialHandOK
<1> HIDE DEF g
<1>3. m = [state |-> "in_progress", score |-> score, hand |-> g]
  BY DEF With
<1>4. /\ ~(\E t \in Team : score[t] >= PointsToWin)
      /\ \E t \in Team : score[t] < PointsToWin
  BY <1>1 DEF Sound
<1>5. Sound("in_progress", score, g)
  BY <1>1, <1>2, <1>4 DEF Sound, HandOK
<1> HIDE DEF m
<1>6. m \in Copy /\ SoundCopy(m)
  BY <1>3, <1>5, CopyType
<1> QED BY <1>6 DEF m, g

-----------------------------------------------------------------------------
(* The inductive invariant *)

LEMMA StoreInitInv == StoreInit => StoreInv
<1> SUFFICES ASSUME StoreInit PROVE StoreInv
  OBVIOUS
<1>1. Sound(state, score, hand)
  BY InitInv, RowSound DEF StoreInit
<1>2. \A h \in Handlers : tasks[h] = Idle
  BY DEF StoreInit
<1>3. StoreTypeOK
  BY DEF StoreInit, StoreTypeOK
<1>4. \A h \in Handlers : ~Saving(h)
  BY <1>2 DEF Saving, Idle
<1>5. solo \subseteq log
  BY DEF StoreInit
<1> QED BY <1>1, <1>2, <1>3, <1>4, <1>5 DEF StoreInv

\* A handler that has made a sound copy.
LEMMA ChangedInv ==
  ASSUME StoreInv, NEW h \in Handlers, NEW m \in Copy, SoundCopy(m), Changed(h, m)
  PROVE  StoreInv'
<1>1. /\ given' = given + 1 /\ given \in Nat /\ log \in SUBSET Nat
      /\ tasks \in [Handlers -> Task \cup {Idle}]
      /\ UNCHANGED <<state, score, hand, log, solo>>
  BY DEF StoreInv, StoreTypeOK, Changed
<1> DEFINE task == [ pc |-> "saving", id |-> given', match |-> m,
                     log |-> log \cup {given'} ]
<1>2. tasks' = [tasks EXCEPT ![h] = task]
  BY DEF Changed
<1>3. task \in Task /\ task # Idle
  BY <1>1 DEF Task, Idle
<1>4. task.match = m /\ task.id = given' /\ task.log = log \cup {given'}
  OBVIOUS
<1> HIDE DEF task
<1>5. /\ tasks' \in [Handlers -> Task \cup {Idle}]
      /\ tasks'[h] = task
      /\ \A k \in Handlers \ {h} : tasks'[k] = tasks[k]
  BY <1>1, <1>2, <1>3
<1>6. StoreTypeOK'
  BY <1>1, <1>5 DEF StoreTypeOK
<1>7. Sound(state, score, hand)'
  BY <1>1 DEF StoreInv, Sound
<1>8. \A k \in Handlers : tasks'[k] # Idle => SoundCopy(tasks'[k].match)
  BY <1>4, <1>5 DEF StoreInv
<1>9. \A k \in Handlers : tasks'[k].pc = "saving" =>
         solo \cup {tasks'[k].id} \subseteq tasks'[k].log
  BY <1>4, <1>5 DEF StoreInv, Saving
<1> QED BY <1>1, <1>6, <1>7, <1>8, <1>9 DEF StoreInv, Saving

LEMMA SaveInv ==
  ASSUME StoreInv, NEW h \in Handlers, Save(h)
  PROVE  StoreInv'
<1>1. /\ given \in Nat /\ log \in SUBSET Nat
      /\ tasks \in [Handlers -> Task \cup {Idle}]
      /\ tasks[h].pc = "saving" /\ tasks[h] # Idle
  BY DEF StoreInv, StoreTypeOK, Save, Saving, Idle
<1>2. tasks[h] \in Task /\ SoundCopy(tasks[h].match)
      /\ solo \cup {tasks[h].id} \subseteq tasks[h].log
  BY <1>1 DEF StoreInv, Saving
<1>3. /\ state' = tasks[h].match.state /\ score' = tasks[h].match.score
      /\ hand' = tasks[h].match.hand
      /\ given' = given /\ log' = tasks[h].log
      /\ solo' = IF \E other \in Handlers \ {h} : Saving(other) THEN solo
                 ELSE solo \cup {tasks[h].id}
  BY DEF Save, Saved
<1> DEFINE done == [tasks[h] EXCEPT !.pc = "answering"]
<1>4. /\ done \in Task /\ done.match = tasks[h].match /\ done.pc = "answering"
      /\ done # Idle
  BY <1>2 DEF Task, Idle
<1>5. tasks' = [tasks EXCEPT ![h] = done]
  BY <1>1 DEF Save, Saved
<1> HIDE DEF done
<1>6. /\ tasks' \in [Handlers -> Task \cup {Idle}]
      /\ tasks'[h] = done
      /\ \A k \in Handlers \ {h} : tasks'[k] = tasks[k]
  BY <1>1, <1>4, <1>5
<1>7. StoreTypeOK'
  BY <1>1, <1>2, <1>3, <1>6 DEF StoreTypeOK, Task
<1>8. Sound(state, score, hand)'
  BY <1>2, <1>3 DEF SoundCopy, Sound
<1>9. \A k \in Handlers : tasks'[k] # Idle => SoundCopy(tasks'[k].match)
  BY <1>2, <1>4, <1>6 DEF StoreInv
<1>10. \A k \in Handlers : tasks'[k].pc = "saving" =>
          solo' \cup {tasks'[k].id} \subseteq tasks'[k].log
  BY <1>3, <1>4, <1>6 DEF StoreInv, Saving
<1>11. solo' \subseteq log'
  BY <1>2, <1>3
<1> QED BY <1>7, <1>8, <1>9, <1>10, <1>11 DEF StoreInv, Saving

LEMMA StoreNextInv == StoreInv /\ [StoreNext]_storeVars => StoreInv'
<1> SUFFICES ASSUME StoreInv, [StoreNext]_storeVars PROVE StoreInv'
  OBVIOUS
<1>0. IInv
  BY RowSound DEF StoreInv
<1>1. ASSUME NEW h \in Handlers, StartHandUseCase(h) PROVE StoreInv'
  <2>1. CASE state = "in_progress" /\ Changed(h, With(hand))
    <3>1. Sound(state, score, hand)
      BY DEF StoreInv
    <3>2. With(hand) \in Copy /\ SoundCopy(With(hand))
      BY <3>1, CopyType DEF With
    <3> QED BY <2>1, <3>2, ChangedInv
  <2>2. ASSUME state = "waiting", NEW deal \in Deals,
               Changed(h, [With(InitialHand(deal, score))
                             EXCEPT !.state = "in_progress"])
        PROVE  StoreInv'
    BY <1>0, <2>2, StartedCopy, ChangedInv
  <2> QED BY <1>1, <2>1, <2>2 DEF StartHandUseCase
<1>2. ASSUME NEW h \in Handlers, PlayCardUseCase(h) PROVE StoreInv'
  <2>1. PICK owner \in Owners, card \in Card :
          /\ MayPlay(hand, owner, card)
          /\ Changed(h, Settled(AfterPlay(hand, owner, card)))
    BY <1>2 DEF PlayCardUseCase
  <2>2. HandOK(hand) /\ state = "in_progress"
    BY <1>0, <1>2, LiveHand DEF PlayCardUseCase
  <2> QED BY <1>0, <2>1, <2>2, PlayOK, SettledCopy, ChangedInv
<1>3. ASSUME NEW h \in Handlers, RequestBetUseCase(h) PROVE StoreInv'
  <2>1. PICK team \in Team, v \in {3, 6, 9, 12} :
          MayRequest(hand, team, v) /\ Changed(h, With(AfterRequest(hand, team, v)))
    BY <1>3 DEF RequestBetUseCase
  <2>2. HandOK(hand) /\ state = "in_progress"
    BY <1>0, <1>3, LiveHand DEF RequestBetUseCase
  <2> QED BY <1>0, <2>1, <2>2, RequestOK, LiveCopy, ChangedInv
<1>4. ASSUME NEW h \in Handlers, AcceptBetUseCase(h) PROVE StoreInv'
  <2>1. PICK team \in Team :
          MayAnswer(hand, team) /\ Changed(h, With(AfterAccept(hand, team)))
    BY <1>4 DEF AcceptBetUseCase
  <2>2. HandOK(hand) /\ state = "in_progress"
    BY <1>0, <1>4, LiveHand DEF AcceptBetUseCase
  <2> QED BY <1>0, <2>1, <2>2, AcceptOK, LiveCopy, ChangedInv
<1>5. ASSUME NEW h \in Handlers, DeclineBetUseCase(h) PROVE StoreInv'
  <2>1. PICK team \in Team :
          MayAnswer(hand, team) /\ Changed(h, Settled(AfterDecline(hand)))
    BY <1>5 DEF DeclineBetUseCase
  <2>2. HandOK(hand) /\ state = "in_progress"
    BY <1>0, <1>5, LiveHand DEF DeclineBetUseCase
  <2> QED BY <1>0, <2>1, <2>2, DeclineOK, SettledCopy, ChangedInv
<1>6. ASSUME NEW h \in Handlers, AcceptMaoDeOnzeUseCase(h) PROVE StoreInv'
  <2>1. PICK team \in Team :
          MayDecideOnze(hand, team) /\ Changed(h, With(AfterAcceptOnze(hand)))
    BY <1>6 DEF AcceptMaoDeOnzeUseCase
  <2>2. HandOK(hand) /\ ~hand.finished /\ state = "in_progress"
    BY <1>0, <1>6, LiveHand DEF AcceptMaoDeOnzeUseCase
  <2> QED BY <1>0, <2>1, <2>2, AcceptOnzeOK, LiveCopy, ChangedInv
<1>7. ASSUME NEW h \in Handlers, DeclineMaoDeOnzeUseCase(h) PROVE StoreInv'
  <2>1. PICK team \in Team :
          MayDecideOnze(hand, team) /\ Changed(h, Settled(AfterDeclineOnze(hand, team)))
    BY <1>7 DEF DeclineMaoDeOnzeUseCase
  <2>2. HandOK(hand) /\ ~hand.finished /\ state = "in_progress"
    BY <1>0, <1>7, LiveHand DEF DeclineMaoDeOnzeUseCase
  <2> QED BY <1>0, <2>1, <2>2, DeclineOnzeOK, SettledCopy, ChangedInv
<1>8. ASSUME NEW h \in Handlers, Answer(h) PROVE StoreInv'
  <2>1. /\ tasks' = [tasks EXCEPT ![h] = Idle]
        /\ UNCHANGED <<state, score, hand, given, log, solo>>
        /\ tasks \in [Handlers -> Task \cup {Idle}]
    BY <1>8 DEF Answer, StoreInv, StoreTypeOK
  <2>2. /\ tasks' \in [Handlers -> Task \cup {Idle}] /\ tasks'[h] = Idle
        /\ \A k \in Handlers \ {h} : tasks'[k] = tasks[k]
    BY <2>1
  <2>3. StoreTypeOK' /\ Sound(state, score, hand)'
    BY <2>1, <2>2 DEF StoreInv, StoreTypeOK, Sound
  <2>4. \A k \in Handlers : tasks'[k] # Idle => SoundCopy(tasks'[k].match)
    BY <2>2 DEF StoreInv
  <2>5. \A k \in Handlers : tasks'[k].pc = "saving" =>
           solo \cup {tasks'[k].id} \subseteq tasks'[k].log
    BY <2>2 DEF StoreInv, Saving, Idle
  <2> QED BY <2>1, <2>3, <2>4, <2>5 DEF StoreInv, Saving
<1>9. CASE UNCHANGED storeVars
  BY <1>9 DEF storeVars, StoreInv, StoreTypeOK, Sound, Saving
<1> QED BY <1>1, <1>2, <1>3, <1>4, <1>5, <1>6, <1>7, <1>8, <1>9, SaveInv
           DEF StoreNext

LEMMA StoreInvariance == StoreSpec => []StoreInv
BY StoreInitInv, StoreNextInv, PTL DEF StoreSpec

-----------------------------------------------------------------------------
(* The properties the run checks, for every instance *)

(* Use cases that overlap leave a match the rules allow in the database,   *)
(* whichever of them saves last.                                           *)
THEOREM StoredSound == StoreSpec => []StoredMatchSound
<1>1. StoreInv => StoredMatchSound
  <2> SUFFICES ASSUME StoreInv PROVE StoredMatchSound
    OBVIOUS
  <2>1. IInv
    BY RowSound DEF StoreInv
  <2>2. StateInvariants /\ LadderInv /\ EndsWhenSecured
    BY <2>1, NeverThrows, LadderKept, EndsInTime
  <2>3. HandOpenIffInProgress /\ OneWinner /\ SpecialHandFitsScore
    BY <2>1 DEF IInv
  <2> QED BY <2>2, <2>3 DEF StoredMatchSound
<1> QED BY <1>1, StoreInvariance, PTL

(* A command saved while no other save was under way is never undone.      *)
THEOREM SoloStays == StoreSpec => []SoloCommandsStay
<1>1. StoreInv => SoloCommandsStay
  BY DEF StoreInv, SoloCommandsStay
<1> QED BY <1>1, StoreInvariance, PTL
=============================================================================
