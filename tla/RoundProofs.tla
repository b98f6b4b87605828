----------------------------- MODULE RoundProofs -----------------------------
(* The card order, and who takes a round: for all cards, any deck and any  *)
(* order of play.  A fold over the plays is followed prefix by prefix: its *)
(* values on the first k plays are one function of k.                      *)
EXTENDS Round, FiniteSetTheorems, WellFoundedInduction, TLAPS

-----------------------------------------------------------------------------
(* The card order *)

(* compareCards orders the cards by one number each, so it is a total      *)
(* preorder: whichever card a round's best is compared with, the outcome   *)
(* is the same.                                                            *)
THEOREM CompareIsStrength ==
  ASSUME NEW x \in Card, NEW y \in Card, NEW vira \in Rank
  PROVE  /\ CompareCards(x, y, vira) = "A" <=>
              Strength(x, vira) > Strength(y, vira)
         /\ CompareCards(x, y, vira) = "B" <=>
              Strength(y, vira) > Strength(x, vira)
         /\ CompareCards(x, y, vira) = "TIE" <=>
              Strength(x, vira) = Strength(y, vira)
<1>1. /\ x.rank \in 0..9 /\ y.rank \in 0..9
      /\ x.suit \in Suit /\ y.suit \in Suit
  BY DEF Card, Rank
<1>2. \A s \in Suit : ManilhaSuitStrength[s] \in 0..3
  BY DEF Suit, ManilhaSuitStrength
<1>3. ManilhaSuitStrength[x.suit] \in 0..3 /\ ManilhaSuitStrength[y.suit] \in 0..3
  BY <1>1, <1>2
<1> QED
  BY <1>1, <1>3 DEF CompareCards, Strength

(* Cards that are not both the same manilha tie only on equal ranks below  *)
(* the manilha.                                                            *)
THEOREM TieIsEqualRank ==
  ASSUME NEW x \in Card, NEW y \in Card, NEW vira \in Rank, x # y,
         CompareCards(x, y, vira) = "TIE"
  PROVE  x.rank = y.rank /\ x.rank # ManilhaRank(vira)
<1>1. /\ x.rank \in 0..9 /\ y.rank \in 0..9
      /\ x.suit \in Suit /\ y.suit \in Suit
      /\ x.rank # y.rank \/ x.suit # y.suit
  BY DEF Card, Rank
<1>2. \A s, t \in Suit : /\ ManilhaSuitStrength[s] \in 0..3
                         /\ ManilhaSuitStrength[s] = ManilhaSuitStrength[t] => s = t
  BY DEF Suit, ManilhaSuitStrength
<1> QED
  BY <1>1, <1>2 DEF CompareCards

-----------------------------------------------------------------------------
(* Folds over the plays, prefix by prefix *)

LEMMA LeastNatural ==
  ASSUME NEW S, S \subseteq Nat, S # {}
  PROVE  \E n \in S : \A m \in S : n <= m
<1> DEFINE R == OpToRel(<, Nat)
<1>1. IsWellFoundedOn(R, Nat) BY NatLessThanWellFounded
<1>2. \E n \in S : \A m \in S : <<m, n>> \notin R BY <1>1, WFMin
<1>3. \A n, m \in Nat : m < n => <<m, n>> \in R BY DEF OpToRel
<1> HIDE DEF R
<1>4. \A n, m \in S : ~(m < n) => n <= m OBVIOUS
<1> QED BY ONLY <1>2, <1>3, <1>4, S \subseteq Nat

\* What holds of 0, and of k + 1 when it holds of k, holds up to any bound: no
\* number is the least that it fails for.
LEMMA UpTo ==
  ASSUME NEW n \in Nat, NEW Good, 0 \in Good,
         \A k \in 0..(n - 1) : k \in Good => k + 1 \in Good
  PROVE  n \in Good
<1> DEFINE Bad == {k \in 0..n : k \notin Good}
<1>1. SUFFICES ASSUME Bad # {} PROVE FALSE
  OBVIOUS
<1>2. PICK k \in Bad : \A m \in Bad : k <= m
  <2>1. Bad \subseteq Nat OBVIOUS
  <2> HIDE DEF Bad
  <2> QED BY <1>1, <2>1, LeastNatural
<1>3. k # 0 /\ k - 1 \in 0..(n - 1) BY <1>2
<1>4. k - 1 \in Good BY <1>2, <1>3
<1>5. (k - 1) + 1 \in Good BY <1>3, <1>4
<1> QED BY <1>2, <1>3, <1>5

LEMMA MaxIs ==
  ASSUME NEW k \in Nat, NEW s, s \subseteq 1..(k + 1), k + 1 \in s
  PROVE  Max(s) = k + 1 /\ s \ {Max(s)} \subseteq 1..k
<1>1. \A x \in s : (\A y \in s : x >= y) => x = k + 1 OBVIOUS
<1>2. \A y \in s : k + 1 >= y OBVIOUS
<1>3. Max(s) \in s /\ \A y \in s : Max(s) >= y BY <1>2 DEF Max
<1>4. Max(s) = k + 1 BY <1>1, <1>3
<1> QED BY <1>4

\* One step of BestPlays' fold.
BestStep(best, p, vira) ==
  LET r == IF best = <<>> THEN "A" ELSE CompareCards(p.card, best[1].card, vira)
  IN  IF r = "A" THEN <<p>>
      ELSE IF r = "TIE" THEN Append(best, p)
      ELSE best

BestFold(plays, vira, h, S) ==
  h = [s \in SUBSET S |-> IF s = {} THEN <<>>
                          ELSE BestStep(h[s \ {Max(s)}], plays[Max(s)], vira)]

LEMMA BestPlaysIs ==
  ASSUME NEW plays, NEW vira
  PROVE  BestPlays(plays, vira) =
           (CHOOSE h : BestFold(plays, vira, h, DOMAIN plays))[DOMAIN plays]
BY DEF BestPlays, FoldLeft, MapThenFoldSet, BestFold, BestStep

LEMMA BestFoldExists ==
  ASSUME NEW plays, NEW vira, NEW n \in Nat
  PROVE  \E h : BestFold(plays, vira, h, 1..n)
<1> DEFINE Good == {k \in Nat : \E h : BestFold(plays, vira, h, 1..k)}
<1>1. 0 \in Good
  <2>1. BestFold(plays, vira, [s \in SUBSET (1..0) |-> <<>>], 1..0)
    BY DEF BestFold
  <2> QED BY <2>1
<1>2. ASSUME NEW k \in 0..(n - 1), k \in Good PROVE k + 1 \in Good
  <2>1. PICK h : BestFold(plays, vira, h, 1..k) BY <1>2
  <2> DEFINE V(s) == IF k + 1 \in s THEN BestStep(h[s \ {Max(s)}], plays[Max(s)], vira)
                     ELSE h[s]
             g == [s \in SUBSET (1..(k + 1)) |-> V(s)]
  <2>2. \A s \in SUBSET (1..k) : g[s] = h[s]
    OBVIOUS
  <2>3. \A s \in SUBSET (1..k) :
          h[s] = IF s = {} THEN <<>> ELSE BestStep(h[s \ {Max(s)}], plays[Max(s)], vira)
    BY <2>1 DEF BestFold
  <2>4. \A s \in SUBSET (1..(k + 1)) :
          s # {} => g[s] = BestStep(g[s \ {Max(s)}], plays[Max(s)], vira)
    <3>1. SUFFICES ASSUME NEW s \in SUBSET (1..(k + 1)), s # {}
                   PROVE g[s] = BestStep(g[s \ {Max(s)}], plays[Max(s)], vira)
      OBVIOUS
    <3>2. CASE k + 1 \in s
      <4>1. s \ {Max(s)} \subseteq 1..k
        <5>1. k \in Nat /\ s \subseteq 1..(k + 1) BY <3>1
        <5> QED BY <3>2, <5>1, MaxIs
      <4>2. g[s \ {Max(s)}] = h[s \ {Max(s)}] BY <2>2, <4>1
      <4>3. g[s] = BestStep(h[s \ {Max(s)}], plays[Max(s)], vira) BY <3>2
      <4> QED BY <4>2, <4>3
    <3>3. CASE k + 1 \notin s
      <4>1. s \in SUBSET (1..k)
        <5>1. \A i \in s : i \in 1..(k + 1) /\ i # k + 1 BY <3>1, <3>3
        <5>2. \A i \in 1..(k + 1) : i # k + 1 => i \in 1..k OBVIOUS
        <5> QED BY ONLY <5>1, <5>2
      <4>2. s \ {Max(s)} \in SUBSET (1..k) BY <4>1
      <4>3. g[s] = h[s] /\ g[s \ {Max(s)}] = h[s \ {Max(s)}] BY <2>2, <4>1, <4>2
      <4> QED BY <2>3, <3>1, <4>1, <4>3
    <3> QED BY <3>2, <3>3
  <2>5. g[{}] = <<>> BY <2>2, <2>3
  <2>6. g = [s \in SUBSET (1..(k + 1)) |-> g[s]] OBVIOUS
  <2> HIDE DEF g
  <2>7. BestFold(plays, vira, g, 1..(k + 1))
    <3>1. \A s \in SUBSET (1..(k + 1)) :
            g[s] = IF s = {} THEN <<>> ELSE BestStep(g[s \ {Max(s)}], plays[Max(s)], vira)
      BY <2>4, <2>5
    <3> QED BY <2>6, <3>1 DEF BestFold
  <2> QED BY <2>7
<1> HIDE DEF Good
<1>3. n \in Good BY <1>1, <1>2, UpTo
<1> QED BY <1>3 DEF Good

\* BestPlays' value on the first k plays, for each k.
LEMMA BestPrefixes ==
  ASSUME NEW n \in Nat, NEW plays, DOMAIN plays = 1..n, NEW vira
  PROVE  \E best : /\ best[0] = <<>>
                   /\ \A k \in 1..n : best[k] = BestStep(best[k - 1], plays[k], vira)
                   /\ BestPlays(plays, vira) = best[n]
<1> DEFINE h == CHOOSE f : BestFold(plays, vira, f, 1..n)
           best == [k \in 0..n |-> h[1..k]]
<1>1. BestFold(plays, vira, h, 1..n) BY BestFoldExists
<1>2. BestPlays(plays, vira) = h[1..n] BY BestPlaysIs
<1> HIDE DEF h
<1>3. \A s \in SUBSET (1..n) :
        h[s] = IF s = {} THEN <<>> ELSE BestStep(h[s \ {Max(s)}], plays[Max(s)], vira)
  BY <1>1 DEF BestFold
<1>4. best[0] = <<>>
  <2>1. 1..0 = {} /\ {} \in SUBSET (1..n) /\ 0 \in 0..n OBVIOUS
  <2>2. h[{}] = <<>> BY <1>3, <2>1
  <2>3. best[0] = h[1..0] BY <2>1
  <2> QED BY <2>1, <2>2, <2>3
<1>5. ASSUME NEW k \in 1..n PROVE best[k] = BestStep(best[k - 1], plays[k], vira)
  <2>1. 1..k \in SUBSET (1..n) /\ 1..k # {} /\ (1..k) \ {k} = 1..(k - 1) OBVIOUS
  <2>2. Max(1..k) = k
    <3>1. k - 1 \in Nat /\ (k - 1) + 1 = k OBVIOUS
    <3> DEFINE j == k - 1
    <3>2. j \in Nat /\ 1..k \subseteq 1..(j + 1) /\ j + 1 \in 1..k BY <3>1
    <3> HIDE DEF j
    <3>3. Max(1..k) = j + 1 BY <3>2, MaxIs
    <3> QED BY <3>1, <3>3 DEF j
  <2>3. h[1..k] = BestStep(h[1..(k - 1)], plays[k], vira) BY <1>3, <2>1, <2>2
  <2> QED BY <2>3
<1>6. best[n] = h[1..n] OBVIOUS
<1> HIDE DEF best
<1> QED BY <1>2, <1>4, <1>5, <1>6

\* One step of TeamBest's fold.
TeamStep(best, p, vira, team) ==
  IF /\ PlayerOf(p.owner) = team
     /\ \/ best = NoPlay
        \/ CompareCards(p.card, best.card, vira) = "A"
  THEN p ELSE best

TeamFold(plays, vira, team, h, S) ==
  h = [s \in SUBSET S |-> IF s = {} THEN NoPlay
                          ELSE TeamStep(h[s \ {Max(s)}], plays[Max(s)], vira, team)]

LEMMA TeamBestIs ==
  ASSUME NEW plays, NEW vira, NEW team
  PROVE  TeamBest(plays, vira, team) =
           (CHOOSE h : TeamFold(plays, vira, team, h, DOMAIN plays))[DOMAIN plays]
BY DEF TeamBest, FoldLeft, MapThenFoldSet, TeamFold, TeamStep

LEMMA TeamFoldExists ==
  ASSUME NEW plays, NEW vira, NEW team, NEW n \in Nat
  PROVE  \E h : TeamFold(plays, vira, team, h, 1..n)
<1> DEFINE Good == {k \in Nat : \E h : TeamFold(plays, vira, team, h, 1..k)}
<1>1. 0 \in Good
  <2>1. TeamFold(plays, vira, team, [s \in SUBSET (1..0) |-> NoPlay], 1..0)
    BY DEF TeamFold
  <2> QED BY <2>1
<1>2. ASSUME NEW k \in 0..(n - 1), k \in Good PROVE k + 1 \in Good
  <2>1. PICK h : TeamFold(plays, vira, team, h, 1..k) BY <1>2
  <2> DEFINE V(s) == IF k + 1 \in s THEN TeamStep(h[s \ {Max(s)}], plays[Max(s)], vira, team)
                     ELSE h[s]
             g == [s \in SUBSET (1..(k + 1)) |-> V(s)]
  <2>2. \A s \in SUBSET (1..k) : g[s] = h[s]
    OBVIOUS
  <2>3. \A s \in SUBSET (1..k) :
          h[s] = IF s = {} THEN NoPlay ELSE TeamStep(h[s \ {Max(s)}], plays[Max(s)], vira, team)
    BY <2>1 DEF TeamFold
  <2>4. \A s \in SUBSET (1..(k + 1)) :
          s # {} => g[s] = TeamStep(g[s \ {Max(s)}], plays[Max(s)], vira, team)
    <3>1. SUFFICES ASSUME NEW s \in SUBSET (1..(k + 1)), s # {}
                   PROVE g[s] = TeamStep(g[s \ {Max(s)}], plays[Max(s)], vira, team)
      OBVIOUS
    <3>2. CASE k + 1 \in s
      <4>1. s \ {Max(s)} \subseteq 1..k
        <5>1. k \in Nat /\ s \subseteq 1..(k + 1) BY <3>1
        <5> QED BY <3>2, <5>1, MaxIs
      <4>2. g[s \ {Max(s)}] = h[s \ {Max(s)}] BY <2>2, <4>1
      <4>3. g[s] = TeamStep(h[s \ {Max(s)}], plays[Max(s)], vira, team) BY <3>2
      <4> QED BY <4>2, <4>3
    <3>3. CASE k + 1 \notin s
      <4>1. s \in SUBSET (1..k)
        <5>1. \A i \in s : i \in 1..(k + 1) /\ i # k + 1 BY <3>1, <3>3
        <5>2. \A i \in 1..(k + 1) : i # k + 1 => i \in 1..k OBVIOUS
        <5> QED BY ONLY <5>1, <5>2
      <4>2. s \ {Max(s)} \in SUBSET (1..k) BY <4>1
      <4>3. g[s] = h[s] /\ g[s \ {Max(s)}] = h[s \ {Max(s)}] BY <2>2, <4>1, <4>2
      <4> QED BY <2>3, <3>1, <4>1, <4>3
    <3> QED BY <3>2, <3>3
  <2>5. g[{}] = NoPlay BY <2>2, <2>3
  <2>6. g = [s \in SUBSET (1..(k + 1)) |-> g[s]] OBVIOUS
  <2> HIDE DEF g
  <2>7. TeamFold(plays, vira, team, g, 1..(k + 1))
    <3>1. \A s \in SUBSET (1..(k + 1)) :
            g[s] = IF s = {} THEN NoPlay ELSE TeamStep(g[s \ {Max(s)}], plays[Max(s)], vira, team)
      BY <2>4, <2>5
    <3> QED BY <2>6, <3>1 DEF TeamFold
  <2> QED BY <2>7
<1> HIDE DEF Good
<1>3. n \in Good BY <1>1, <1>2, UpTo
<1> QED BY <1>3 DEF Good

\* TeamBest's value on the first k plays, for each k.
LEMMA TeamPrefixes ==
  ASSUME NEW n \in Nat, NEW plays, DOMAIN plays = 1..n, NEW vira, NEW team
  PROVE  \E best : /\ best[0] = NoPlay
                   /\ \A k \in 1..n : best[k] = TeamStep(best[k - 1], plays[k], vira, team)
                   /\ TeamBest(plays, vira, team) = best[n]
<1> DEFINE h == CHOOSE f : TeamFold(plays, vira, team, f, 1..n)
           best == [k \in 0..n |-> h[1..k]]
<1>1. TeamFold(plays, vira, team, h, 1..n) BY TeamFoldExists
<1>2. TeamBest(plays, vira, team) = h[1..n] BY TeamBestIs
<1> HIDE DEF h
<1>3. \A s \in SUBSET (1..n) :
        h[s] = IF s = {} THEN NoPlay ELSE TeamStep(h[s \ {Max(s)}], plays[Max(s)], vira, team)
  BY <1>1 DEF TeamFold
<1>4. best[0] = NoPlay
  <2>1. 1..0 = {} /\ {} \in SUBSET (1..n) /\ 0 \in 0..n OBVIOUS
  <2>2. h[{}] = NoPlay BY <1>3, <2>1
  <2>3. best[0] = h[1..0] BY <2>1
  <2> QED BY <2>1, <2>2, <2>3
<1>5. ASSUME NEW k \in 1..n PROVE best[k] = TeamStep(best[k - 1], plays[k], vira, team)
  <2>1. 1..k \in SUBSET (1..n) /\ 1..k # {} /\ (1..k) \ {k} = 1..(k - 1) OBVIOUS
  <2>2. Max(1..k) = k
    <3>1. k - 1 \in Nat /\ (k - 1) + 1 = k OBVIOUS
    <3> DEFINE j == k - 1
    <3>2. j \in Nat /\ 1..k \subseteq 1..(j + 1) /\ j + 1 \in 1..k BY <3>1
    <3> HIDE DEF j
    <3>3. Max(1..k) = j + 1 BY <3>2, MaxIs
    <3> QED BY <3>1, <3>3 DEF j
  <2>3. h[1..k] = TeamStep(h[1..(k - 1)], plays[k], vira, team) BY <1>3, <2>1, <2>2
  <2> QED BY <2>3
<1>6. best[n] = h[1..n] OBVIOUS
<1> HIDE DEF best
<1> QED BY <1>2, <1>4, <1>5, <1>6

-----------------------------------------------------------------------------
(* What the folds return *)

\* The plays of a round: a card of the deck each, from an owner of the round.
Plays(plays, n) ==
  /\ DOMAIN plays = 1..n
  /\ \A i \in 1..n : plays[i].owner \in Owners /\ plays[i].card \in Card

\* The greatest strength among the plays of I.
Tops(plays, vira, I) ==
  {i \in I : \A j \in I : Strength(plays[i].card, vira) >= Strength(plays[j].card, vira)}

LEMMA StrengthIs ==
  ASSUME NEW x \in Card, NEW vira \in Rank
  PROVE  Strength(x, vira) \in Nat
<1>1. x.rank \in 0..9 /\ x.suit \in Suit BY DEF Card, Rank
<1>2. \A s \in Suit : ManilhaSuitStrength[s] \in 0..3 BY DEF Suit, ManilhaSuitStrength
<1> QED BY <1>1, <1>2 DEF Strength

\* best holds the strongest of the plays of I, the first of them first.
IsBest(best, plays, vira, I) ==
  /\ best \in Seq({plays[i] : i \in I}) /\ Len(best) >= 1
  /\ \A b \in 1..Len(best) : \E i \in Tops(plays, vira, I) : best[b] = plays[i]
  /\ \A i \in Tops(plays, vira, I) : \E b \in 1..Len(best) : best[b] = plays[i]
  /\ \E f \in Tops(plays, vira, I) :
       best[1] = plays[f] /\ \A i \in Tops(plays, vira, I) : f <= i

LEMMA BestOne ==
  ASSUME NEW n \in Nat, NEW plays, Plays(plays, n), NEW vira \in Rank,
         NEW k \in 1..n, NEW I \in SUBSET (1..k), k \in I,
         Tops(plays, vira, I) = {k}
  PROVE  IsBest(<<plays[k]>>, plays, vira, I)
<1> DEFINE best == <<plays[k]>>
<1>1. best \in Seq({plays[i] : i \in I}) /\ Len(best) = 1 /\ best[1] = plays[k]
  OBVIOUS
<1>2. k <= k OBVIOUS
<1> HIDE DEF best
<1>3. IsBest(best, plays, vira, I) BY <1>1, <1>2 DEF IsBest
<1> QED BY <1>3 DEF best

LEMMA BestAppended ==
  ASSUME NEW n \in Nat, NEW plays, Plays(plays, n), NEW vira \in Rank,
         NEW k \in Nat, k + 1 \in 1..n, NEW best, IsBest(best, plays, vira, 1..k),
         Tops(plays, vira, 1..(k + 1)) = Tops(plays, vira, 1..k) \cup {k + 1}
  PROVE  IsBest(Append(best, plays[k + 1]), plays, vira, 1..(k + 1))
<1> DEFINE old == Tops(plays, vira, 1..k)
           new == Tops(plays, vira, 1..(k + 1))
           after == Append(best, plays[k + 1])
           S == {plays[i] : i \in 1..(k + 1)}
<1>1. best \in Seq(S) /\ Len(best) \in Nat /\ Len(best) >= 1
  <2>1. {plays[i] : i \in 1..k} \subseteq S OBVIOUS
  <2>2. best \in Seq({plays[i] : i \in 1..k}) BY DEF IsBest
  <2> DEFINE R == {plays[i] : i \in 1..k}
  <2> HIDE DEF R, S
  <2>3. best \in Seq(S) BY <2>1, <2>2 DEF R
  <2> QED BY <2>3 DEF IsBest
<1>2. plays[k + 1] \in S OBVIOUS
<1> HIDE DEF S
<1>3. /\ after \in Seq(S) /\ Len(after) = Len(best) + 1
      /\ after[Len(best) + 1] = plays[k + 1]
      /\ \A b \in 1..Len(best) : after[b] = best[b]
  BY <1>1, <1>2
<1>4. new = old \cup {k + 1} OBVIOUS
<1>5. \A i \in old : i \in 1..k BY DEF Tops
<1> HIDE DEF after, old, new
<1>6. \A b \in 1..Len(after) : \E i \in new : after[b] = plays[i]
  <2>1. \A b \in 1..Len(best) : \E i \in old : best[b] = plays[i] BY DEF IsBest, old
  <2>2. \A b \in 1..Len(after) : b \in 1..Len(best) \/ b = Len(best) + 1 BY <1>1, <1>3
  <2> QED BY <1>3, <1>4, <2>1, <2>2
<1>7. \A i \in new : \E b \in 1..Len(after) : after[b] = plays[i]
  <2>1. \A i \in old : \E b \in 1..Len(best) : best[b] = plays[i] BY DEF IsBest, old
  <2>2. Len(best) + 1 \in 1..Len(after) /\ \A b \in 1..Len(best) : b \in 1..Len(after)
    BY <1>1, <1>3
  <2> QED BY <1>3, <1>4, <2>1, <2>2
<1>8. \E f \in new : after[1] = plays[f] /\ \A i \in new : f <= i
  <2>1. PICK f \in old : best[1] = plays[f] /\ \A i \in old : f <= i BY DEF IsBest, old
  <2>2. after[1] = best[1] BY <1>1, <1>3
  <2>3. f <= k + 1 BY <1>5, <2>1
  <2> QED BY <1>4, <2>1, <2>2, <2>3
<1>9. Len(after) >= 1 BY <1>1, <1>3
<1>10. IsBest(after, plays, vira, 1..(k + 1))
  BY <1>3, <1>6, <1>7, <1>8, <1>9 DEF IsBest, new, S
<1> QED BY <1>10 DEF after

LEMMA BestStepKeeps ==
  ASSUME NEW n \in Nat, NEW plays, Plays(plays, n), NEW vira \in Rank,
         NEW k \in 1..(n - 1), NEW best, IsBest(best, plays, vira, 1..k)
  PROVE  IsBest(BestStep(best, plays[k + 1], vira), plays, vira, 1..(k + 1))
<1> DEFINE st(i) == Strength(plays[i].card, vira)
           r == CompareCards(plays[k + 1].card, best[1].card, vira)
           old == Tops(plays, vira, 1..k)
           new == Tops(plays, vira, 1..(k + 1))
<1>1. \A i \in 1..(k + 1) : i \in 1..n /\ plays[i].card \in Card /\ st(i) \in Nat
  BY StrengthIs DEF Plays
<1>2. PICK f \in old : best[1] = plays[f] BY DEF IsBest
<1>3. f \in 1..k /\ \A j \in 1..k : st(f) >= st(j) BY DEF Tops
<1>4. /\ r = "A" <=> st(k + 1) > st(f)
      /\ r = "B" <=> st(f) > st(k + 1)
      /\ r = "TIE" <=> st(k + 1) = st(f)
  <2>1. plays[k + 1].card \in Card /\ plays[f].card \in Card BY <1>1, <1>3
  <2> QED BY <1>2, <2>1, CompareIsStrength
<1>5. /\ \A i \in 1..(k + 1) : i \in 1..k \/ i = k + 1
      /\ \A i \in 1..k : i \in 1..(k + 1) /\ i # k + 1
      /\ k + 1 \in 1..(k + 1)
  OBVIOUS
<1>6. best # <<>> BY DEF IsBest
<1> DEFINE s == plays[k + 1]
<1>7. BestStep(best, s, vira) = IF r = "A" THEN <<s>>
                                ELSE IF r = "TIE" THEN Append(best, s) ELSE best
  BY <1>6 DEF BestStep
<1>8. /\ \A i : i \in new <=> i \in 1..(k + 1) /\ \A j \in 1..(k + 1) : st(i) >= st(j)
      /\ \A i : i \in old <=> i \in 1..k /\ \A j \in 1..k : st(i) >= st(j)
  BY DEF Tops
<1>9. k + 1 \in 1..n /\ k \in Nat OBVIOUS
<1> DEFINE e == k + 1
           N == 1..e
           K == 1..k
<1> HIDE DEF st, r, old, new, e, N, K
<1>10. /\ N = K \cup {e} /\ e \notin K /\ f \in K
       /\ \A i \in N : st(i) \in Nat
       /\ \A j \in K : st(f) >= st(j)
       /\ \A i : i \in new <=> i \in N /\ \A j \in N : st(i) >= st(j)
       /\ \A i : i \in old <=> i \in K /\ \A j \in K : st(i) >= st(j)
  BY <1>1, <1>3, <1>5, <1>8 DEF e, N, K
<1>11. CASE r = "A"
  <2>1. new = {k + 1}
    <3>1. st(e) > st(f) BY <1>4, <1>11 DEF e
    <3>2. \A j \in K : st(e) > st(j) BY <1>10, <3>1
    <3>3. new = {e} BY <1>10, <3>2
    <3> QED BY <3>3 DEF e
  <2>2. IsBest(<<s>>, plays, vira, 1..(k + 1)) BY <1>9, <2>1, BestOne DEF new
  <2> QED BY <1>7, <1>11, <2>2
<1>12. CASE r = "TIE"
  <2>1. new = old \cup {k + 1}
    <3>1. st(e) = st(f) BY <1>4, <1>12 DEF e
    <3>2. \A j \in N : st(e) >= st(j) BY <1>10, <3>1
    <3>3. \A i \in K : i \in old => st(i) >= st(e) BY <1>10, <3>1
    <3>4. e \in new BY <1>10, <3>2
    <3>5. ASSUME NEW i \in old PROVE i \in new BY <1>10, <3>3
    <3>6. ASSUME NEW i \in new, i # e PROVE i \in old BY <1>10, <3>6
    <3>7. new = old \cup {e} BY <3>4, <3>5, <3>6
    <3> QED BY <3>7 DEF e
  <2>2. IsBest(Append(best, s), plays, vira, 1..(k + 1))
    BY <1>9, <2>1, BestAppended DEF new, old
  <2> QED BY <1>7, <1>12, <2>2
<1>13. CASE r = "B"
  <2>1. new = old
    <3>1. st(f) > st(e) BY <1>4, <1>13 DEF e
    <3>2. e \notin new BY <1>10, <3>1
    <3>3. ASSUME NEW i \in new PROVE i \in old BY <1>10, <3>2
    <3>4. ASSUME NEW i \in old PROVE i \in new
      <4>1. st(i) >= st(f) /\ i \in K BY <1>10
      <4>2. st(i) >= st(e) BY <1>10, <3>1, <4>1
      <4> QED BY <1>10, <4>1, <4>2
    <3> QED BY <3>3, <3>4
  <2>2. {plays[i] : i \in 1..k} \subseteq {plays[i] : i \in 1..(k + 1)} OBVIOUS
  <2>3. best \in Seq({plays[i] : i \in 1..(k + 1)})
    <3> DEFINE R == {plays[i] : i \in 1..k}
               S == {plays[i] : i \in 1..(k + 1)}
    <3>1. best \in Seq(R) BY DEF IsBest
    <3> HIDE DEF R, S
    <3>2. best \in Seq(S) BY <2>2, <3>1 DEF R, S
    <3> QED BY <3>2 DEF S
  <2>4. IsBest(best, plays, vira, 1..(k + 1)) BY <2>1, <2>3 DEF IsBest, new, old
  <2> QED BY <1>7, <1>13, <2>4
<1>14. r \in {"A", "B", "TIE"} BY <1>1, <1>3, <1>4
<1> QED BY <1>11, <1>12, <1>13, <1>14

(* getBestPlays returns the strongest of the plays, the first of them      *)
(* first, however many there are and in whatever order they were made.     *)
LEMMA BestPlaysAreTops ==
  ASSUME NEW n \in Nat \ {0}, NEW plays, Plays(plays, n), NEW vira \in Rank
  PROVE  IsBest(BestPlays(plays, vira), plays, vira, 1..n)
<1>1. PICK best : /\ best[0] = <<>>
                  /\ \A k \in 1..n : best[k] = BestStep(best[k - 1], plays[k], vira)
                  /\ BestPlays(plays, vira) = best[n]
  BY BestPrefixes DEF Plays
<1> DEFINE Good == {k \in 0..n : k = 0 \/ IsBest(best[k], plays, vira, 1..k)}
<1>2. 0 \in Good OBVIOUS
<1>3. ASSUME NEW k \in 0..(n - 1), k \in Good PROVE k + 1 \in Good
  <2>1. k + 1 \in 1..n /\ (k + 1) - 1 = k OBVIOUS
  <2>2. best[k + 1] = BestStep(best[k], plays[k + 1], vira) BY <1>1, <2>1
  <2>3. CASE k = 0
    <3>1. 1..1 = {1} /\ 1 \in 1..n OBVIOUS
    <3>2. Tops(plays, vira, 1..1) = {1}
      <4>1. Strength(plays[1].card, vira) \in Nat BY <3>1, StrengthIs DEF Plays
      <4> QED BY <3>1, <4>1 DEF Tops
    <3>3. IsBest(<<plays[1]>>, plays, vira, 1..1) BY <3>1, <3>2, BestOne
    <3>4. best[1] = <<plays[1]>>
      BY <1>1, <2>2, <2>3 DEF BestStep
    <3> QED BY <2>1, <2>3, <3>3, <3>4
  <2>4. CASE k # 0
    <3>1. k \in 1..(n - 1) /\ IsBest(best[k], plays, vira, 1..k) BY <1>3, <2>4
    <3>2. IsBest(best[k + 1], plays, vira, 1..(k + 1)) BY <2>2, <3>1, BestStepKeeps
    <3> QED BY <2>1, <3>2
  <2> QED BY <2>3, <2>4
<1> HIDE DEF Good
<1>4. n \in Good BY <1>2, <1>3, UpTo
<1> QED BY <1>1, <1>4 DEF Good

\* The plays of a team among the first k.
Own(plays, team, k) == {i \in 1..k : PlayerOf(plays[i].owner) = team}

\* best is the first strongest of the plays of I, or none when I is empty.
IsTeamBest(best, plays, vira, I) ==
  IF I = {} THEN best = NoPlay
  ELSE \E f \in Tops(plays, vira, I) : best = plays[f]

(* getBestPlayForPlayer returns a strongest of the team's plays.           *)
LEMMA TeamBestIsTop ==
  ASSUME RoundAssumption, NEW n \in Nat, NEW plays, Plays(plays, n),
         NEW vira \in Rank, NEW team
  PROVE  IsTeamBest(TeamBest(plays, vira, team), plays, vira, Own(plays, team, n))
<1>1. PICK best : /\ best[0] = NoPlay
                  /\ \A k \in 1..n : best[k] = TeamStep(best[k - 1], plays[k], vira, team)
                  /\ TeamBest(plays, vira, team) = best[n]
  <2>1. DOMAIN plays = 1..n BY DEF Plays
  <2> QED BY ONLY <2>1, n \in Nat, TeamPrefixes
<1> DEFINE I(k) == Own(plays, team, k)
           st(i) == Strength(plays[i].card, vira)
           Good == {k \in 0..n : IsTeamBest(best[k], plays, vira, I(k))}
<1>2. 0 \in Good
  <2>1. I(0) = {} /\ 0 \in 0..n BY DEF Own
  <2> QED BY <1>1, <2>1 DEF IsTeamBest
<1>3. \A i \in 1..n : plays[i].card \in Card /\ st(i) \in Nat /\ plays[i] # NoPlay
  <2>1. \A i \in 1..n : plays[i].owner # None
    BY DEF Plays, RoundAssumption, Team, None
  <2> QED BY <2>1, StrengthIs DEF Plays, NoPlay
<1>4. ASSUME NEW k \in 0..(n - 1), k \in Good PROVE k + 1 \in Good
  <2> DEFINE e == k + 1
             old == I(k)
             new == I(e)
             b == best[k]
             c == best[e]
             p == plays[e]
  <2>1. e \in 1..n /\ e - 1 = k /\ e \in 0..n OBVIOUS
  <2>2. c = TeamStep(b, p, vira, team) BY <1>1, <2>1
  <2>3. IsTeamBest(b, plays, vira, old) BY <1>4
  <2>4. /\ new = IF PlayerOf(p.owner) = team THEN old \cup {e} ELSE old
        /\ \A i \in new : i \in 1..n
        /\ \A i \in old : i \in 1..n
    <3>1. 1..e = 1..k \cup {e} OBVIOUS
    <3>2. 1..e \subseteq 1..n /\ 1..k \subseteq 1..n OBVIOUS
    <3> HIDE DEF e
    <3> QED BY <3>1, <3>2 DEF Own
  <2>5. \A J : Tops(plays, vira, J) = {i \in J : \A j \in J : st(i) >= st(j)}
    BY DEF Tops
  <2> HIDE DEF e, old, new, b, c, p, st, I
  <2>6. SUFFICES IsTeamBest(c, plays, vira, new)
    BY <2>1 DEF c, new, e
  <2>7. CASE PlayerOf(p.owner) # team
    BY <2>2, <2>3, <2>4, <2>7 DEF TeamStep
  <2>8. CASE PlayerOf(p.owner) = team /\ old = {}
    <3>1. c = p /\ new = {e} BY <2>2, <2>3, <2>4, <2>8 DEF TeamStep, IsTeamBest
    <3>2. st(e) >= st(e) BY <1>3, <2>1
    <3>3. e \in Tops(plays, vira, new) BY <2>5, <3>1, <3>2
    <3> QED BY <3>1, <3>3 DEF IsTeamBest, p
  <2>9. CASE PlayerOf(p.owner) = team /\ old # {}
    <3>1. new = old \cup {e} BY <2>4, <2>9
    <3>2. PICK f \in Tops(plays, vira, old) : b = plays[f] BY <2>3, <2>9 DEF IsTeamBest
    <3>3. f \in old /\ f \in 1..n /\ \A j \in old : st(f) >= st(j) BY <2>4, <2>5, <3>2
    <3>4. b # NoPlay BY <1>3, <3>2, <3>3
    <3>5. CompareCards(p.card, b.card, vira) = "A" <=> st(e) > st(f)
      <4>1. p.card \in Card /\ b.card \in Card BY <1>3, <2>1, <3>2, <3>3 DEF p
      <4> QED BY <3>2, <4>1, CompareIsStrength DEF st, p
    <3>6. c = IF st(e) > st(f) THEN p ELSE b BY <2>2, <2>9, <3>4, <3>5 DEF TeamStep
    <3>7. st(e) \in Nat /\ st(f) \in Nat /\ \A j \in old : st(j) \in Nat
      BY <1>3, <2>1, <2>4, <3>3
    <3>8. CASE st(e) > st(f)
      <4>1. \A j \in new : st(e) >= st(j) BY <3>1, <3>3, <3>7, <3>8
      <4>2. e \in Tops(plays, vira, new) BY <2>5, <3>1, <4>1
      <4> QED BY <3>1, <3>6, <3>8, <4>2 DEF IsTeamBest, p
    <3>9. CASE ~(st(e) > st(f))
      <4>1. \A j \in new : st(f) >= st(j) BY <3>1, <3>3, <3>7, <3>9
      <4>2. f \in Tops(plays, vira, new) BY <2>5, <3>1, <3>3, <4>1
      <4> QED BY <3>1, <3>2, <3>6, <3>9, <4>2 DEF IsTeamBest
    <3> QED BY <3>8, <3>9
  <2> QED BY <2>7, <2>8, <2>9
<1> HIDE DEF Good
<1>5. n \in Good BY <1>2, <1>4, UpTo
<1> QED BY <1>1, <1>5 DEF Good

-----------------------------------------------------------------------------
(* The round *)

PlayIn == [owner : Owners, card : Card]

\* Every owner plays at most once, and nobody plays once all have.
IInv ==
  /\ viraRank \in Viras
  /\ orderedPlays \in Seq(PlayIn)
  /\ Len(orderedPlays) <= Cardinality(Owners)
  /\ \A i, j \in 1..Len(orderedPlays) :
       orderedPlays[i].owner = orderedPlays[j].owner => i = j

LEMMA OwnersCount ==
  ASSUME RoundAssumption
  PROVE  /\ Owners = Team => Cardinality(Owners) = 2
         /\ Owners # Team => Cardinality(Owners) = 4
<1>1. Cardinality({"P1", "P2"}) = 2
  <2>1. IsFiniteSet({"P1"}) /\ Cardinality({"P1"}) = 1
    BY FS_Singleton
  <2>2. {"P1", "P2"} = {"P1"} \cup {"P2"} /\ "P2" \notin {"P1"}
    OBVIOUS
  <2> QED BY <2>1, <2>2, FS_AddElement
<1>2. Cardinality({"T1A", "T1B", "T2A", "T2B"}) = 4
  <2>1. IsFiniteSet({"T1A"}) /\ Cardinality({"T1A"}) = 1
    BY FS_Singleton
  <2>2. IsFiniteSet({"T1A"} \cup {"T1B"}) /\ Cardinality({"T1A"} \cup {"T1B"}) = 2
    BY <2>1, FS_AddElement
  <2>3. /\ IsFiniteSet({"T1A"} \cup {"T1B"} \cup {"T2A"})
        /\ Cardinality({"T1A"} \cup {"T1B"} \cup {"T2A"}) = 3
    BY <2>2, FS_AddElement
  <2>4. Cardinality({"T1A"} \cup {"T1B"} \cup {"T2A"} \cup {"T2B"}) = 4
    BY <2>3, FS_AddElement
  <2>5. {"T1A"} \cup {"T1B"} \cup {"T2A"} \cup {"T2B"} = {"T1A", "T1B", "T2A", "T2B"}
    OBVIOUS
  <2> QED BY <2>4, <2>5
<1> QED BY <1>1, <1>2 DEF RoundAssumption, Team

LEMMA Invariance == Spec => []IInv
<1> USE RoundAssumption
<1>1. Init => IInv
  <2>1. Cardinality(Owners) >= 0 BY OwnersCount
  <2> QED BY <2>1 DEF Init, IInv
<1>2. IInv /\ [Next]_vars => IInv'
  <2>1. SUFFICES ASSUME IInv, [Next]_vars PROVE IInv'
    OBVIOUS
  <2>2. CASE UNCHANGED vars
    BY <2>1, <2>2 DEF IInv, vars
  <2>3. ASSUME NEW owner \in Owners, NEW card \in Deck, PlayCard(owner, card)
        PROVE  IInv'
    <3> DEFINE p == Play(owner, card)
               n == Len(orderedPlays)
    <3>1. card \in Card BY DEF RoundAssumption
    <3>2. p \in PlayIn /\ p.owner = owner BY <3>1 DEF Play, PlayIn
    <3>3. /\ orderedPlays \in Seq(PlayIn) /\ orderedPlays' = Append(orderedPlays, p)
          /\ n \in Nat /\ ~(n >= Cardinality(Owners))
          /\ \A i \in 1..n : orderedPlays[i].owner # owner
      BY <2>1, <2>3 DEF IInv, PlayCard, Finished
    <3>4. Cardinality(Owners) \in Nat BY OwnersCount
    <3> HIDE DEF p
    <3>5. /\ orderedPlays' \in Seq(PlayIn) /\ Len(orderedPlays') = n + 1
          /\ orderedPlays'[n + 1] = p
          /\ \A i \in 1..n : orderedPlays'[i] = orderedPlays[i]
      BY <3>2, <3>3
    <3>6. ASSUME NEW i \in 1..(n + 1), NEW j \in 1..(n + 1),
                 orderedPlays'[i].owner = orderedPlays'[j].owner
          PROVE  i = j
      <4>1. \A k \in 1..(n + 1) : k \in 1..n \/ k = n + 1 BY <3>3
      <4>2. \A k, l \in 1..n : orderedPlays[k].owner = orderedPlays[l].owner => k = l
        BY <2>1 DEF IInv
      <4> QED BY <3>2, <3>3, <3>5, <3>6, <4>1, <4>2
    <3> QED BY <2>1, <2>3, <3>3, <3>4, <3>5, <3>6 DEF IInv, PlayCard
  <2> QED BY <2>1, <2>2, <2>3 DEF Next
<1> QED BY <1>1, <1>2, PTL DEF Spec

\* A round that is over has a play of each team and at least two plays.
LEMMA BothPlayed ==
  ASSUME RoundAssumption, IInv, Finished, NEW team \in Team
  PROVE  \E i \in 1..Len(orderedPlays) : PlayerOf(orderedPlays[i].owner) = team
<1> DEFINE o(i) == orderedPlays[i].owner
           n == Len(orderedPlays)
<1>1. /\ n = Cardinality(Owners)
      /\ \A i \in 1..n : o(i) \in Owners
      /\ \A i, j \in 1..n : o(i) = o(j) => i = j
  <2>1. n \in Nat /\ n <= Cardinality(Owners) /\ n >= Cardinality(Owners)
    BY DEF IInv, Finished
  <2>2. Cardinality(Owners) \in Nat BY OwnersCount
  <2>3. \A i \in 1..n : orderedPlays[i] \in PlayIn BY DEF IInv
  <2>4. \A i \in 1..n : o(i) \in Owners BY <2>3 DEF PlayIn
  <2> QED BY <2>1, <2>2, <2>4 DEF IInv
<1> HIDE DEF o, n
<1>2. CASE Owners = Team
  <2>1. n = 2 BY <1>1, <1>2, OwnersCount
  <2>2. {o(1), o(2)} \subseteq {"P1", "P2"} /\ o(1) # o(2)
    BY <1>1, <1>2, <2>1 DEF Team
  <2>3. \E i \in 1..n : o(i) = team BY <2>1, <2>2 DEF Team
  <2>4. PlayerOf(team) = team BY DEF PlayerOf, Team
  <2> QED BY <2>3, <2>4 DEF o, n
<1>3. CASE Owners = {"T1A", "T1B", "T2A", "T2B"}
  <2>1. n = 4
    <3>1. Owners # Team BY <1>3 DEF Team
    <3> QED BY <1>1, <3>1, OwnersCount
  <2>2. /\ {o(1), o(2), o(3), o(4)} \subseteq {"T1A", "T1B", "T2A", "T2B"}
        /\ o(1) # o(2) /\ o(1) # o(3) /\ o(1) # o(4)
        /\ o(2) # o(3) /\ o(2) # o(4) /\ o(3) # o(4)
    BY <1>1, <1>3, <2>1
  <2>3. \E i \in 1..n : o(i) = "T1A" BY <2>1, <2>2
  <2>4. \E i \in 1..n : o(i) = "T2A" BY <2>1, <2>2
  <2>5. PlayerOf("T1A") = "P1" /\ PlayerOf("T2A") = "P2" BY DEF PlayerOf
  <2> QED BY <2>3, <2>4, <2>5 DEF o, n, Team
<1> QED BY <1>2, <1>3 DEF RoundAssumption

\* The plays of a round that is over, and what they are compared by.
LEMMA RoundOver ==
  ASSUME RoundAssumption, IInv, Finished
  PROVE  /\ Len(orderedPlays) \in Nat \ {0} /\ viraRank \in Rank
         /\ Plays(orderedPlays, Len(orderedPlays))
         /\ StrongestPlays(orderedPlays, viraRank)
              = Tops(orderedPlays, viraRank, 1..Len(orderedPlays))
<1>1. DOMAIN orderedPlays = 1..Len(orderedPlays) /\ Len(orderedPlays) \in Nat
  BY DEF IInv
<1>2. \A i \in 1..Len(orderedPlays) :
        orderedPlays[i].owner \in Owners /\ orderedPlays[i].card \in Card
  <2>1. \A i \in 1..Len(orderedPlays) : orderedPlays[i] \in PlayIn BY DEF IInv
  <2> QED BY <2>1 DEF PlayIn
<1>3. Len(orderedPlays) # 0
  <2>1. PICK i \in 1..Len(orderedPlays) : PlayerOf(orderedPlays[i].owner) = "P1"
    BY BothPlayed DEF Team
  <2> QED BY <1>1, <2>1
<1>4. viraRank \in Rank BY DEF IInv, RoundAssumption
<1> QED BY <1>1, <1>2, <1>3, <1>4 DEF Plays, StrongestPlays, Tops

LEMMA TeamOfOwner == \A owner : PlayerOf(owner) \in Team
BY DEF PlayerOf, Team

\* The teams RoundResult looks at are those of the strongest plays.
LEMMA ResultIs ==
  ASSUME RoundAssumption, IInv, Finished
  PROVE  LET teams == {PlayerOf(orderedPlays[i].owner) :
                         i \in StrongestPlays(orderedPlays, viraRank)}
             result == RoundResult(orderedPlays, viraRank)
         IN  /\ teams # {} /\ teams \subseteq Team
             /\ teams = Team => result = "TIE"
             /\ \A t \in Team : teams = {t} => result = t
<1> DEFINE n == Len(orderedPlays)
           tops == Tops(orderedPlays, viraRank, 1..n)
           best == BestPlays(orderedPlays, viraRank)
           of(p) == PlayerOf(p.owner)
           teams == {of(orderedPlays[i]) : i \in tops}
           these == {of(best[b]) : b \in DOMAIN best}
<1>1. IsBest(best, orderedPlays, viraRank, 1..n) BY RoundOver, BestPlaysAreTops
<1>2. DOMAIN best = 1..Len(best) BY <1>1 DEF IsBest
<1>3. these = teams
  <2> HIDE DEF best, tops, of
  <2>1. \A b \in 1..Len(best) : \E i \in tops : best[b] = orderedPlays[i]
    BY <1>1 DEF IsBest, tops
  <2>2. \A i \in tops : \E b \in 1..Len(best) : best[b] = orderedPlays[i]
    BY <1>1 DEF IsBest, tops
  <2> QED BY <1>2, <2>1, <2>2
<1>4. teams # {}
  <2>1. \E f \in tops : best[1] = orderedPlays[f] BY <1>1 DEF IsBest
  <2> HIDE DEF tops
  <2> QED BY <2>1
<1>5. teams \subseteq Team BY TeamOfOwner
<1>6. RoundResult(orderedPlays, viraRank) =
        IF \E t \in Team : these = {t} THEN CHOOSE t \in Team : these = {t} ELSE "TIE"
  BY DEF RoundResult
<1>7. tops = StrongestPlays(orderedPlays, viraRank) BY RoundOver
<1> HIDE DEF these, teams
<1>8. teams = Team => RoundResult(orderedPlays, viraRank) = "TIE"
  BY <1>3, <1>6 DEF Team
<1>9. \A t \in Team : teams = {t} => RoundResult(orderedPlays, viraRank) = t
  <2>1. SUFFICES ASSUME NEW t \in Team, teams = {t}
                 PROVE  RoundResult(orderedPlays, viraRank) = t
    OBVIOUS
  <2>2. \A u \in Team : teams = {u} <=> u = t BY <2>1
  <2>3. (CHOOSE u \in Team : teams = {u}) = t BY <2>2
  <2> QED BY <1>3, <1>6, <2>1, <2>3
<1> QED BY <1>4, <1>5, <1>7, <1>8, <1>9 DEF teams

LEMMA ResultHolds == RoundAssumption /\ IInv => ResultIsStrongest
<1> SUFFICES ASSUME RoundAssumption, IInv, Finished PROVE ResultIsStrongest
  BY DEF ResultIsStrongest
<1> DEFINE teams == {PlayerOf(orderedPlays[i].owner) :
                       i \in StrongestPlays(orderedPlays, viraRank)}
           result == RoundResult(orderedPlays, viraRank)
<1>1. /\ teams # {} /\ teams \subseteq Team
      /\ teams = Team => result = "TIE"
      /\ \A t \in Team : teams = {t} => result = t
  BY ResultIs
<1>2. IF result = "TIE" THEN teams = Team ELSE teams = {result}
  <2> HIDE DEF teams, result
  <2>1. teams = Team \/ \E t \in Team : teams = {t} BY <1>1 DEF Team
  <2> QED BY <1>1, <2>1 DEF Team
<1> QED BY <1>2 DEF ResultIsStrongest

LEMMA LeaderHolds == RoundAssumption /\ IInv => LeaderPlayedStrongestFirst
<1> SUFFICES ASSUME RoundAssumption, IInv, Finished,
                    RoundResult(orderedPlays, viraRank) # "TIE"
             PROVE  LeaderPlayedStrongestFirst
  BY DEF LeaderPlayedStrongestFirst
<1> DEFINE n == Len(orderedPlays)
           strongest == StrongestPlays(orderedPlays, viraRank)
           first == CHOOSE i \in strongest : \A j \in strongest : i <= j
<1>1. PICK f \in strongest : /\ BestPlays(orderedPlays, viraRank)[1] = orderedPlays[f]
                             /\ \A i \in strongest : f <= i
  <2>1. IsBest(BestPlays(orderedPlays, viraRank), orderedPlays, viraRank, 1..n)
    BY RoundOver, BestPlaysAreTops
  <2>2. strongest = Tops(orderedPlays, viraRank, 1..n) BY RoundOver
  <2> HIDE DEF strongest
  <2> QED BY ONLY <2>1, <2>2 DEF IsBest
<1>2. strongest \subseteq Int BY RoundOver DEF Tops
<1>3. first = f
  <2> HIDE DEF strongest
  <2>1. \A i \in strongest : (\A j \in strongest : i <= j) => i = f BY <1>1, <1>2
  <2> QED BY <1>1, <2>1
<1>4. WinningOwner(orderedPlays, viraRank) = orderedPlays[first].owner
  BY <1>1, <1>3 DEF WinningOwner
<1> QED BY <1>4 DEF LeaderPlayedStrongestFirst

LEMMA ShownHolds == RoundAssumption /\ IInv => ShownCardsAgree
<1> SUFFICES ASSUME RoundAssumption, IInv, Finished PROVE ShownCardsAgree
  BY DEF ShownCardsAgree
<1> DEFINE n == Len(orderedPlays)
           o(i) == PlayerOf(orderedPlays[i].owner)
           st(i) == Strength(orderedPlays[i].card, viraRank)
           own(t) == Own(orderedPlays, t, n)
           strongest == StrongestPlays(orderedPlays, viraRank)
           teams == {PlayerOf(orderedPlays[i].owner) : i \in strongest}
           result == RoundResult(orderedPlays, viraRank)
           shown(t) == TeamBest(orderedPlays, viraRank, t).card
           cmp == CompareCards(shown("P1"), shown("P2"), viraRank)
<1>1. /\ n \in Nat /\ viraRank \in Rank /\ Plays(orderedPlays, n)
      /\ strongest = Tops(orderedPlays, viraRank, 1..n)
  BY RoundOver
<1>2. \A i \in 1..n : orderedPlays[i].card \in Card /\ st(i) \in Nat
  BY <1>1, StrengthIs DEF Plays
<1>3. ASSUME NEW t \in Team
      PROVE  \E f \in 1..n : /\ o(f) = t /\ shown(t) = orderedPlays[f].card
                             /\ \A j \in 1..n : o(j) = t => st(f) >= st(j)
  <2>1. PICK i \in 1..n : o(i) = t BY BothPlayed
  <2>2. i \in own(t) BY <2>1 DEF Own
  <2>3. IsTeamBest(TeamBest(orderedPlays, viraRank, t), orderedPlays, viraRank, own(t))
    BY <1>1, TeamBestIsTop
  <2>4. PICK f \in Tops(orderedPlays, viraRank, own(t)) :
               TeamBest(orderedPlays, viraRank, t) = orderedPlays[f]
    BY <2>2, <2>3 DEF IsTeamBest
  <2>5. f \in own(t) /\ \A j \in own(t) : st(f) >= st(j) BY DEF Tops
  <2> QED BY <2>4, <2>5 DEF Own
<1>4. PICK f \in 1..n : /\ o(f) = "P1" /\ shown("P1") = orderedPlays[f].card
                        /\ \A j \in 1..n : o(j) = "P1" => st(f) >= st(j)
  BY <1>3 DEF Team
<1>5. PICK g \in 1..n : /\ o(g) = "P2" /\ shown("P2") = orderedPlays[g].card
                        /\ \A j \in 1..n : o(j) = "P2" => st(g) >= st(j)
  BY <1>3 DEF Team
<1>6. /\ cmp = "A" <=> st(f) > st(g)
      /\ cmp = "B" <=> st(g) > st(f)
  BY <1>1, <1>2, <1>4, <1>5, CompareIsStrength
<1>7. /\ teams # {} /\ teams \subseteq Team
      /\ teams = Team => result = "TIE"
      /\ \A t \in Team : teams = {t} => result = t
  BY ResultIs
<1>8. \A i : i \in strongest <=> i \in 1..n /\ \A j \in 1..n : st(i) >= st(j)
  BY <1>1 DEF Tops
<1>9. \A i \in 1..n : o(i) = "P1" \/ o(i) = "P2" BY TeamOfOwner DEF Team
<1>10. \A t : t \in teams <=> \E i \in strongest : t = o(i)
  OBVIOUS
<1> SUFFICES result = CASE cmp = "A" -> "P1" [] cmp = "B" -> "P2" [] OTHER -> "TIE"
  BY DEF ShownCardsAgree
<1> HIDE DEF n, o, st, strongest, teams, result, shown, cmp
<1>11. CASE cmp = "A"
  <2>1. st(f) > st(g) BY <1>6, <1>11
  <2>2. "P2" \notin teams
    <3>1. SUFFICES ASSUME NEW i \in strongest, o(i) = "P2" PROVE FALSE
      BY <1>10
    <3>2. i \in 1..n /\ st(i) >= st(f) BY <1>8
    <3> QED BY <1>2, <1>5, <2>1, <3>1, <3>2
  <2>3. teams = {"P1"} BY <1>7, <2>2 DEF Team
  <2> QED BY <1>7, <1>11, <2>3 DEF Team
<1>12. CASE cmp = "B"
  <2>1. st(g) > st(f) BY <1>6, <1>12
  <2>2. "P1" \notin teams
    <3>1. SUFFICES ASSUME NEW i \in strongest, o(i) = "P1" PROVE FALSE
      BY <1>10
    <3>2. i \in 1..n /\ st(i) >= st(g) BY <1>8
    <3> QED BY <1>2, <1>4, <2>1, <3>1, <3>2
  <2>3. teams = {"P2"} BY <1>7, <2>2 DEF Team
  <2> QED BY <1>7, <1>12, <2>3 DEF Team
<1>13. CASE cmp # "A" /\ cmp # "B"
  <2>1. st(f) = st(g) BY <1>2, <1>6, <1>13
  <2>2. f \in strongest /\ g \in strongest
    <3>1. \A j \in 1..n : st(f) >= st(j) BY <1>4, <1>5, <1>9, <2>1
    <3> QED BY <1>8, <2>1, <3>1
  <2>3. "P1" \in teams /\ "P2" \in teams BY <1>4, <1>5, <1>10, <2>2
  <2>4. teams = Team BY <1>7, <2>3 DEF Team
  <2> QED BY <1>7, <1>13, <2>4
<1> QED BY <1>11, <1>12, <1>13

(* Round.getResult gives the round to a team exactly when every strongest  *)
(* card on the table is that team's, for any deck, any vira and any order  *)
(* of play of two players or of four seats.                                *)
THEOREM ResultsAreStrongest == Spec => []ResultIsStrongest
<1>1. IInv => ResultIsStrongest BY RoundAssumption, ResultHolds
<1> QED BY <1>1, Invariance, PTL

(* Round.getWinningOwnerId names the first owner of a strongest card, so   *)
(* who leads the next round follows from the cards alone.                  *)
THEOREM LeadersAreFirst == Spec => []LeaderPlayedStrongestFirst
<1>1. IInv => LeaderPlayedStrongestFirst BY RoundAssumption, LeaderHolds
<1> QED BY <1>1, Invariance, PTL

(* The one card rebuildLegacyPlays shows for each team decides the round   *)
(* as all the cards on the table do.                                       *)
THEOREM ShownCardsDecide == Spec => []ShownCardsAgree
<1>1. IInv => ShownCardsAgree BY RoundAssumption, ShownHolds
<1> QED BY <1>1, Invariance, PTL
=============================================================================
