---------------------------- MODULE RatingsProofs ----------------------------
(***************************************************************************)
(* What rating guarantees for any matches, users and number of handlers    *)
(* that see a match finished, whatever fails and whoever leaves or comes   *)
(* back: a match is rated once, profiles add up, and no result is lost but *)
(* where two ratings of one user overlap.                                  *)
(***************************************************************************)
EXTENDS Ratings, FiniteSetTheorems, WellFoundedInduction, TLAPS

Rating(t) == t.pc \in {"record", "read", "save"}

\* `x` stands for what was read, which does not matter here.
TaskOK(t) ==
  \E x : t \in [pc : {"new", "record", "read", "save", "done"}, won : SUBSET Users,
                lost : SUBSET Users, seen : {x}, left : SUBSET Users]

\* Nobody else may start to rate the match.
Taken(m) == m \in marked \/ m \notin rooms

\* One handler rates the match at most, and puts it only into profiles it has
\* not been put into.
MatchOK(m) ==
  /\ \A s \in Slots : s[1] = m /\ Rating(task[s]) => Taken(m)
  /\ \A s, o \in Slots :
       s[1] = m /\ o[1] = m /\ Rating(task[s]) /\ Rating(task[o]) => s = o
  /\ \A u \in Users : credited[m][u] # 0 => Taken(m)
  /\ \A s \in Slots : \A u \in Users :
       s[1] = m /\ Rating(task[s]) /\ credited[m][u] # 0
         => task[s].pc = "save" /\ u \notin task[s].left
  /\ \A u \in Users : credited[m][u] <= 1

Typed ==
  /\ credited \in [Matches -> [Users -> Nat]]
  /\ task = [s \in Slots |-> task[s]] /\ \A s \in Slots : TaskOK(task[s])

IInv == Typed /\ \A m \in Matches \ reopened : MatchOK(m)

-----------------------------------------------------------------------------

LEMMA InitIInv == Init => IInv
<1> SUFFICES ASSUME Init PROVE IInv
  OBVIOUS
<1>1. \A s \in Slots : task[s] = NewTask
  BY DEF Init
<1>2. TaskOK(NewTask) /\ ~Rating(NewTask)
  BY DEF TaskOK, NewTask, Rating
<1>3. credited \in [Matches -> [Users -> Nat]]
  BY DEF Init
<1>4. \A m \in Matches : \A u \in Users : credited[m][u] = 0
  BY DEF Init
<1>5. Typed
  <2>1. task = [s \in Slots |-> task[s]]
    BY DEF Init
  <2> QED BY <2>1, <1>1, <1>2, <1>3 DEF Typed
<1>6. \A m \in Matches : MatchOK(m)
  BY <1>1, <1>2, <1>4 DEF MatchOK
<1> QED BY <1>5, <1>6 DEF IInv

LEMMA TaskChange ==
  ASSUME NEW t, TaskOK(t), NEW y, NEW pc \in {"new", "record", "read", "save", "done"}
  PROVE  TaskOK([t EXCEPT !.seen = y, !.pc = pc])
<1>1. PICK x : t \in [pc : {"new", "record", "read", "save", "done"}, won : SUBSET Users,
                      lost : SUBSET Users, seen : {x}, left : SUBSET Users]
  BY DEF TaskOK
<1> DEFINE read == [t EXCEPT !.seen = y]
<1>2. read = [pc |-> t.pc, won |-> t.won, lost |-> t.lost, seen |-> y, left |-> t.left]
  BY <1>1
<1>3. [t EXCEPT !.seen = y, !.pc = pc] = [read EXCEPT !.pc = pc]
  OBVIOUS
<1> HIDE DEF read
<1>4. [read EXCEPT !.pc = pc] =
        [pc |-> pc, won |-> t.won, lost |-> t.lost, seen |-> y, left |-> t.left]
  BY <1>2
<1>5. [pc |-> pc, won |-> t.won, lost |-> t.lost, seen |-> y, left |-> t.left]
        \in [pc : {"new", "record", "read", "save", "done"}, won : SUBSET Users,
             lost : SUBSET Users, seen : {y}, left : SUBSET Users]
  BY <1>1
<1> QED BY <1>3, <1>4, <1>5 DEF TaskOK

\* What only moves people, or opens a room anew, keeps the invariant.
LEMMA RoomStep ==
  ASSUME IInv, UNCHANGED <<task, credited>>, reopened \subseteq reopened',
         \A m \in Matches \ reopened' : Taken(m) => Taken(m)'
  PROVE  IInv'
<1>1. Typed'
  BY DEF IInv, Typed
<1>2. ASSUME NEW m \in Matches \ reopened' PROVE MatchOK(m)'
  <2>1. MatchOK(m) /\ (Taken(m) => Taken(m)')
    BY <1>2 DEF IInv
  <2> QED BY <2>1 DEF MatchOK
<1> QED BY <1>1, <1>2 DEF IInv

\* A handler that goes on with what it has to save, or gives it up.
LEMMA TaskStep ==
  ASSUME IInv, NEW s \in Slots, NEW t, TaskOK(t),
         task' = [task EXCEPT ![s] = t],
         UNCHANGED <<rooms, reopened, marked, credited>>,
         Rating(t) => Rating(task[s]) /\ task[s].pc # "save"
  PROVE  IInv'
<1>1. Typed'
  BY DEF IInv, Typed
<1>2. ASSUME NEW m \in Matches \ reopened' PROVE MatchOK(m)'
  <2>1. MatchOK(m)
    BY <1>2 DEF IInv
  <2>2. \A o \in Slots : task'[o] = IF o = s THEN t ELSE task[o]
    BY DEF IInv, Typed
  <2>3. Taken(m)' <=> Taken(m)
    BY DEF Taken
  <2>4. (\A o \in Slots : o[1] = m /\ Rating(task[o]) => Taken(m))'
    BY <2>1, <2>2, <2>3 DEF MatchOK
  <2>5. (\A o, p \in Slots :
          o[1] = m /\ p[1] = m /\ Rating(task[o]) /\ Rating(task[p]) => o = p)'
    BY <2>1, <2>2 DEF MatchOK
  <2>6. (\A u \in Users : credited[m][u] # 0 => Taken(m))'
    BY <2>1, <2>3 DEF MatchOK
  <2>7. (\A o \in Slots : \A u \in Users :
           o[1] = m /\ Rating(task[o]) /\ credited[m][u] # 0
             => task[o].pc = "save" /\ u \notin task[o].left)'
    BY <2>1, <2>2 DEF MatchOK
  <2>8. (\A u \in Users : credited[m][u] <= 1)'
    BY <2>1 DEF MatchOK
  <2> QED BY <2>4, <2>5, <2>6, <2>7, <2>8 DEF MatchOK
<1> QED BY <1>1, <1>2 DEF IInv

LEMMA MarkAppliedStep ==
  ASSUME IInv, NEW s \in Slots, MarkApplied(s)
  PROVE  IInv'
<1> DEFINE m == s[1]
           t == IF m \in marked \/ m \notin rooms THEN Done
                ELSE [NewTask EXCEPT !.pc = "record"]
<1>1. TaskOK(t) /\ task[s].pc = "new" /\ (Rating(t) => ~Taken(m))
  BY DEF TaskOK, NewTask, Done, Rating, Taken, MarkApplied
<1>2. /\ task' = [task EXCEPT ![s] = t] /\ marked' = marked \cup {m}
      /\ UNCHANGED <<rooms, reopened, credited>>
  BY DEF MarkApplied, Set
<1> HIDE DEF t
<1>3. Typed'
  BY <1>1, <1>2 DEF IInv, Typed
<1>4. ASSUME NEW n \in Matches \ reopened' PROVE MatchOK(n)'
  <2>1. MatchOK(n)
    BY <1>2, <1>4 DEF IInv
  <2>2. \A o \in Slots : task'[o] = IF o = s THEN t ELSE task[o]
    BY <1>2 DEF IInv, Typed
  <2>3. (Taken(n) => Taken(n)') /\ (n = m => Taken(n)')
    BY <1>2 DEF Taken
  <2>4. (\A o \in Slots : o[1] = n /\ Rating(task[o]) => Taken(n))'
    BY <2>1, <2>2, <2>3 DEF MatchOK
  <2>5. (\A o, p \in Slots :
          o[1] = n /\ p[1] = n /\ Rating(task[o]) /\ Rating(task[p]) => o = p)'
    BY <1>1, <2>1, <2>2 DEF MatchOK
  <2>6. (\A u \in Users : credited[n][u] # 0 => Taken(n))'
    BY <1>2, <2>1, <2>3 DEF MatchOK
  <2>7. (\A o \in Slots : \A u \in Users :
           o[1] = n /\ Rating(task[o]) /\ credited[n][u] # 0
             => task[o].pc = "save" /\ u \notin task[o].left)'
    BY <1>1, <1>2, <2>1, <2>2 DEF MatchOK
  <2>8. (\A u \in Users : credited[n][u] <= 1)'
    BY <1>2, <2>1 DEF MatchOK
  <2> QED BY <2>4, <2>5, <2>6, <2>7, <2>8 DEF MatchOK
<1> QED BY <1>2, <1>3, <1>4 DEF IInv

LEMMA SaveRecordStep ==
  ASSUME IInv, NEW s \in Slots, SaveRecord(s)
  PROVE  IInv'
<1> DEFINE m == s[1]
           Of(t) == {u \in Users : seat[m][u] = t}
           rated == [NewTask EXCEPT !.pc = "read", !.won = Of(winner[m]),
                                    !.lost = Of(CHOOSE t \in Team : t # winner[m]),
                                    !.left = People(m)]
           t == IF m \notin rooms \/ People(m) = {} THEN Done ELSE rated
<1>1. TaskOK(t)
  BY DEF TaskOK, NewTask, Done, People
<1>2. task[s].pc = "record" /\ Rating(task[s])
  BY DEF SaveRecord, Rating
<1>3. task' = [task EXCEPT ![s] = t] /\ UNCHANGED <<rooms, reopened, marked, credited>>
  BY DEF SaveRecord, Set
<1> HIDE DEF t
<1> QED BY <1>1, <1>2, <1>3, TaskStep

LEMMA ReadProfileStep ==
  ASSUME IInv, NEW s \in Slots, NEW u \in Users, ReadProfile(s, u)
  PROVE  IInv'
<1> DEFINE t == task[s]
           seen == [v \in DOMAIN t.seen \cup {u} |-> IF v = u THEN profile[u] ELSE t.seen[v]]
           after == [t EXCEPT !.seen = seen,
                              !.pc = IF DOMAIN seen = t.left THEN "save" ELSE @]
<1>1. TaskOK(t) /\ t.pc = "read" /\ Rating(task[s]) /\ task[s].pc # "save"
  BY DEF IInv, Typed, ReadProfile, Rating
<1>2. TaskOK(Done) /\ ~Rating(Done)
  BY DEF TaskOK, Done, NewTask, Rating
<1>3. TaskOK(after)
  <2> DEFINE pc == IF DOMAIN seen = t.left THEN "save" ELSE t.pc
  <2>1. pc \in {"new", "record", "read", "save", "done"}
    BY <1>1
  <2>2. after = [t EXCEPT !.seen = seen, !.pc = pc]
    OBVIOUS
  <2> HIDE DEF pc, seen, after, t
  <2>3. TaskOK([t EXCEPT !.seen = seen, !.pc = pc])
    BY <1>1, <2>1, TaskChange
  <2> QED BY <2>2, <2>3
<1>4. UNCHANGED <<rooms, reopened, marked, credited>>
  BY DEF ReadProfile
<1>5. \/ task' = [task EXCEPT ![s] = Done]
      \/ task' = [task EXCEPT ![s] = after]
  BY DEF ReadProfile, Set
<1> HIDE DEF after, t, seen
<1>6. CASE task' = [task EXCEPT ![s] = Done]
  BY <1>2, <1>4, <1>6, TaskStep
<1>7. CASE task' = [task EXCEPT ![s] = after]
  BY <1>1, <1>3, <1>4, <1>7, TaskStep
<1> QED BY <1>5, <1>6, <1>7

LEMMA SaveProfileStep ==
  ASSUME IInv, RatingsAssumption, NEW s \in Slots, NEW u \in Users, SaveProfile(s, u)
  PROVE  IInv'
<1> DEFINE t == task[s]
           m == s[1]
           after == IF t.left \ {u} = {} THEN Done ELSE [t EXCEPT !.left = t.left \ {u}]
<1>1. /\ TaskOK(t) /\ t.pc = "save" /\ u \in t.left
      /\ m \in Matches
  BY DEF IInv, Typed, SaveProfile, RatingsAssumption
<1>2. TaskOK(after) /\ (Rating(after) => after.pc = "save" /\ after.left = t.left \ {u})
  <2>1. PICK x : t \in [pc : {"new", "record", "read", "save", "done"}, won : SUBSET Users,
                        lost : SUBSET Users, seen : {x}, left : SUBSET Users]
    BY <1>1 DEF TaskOK
  <2>2. CASE t.left \ {u} = {}
    BY <2>2 DEF TaskOK, Done, NewTask, Rating
  <2>3. CASE t.left \ {u} # {}
    <3>1. after = [pc |-> t.pc, won |-> t.won, lost |-> t.lost, seen |-> t.seen,
                   left |-> t.left \ {u}]
      BY <2>1, <2>3
    <3> HIDE DEF t, after
    <3>2. after \in [pc : {"new", "record", "read", "save", "done"}, won : SUBSET Users,
                     lost : SUBSET Users, seen : {x}, left : SUBSET Users]
      BY <2>1, <3>1
    <3> QED BY <1>1, <3>1, <3>2 DEF TaskOK
  <2> QED BY <2>2, <2>3
<1>3. task' = [task EXCEPT ![s] = after] /\ UNCHANGED <<rooms, reopened, marked>>
  BY DEF SaveProfile, Set
<1>4. \/ credited' = credited
      \/ credited' = [credited EXCEPT ![m][u] = credited[m][u] + 1]
  BY DEF SaveProfile
<1>5. credited \in [Matches -> [Users -> Nat]]
  BY DEF IInv, Typed
<1>6. /\ credited' \in [Matches -> [Users -> Nat]]
      /\ \A n \in Matches : \A v \in Users :
           \/ credited'[n][v] = credited[n][v]
           \/ n = m /\ v = u /\ credited'[n][v] = credited[n][v] + 1
  <2> DEFINE row == [credited[m] EXCEPT ![u] = credited[m][u] + 1]
  <2>1. CASE credited' = credited
    BY <1>5, <2>1
  <2>2. CASE credited' = [credited EXCEPT ![m] = row]
    <3>1. row \in [Users -> Nat]
      BY <1>1, <1>5
    <3>2. \A v \in Users : row[v] = IF v = u THEN credited[m][v] + 1 ELSE credited[m][v]
      BY <1>1, <1>5
    <3> HIDE DEF row
    <3>3. \A n \in Matches : credited'[n] = IF n = m THEN row ELSE credited[n]
      BY <1>5, <2>2
    <3>4. credited' \in [Matches -> [Users -> Nat]]
      BY <1>1, <1>5, <2>2, <3>1
    <3> QED BY <3>2, <3>3, <3>4
  <2> QED BY <1>4, <2>1, <2>2
<1> HIDE DEF after, t
<1>7. Typed'
  BY <1>2, <1>3, <1>6 DEF IInv, Typed
<1>8. \A o \in Slots : task'[o] = IF o = s THEN after ELSE task[o]
  BY <1>3 DEF IInv, Typed
<1>9. ASSUME NEW n \in Matches \ reopened' PROVE MatchOK(n)'
  <2>1. MatchOK(n)
    BY <1>3, <1>9 DEF IInv
  <2>2. Taken(n)' <=> Taken(n)
    BY <1>3 DEF Taken
  <2>3. Rating(task[s]) /\ task[s].pc = "save" /\ u \in task[s].left
    BY <1>1 DEF t, Rating
  <2>4. n = m => credited[n][u] = 0 /\ Taken(n)
    BY <2>1, <2>3 DEF MatchOK, m
  <2>5. (\A o \in Slots : o[1] = n /\ Rating(task[o]) => Taken(n))'
    BY <1>8, <2>1, <2>2, <2>3 DEF MatchOK
  <2>6. (\A o, p \in Slots :
          o[1] = n /\ p[1] = n /\ Rating(task[o]) /\ Rating(task[p]) => o = p)'
    BY <1>8, <2>1, <2>3 DEF MatchOK
  <2>7. (\A v \in Users : credited[n][v] # 0 => Taken(n))'
    BY <1>6, <2>1, <2>2, <2>4 DEF MatchOK
  <2>8. ASSUME NEW o \in Slots, NEW v \in Users, o[1] = n, Rating(task'[o]),
               credited'[n][v] # 0
        PROVE  task'[o].pc = "save" /\ v \notin task'[o].left
    <3>1. CASE o = s
      <4>1. task'[o] = after /\ after.pc = "save" /\ after.left = t.left \ {u}
        BY <1>2, <1>8, <2>8, <3>1
      <4>2. credited[n][v] # 0 => v \notin t.left
        BY <2>1, <2>3, <2>8, <3>1 DEF MatchOK, t
      <4>3. v = u \/ credited[n][v] # 0
        BY <1>6, <2>8
      <4> QED BY <4>1, <4>2, <4>3
    <3>2. CASE o # s
      <4>1. task'[o] = task[o] /\ Rating(task[o])
        BY <1>8, <2>8, <3>2
      <4>2. n # m
        BY <2>1, <2>3, <2>8, <3>2, <4>1 DEF MatchOK, m
      <4>3. credited[n][v] # 0
        BY <1>6, <2>8, <4>2
      <4> QED BY <2>1, <2>8, <4>1, <4>3 DEF MatchOK
    <3> QED BY <3>1, <3>2
  <2>9. (\A v \in Users : credited[n][v] <= 1)'
    BY <1>5, <1>6, <2>1, <2>4 DEF MatchOK
  <2> QED BY <2>5, <2>6, <2>7, <2>8, <2>9 DEF MatchOK
<1> QED BY <1>3, <1>7, <1>9 DEF IInv

LEMMA NextIInv == RatingsAssumption /\ IInv /\ [Next]_vars => IInv'
<1> SUFFICES ASSUME RatingsAssumption, IInv, [Next]_vars PROVE IInv'
  OBVIOUS
<1>1. ASSUME NEW m \in Matches, Finish(m) PROVE IInv'
  BY <1>1, RoomStep DEF Finish, Taken
<1>2. ASSUME NEW m \in Matches, NEW u \in Users, Disconnect(m, u) \/ Reconnect(m, u)
      PROVE  IInv'
  BY <1>2, RoomStep DEF Disconnect, Reconnect, Taken
<1>3. ASSUME NEW m \in Matches, NEW u \in Users, LeaveMatch(m, u) PROVE IInv'
  <2>1. UNCHANGED <<task, credited>> /\ reopened \subseteq reopened'
    BY <1>3 DEF LeaveMatch
  <2>2. \A n \in Matches \ reopened' : Taken(n) => Taken(n)'
    BY <1>3 DEF LeaveMatch, Taken
  <2> QED BY <2>1, <2>2, RoomStep
<1>4. ASSUME NEW m \in Matches, NEW u \in Users, JoinAnew(m, u) PROVE IInv'
  <2>1. UNCHANGED <<task, credited>> /\ reopened \subseteq reopened'
    BY <1>4 DEF JoinAnew
  <2>2. \A n \in Matches \ reopened' : Taken(n) => Taken(n)'
    BY <1>4 DEF JoinAnew, Taken
  <2> QED BY <2>1, <2>2, RoomStep
<1>5. ASSUME NEW s \in Slots, MarkApplied(s) \/ SaveRecord(s) PROVE IInv'
  BY <1>5, MarkAppliedStep, SaveRecordStep
<1>6. ASSUME NEW s \in Slots, NEW u \in Users, ReadProfile(s, u) \/ SaveProfile(s, u)
      PROVE  IInv'
  BY <1>6, ReadProfileStep, SaveProfileStep
<1>7. CASE UNCHANGED vars
  BY <1>7, RoomStep DEF vars, Taken
<1> QED BY <1>1, <1>2, <1>3, <1>4, <1>5, <1>6, <1>7 DEF Next

(* A match goes into a profile once at most, in rooms that are not opened  *)
(* anew for it: at most one handler rates it, and what that handler still  *)
(* has to save has not been saved.                                         *)
THEOREM RatedOnce == Spec => []CreditedOnce
<1>1. IInv => CreditedOnce
  BY DEF IInv, MatchOK, CreditedOnce
<1> QED BY <1>1, InitIInv, NextIInv, RatingsAssumption, PTL DEF Spec

-----------------------------------------------------------------------------
(* Sums over a finite set *)

LEMMA LeastNatural ==
  ASSUME NEW S, S \subseteq Nat, S # {}
  PROVE  \E n \in S : \A m \in S : n <= m
<1> DEFINE R == OpToRel(<, Nat)
<1>1. IsWellFoundedOn(R, Nat) BY NatLessThanWellFounded
<1>2. \E n \in S : \A m \in S : <<m, n>> \notin R BY <1>1, WFMin
<1>3. \A n, m \in Nat : m < n => <<m, n>> \in R BY DEF OpToRel
<1> HIDE DEF R
<1>4. \A n, m \in S : ~(m < n) => n <= m OBVIOUS
<1> QED BY ONLY <1>2, <1>3, <1>4, S \subseteq Nat

Pick(s) == CHOOSE x \in s : TRUE

\* h is, over the subsets of S, the sum of f as SumFunction computes it.
SumsOver(f, h, S) ==
  h = [s \in SUBSET S |-> IF s = {} THEN 0 ELSE f[Pick(s)] + h[s \ {Pick(s)}]]

LEMMA SumIs ==
  ASSUME NEW f
  PROVE  SumFunction(f) = (CHOOSE h : SumsOver(f, h, DOMAIN f))[DOMAIN f]
BY DEF SumFunction, SumFunctionOnSet, FoldFunction, FoldFunctionOnSet, MapThenFoldSet, SumsOver, Pick

\* What holds of a set when it holds of the smaller ones holds of every subset
\* of a finite set: of those it fails for, none is least.
LEMMA SmallestSubset ==
  ASSUME NEW S, IsFiniteSet(S), NEW Bad, Bad \subseteq SUBSET S, Bad # {}
  PROVE  \E T \in Bad : \A R \in SUBSET T : R # T => R \notin Bad
<1>1. \A T \in SUBSET S : IsFiniteSet(T) /\ Cardinality(T) \in Nat
  BY FS_Subset, FS_CardinalityType
<1> DEFINE Sizes == {Cardinality(T) : T \in Bad}
<1>2. Sizes \subseteq Nat /\ Sizes # {} BY <1>1
<1>3. PICK n \in Sizes : \A m \in Sizes : n <= m BY <1>2, LeastNatural
<1>4. PICK T \in Bad : Cardinality(T) = n BY <1>3
<1>5. ASSUME NEW R \in SUBSET T, R # T, R \in Bad PROVE FALSE
  <2>1. IsFiniteSet(T) BY <1>1, <1>4
  <2>2. Cardinality(R) <= Cardinality(T) /\ Cardinality(R) # Cardinality(T)
    BY <1>5, <2>1, FS_Subset
  <2>3. n <= Cardinality(R) BY <1>3, <1>5
  <2>4. Cardinality(R) \in Nat /\ Cardinality(T) \in Nat BY <1>1, <1>4, <1>5
  <2> QED BY <1>4, <2>2, <2>3, <2>4
<1> QED BY <1>4, <1>5

LEMMA PickIs == \A s : s # {} => Pick(s) \in s
BY DEF Pick

\* The sums over the subsets of a set are those over the subsets of a greater one.
LEMMA SumsAgree ==
  ASSUME NEW f, NEW S, IsFiniteSet(S), NEW h, SumsOver(f, h, S),
         NEW R \in SUBSET S, NEW g, SumsOver(f, g, R)
  PROVE  \A s \in SUBSET R : g[s] = h[s]
<1> DEFINE Bad == {s \in SUBSET R : g[s] # h[s]}
<1>1. SUFFICES ASSUME Bad # {} PROVE FALSE
  OBVIOUS
<1>2. IsFiniteSet(R) BY FS_Subset
<1>3. PICK T \in Bad : \A s \in SUBSET T : s # T => s \notin Bad
  <2>1. Bad \subseteq SUBSET R OBVIOUS
  <2> HIDE DEF Bad
  <2> QED BY <1>1, <1>2, <2>1, SmallestSubset
<1>4. /\ g[T] = IF T = {} THEN 0 ELSE f[Pick(T)] + g[T \ {Pick(T)}]
      /\ h[T] = IF T = {} THEN 0 ELSE f[Pick(T)] + h[T \ {Pick(T)}]
  BY DEF SumsOver
<1>5. T # {} => T \ {Pick(T)} \in SUBSET T /\ T \ {Pick(T)} # T BY PickIs
<1>6. T # {} => g[T \ {Pick(T)}] = h[T \ {Pick(T)}] BY <1>3, <1>5
<1> QED BY <1>3, <1>4, <1>6

LEMMA SumsExist ==
  ASSUME NEW f, NEW S, IsFiniteSet(S)
  PROVE  \E h : SumsOver(f, h, S)
<1> DEFINE Bad == {T \in SUBSET S : ~\E h : SumsOver(f, h, T)}
<1>1. SUFFICES ASSUME Bad # {} PROVE FALSE
  OBVIOUS
<1>2. PICK T \in Bad : \A R \in SUBSET T : R # T => R \notin Bad
  <2>1. Bad \subseteq SUBSET S OBVIOUS
  <2> HIDE DEF Bad
  <2> QED BY <1>1, <2>1, SmallestSubset
<1> DEFINE H(R) == CHOOSE h : SumsOver(f, h, R)
           Less == (SUBSET T) \ {T}
<1>3. \A R \in Less : SumsOver(f, H(R), R)
  BY <1>2
<1>4. \A R \in Less : \A Q \in SUBSET R : Q \in Less /\ H(R)[Q] = H(Q)[Q]
  <2>1. SUFFICES ASSUME NEW R \in Less, NEW Q \in SUBSET R PROVE Q \in Less /\ H(R)[Q] = H(Q)[Q]
    OBVIOUS
  <2>2. Q \in Less OBVIOUS
  <2>3. SumsOver(f, H(R), R) /\ SumsOver(f, H(Q), Q) BY <1>3, <2>2
  <2>4. IsFiniteSet(R) BY FS_Subset
  <2> HIDE DEF H
  <2> QED BY <2>2, <2>3, <2>4, SumsAgree
<1> DEFINE V(R) == H(R)[R]
           g == [s \in SUBSET T |-> IF s = {} THEN 0 ELSE f[Pick(s)] + V(s \ {Pick(s)})]
<1>5. ASSUME NEW R \in Less PROVE g[R] = V(R)
  <2>1. SumsOver(f, H(R), R) BY <1>3
  <2> HIDE DEF H
  <2>2. H(R)[R] = IF R = {} THEN 0 ELSE f[Pick(R)] + H(R)[R \ {Pick(R)}] BY <2>1 DEF SumsOver
  <2>3. R # {} => H(R)[R \ {Pick(R)}] = V(R \ {Pick(R)}) BY <1>4
  <2> QED BY <2>2, <2>3
<1>6. ASSUME NEW s \in SUBSET T, s # {} PROVE V(s \ {Pick(s)}) = g[s \ {Pick(s)}]
  <2>1. s \ {Pick(s)} \in Less BY <1>6, PickIs
  <2> HIDE DEF V, g, Less
  <2> QED BY <1>5, <2>1
<1>7. SumsOver(f, g, T)
  <2> HIDE DEF V
  <2>1. \A s \in SUBSET T : g[s] = IF s = {} THEN 0 ELSE f[Pick(s)] + V(s \ {Pick(s)})
    OBVIOUS
  <2>2. g = [s \in SUBSET T |-> g[s]]
    OBVIOUS
  <2> HIDE DEF g
  <2>3. \A s \in SUBSET T : g[s] = IF s = {} THEN 0 ELSE f[Pick(s)] + g[s \ {Pick(s)}]
    BY <1>6, <2>1
  <2> QED BY <2>2, <2>3 DEF SumsOver
<1> QED BY <1>2, <1>7

\* One more in one place is one more in all.
LEMMA SumBumped ==
  ASSUME NEW S, IsFiniteSet(S), NEW f \in [S -> Nat], NEW g \in [S -> Nat], NEW a \in S,
         g[a] = f[a] + 1, \A x \in S \ {a} : g[x] = f[x]
  PROVE  SumFunction(f) \in Nat /\ SumFunction(g) = SumFunction(f) + 1
<1> DEFINE F == CHOOSE h : SumsOver(f, h, S)
           G == CHOOSE h : SumsOver(g, h, S)
<1>1. SumsOver(f, F, S) /\ SumsOver(g, G, S) BY SumsExist
<1>2. SumFunction(f) = F[S] /\ SumFunction(g) = G[S]
  <2>1. DOMAIN f = S /\ DOMAIN g = S OBVIOUS
  <2> QED BY <2>1, SumIs
<1> HIDE DEF F, G
<1> DEFINE Right(s) == F[s] \in Nat /\ G[s] = F[s] + (IF a \in s THEN 1 ELSE 0)
           Bad == {s \in SUBSET S : ~Right(s)}
<1>3. ASSUME Bad # {} PROVE FALSE
  <2>1. PICK T \in Bad : \A s \in SUBSET T : s # T => s \notin Bad
    <3>1. Bad \subseteq SUBSET S OBVIOUS
    <3> HIDE DEF Bad
    <3> QED BY <1>3, <3>1, SmallestSubset
  <2>2. /\ F[T] = IF T = {} THEN 0 ELSE f[Pick(T)] + F[T \ {Pick(T)}]
        /\ G[T] = IF T = {} THEN 0 ELSE g[Pick(T)] + G[T \ {Pick(T)}]
    BY <1>1 DEF SumsOver
  <2>3. CASE T = {} BY <2>1, <2>2, <2>3
  <2>4. CASE T # {}
    <3>1. PICK x \in T : x = Pick(T) BY <2>4, PickIs
    <3>2. T \ {x} \in SUBSET T /\ T \ {x} # T BY <3>1
    <3>3. Right(T \ {x}) BY <2>1, <3>2
    <3>4. F[T] = f[x] + F[T \ {x}] /\ G[T] = g[x] + G[T \ {x}] BY <2>2, <2>4, <3>1
    <3>5. x \in S /\ f[x] \in Nat /\ g[x] \in Nat BY <2>1
    <3>6. CASE x = a BY <2>1, <3>3, <3>4, <3>5, <3>6
    <3>7. CASE x # a BY <2>1, <3>3, <3>4, <3>5, <3>7
    <3> QED BY <3>6, <3>7
  <2> QED BY <2>3, <2>4
<1>4. Right(S) BY <1>3
<1> QED BY <1>2, <1>4

LEMMA SumOfZeros ==
  ASSUME NEW S, IsFiniteSet(S), NEW f \in [S -> {0}]
  PROVE  SumFunction(f) = 0
<1> DEFINE F == CHOOSE h : SumsOver(f, h, S)
<1>1. SumsOver(f, F, S) BY SumsExist
<1>2. SumFunction(f) = F[S]
  <2>1. DOMAIN f = S OBVIOUS
  <2> QED BY <2>1, SumIs
<1> HIDE DEF F
<1> DEFINE Bad == {s \in SUBSET S : F[s] # 0}
<1>3. ASSUME Bad # {} PROVE FALSE
  <2>1. PICK T \in Bad : \A s \in SUBSET T : s # T => s \notin Bad
    <3>1. Bad \subseteq SUBSET S OBVIOUS
    <3> HIDE DEF Bad
    <3> QED BY <1>3, <3>1, SmallestSubset
  <2>2. F[T] = IF T = {} THEN 0 ELSE f[Pick(T)] + F[T \ {Pick(T)}] BY <1>1 DEF SumsOver
  <2>3. T # {} => Pick(T) \in T /\ T \ {Pick(T)} \in SUBSET T /\ T \ {Pick(T)} # T BY PickIs
  <2>4. T # {} => F[T \ {Pick(T)}] = 0 BY <2>1, <2>3
  <2>5. T # {} => f[Pick(T)] = 0 BY <2>1, <2>3
  <2> QED BY <2>1, <2>2, <2>4, <2>5
<1> QED BY <1>2, <1>3

-----------------------------------------------------------------------------
(* What the profiles count *)

\* ProfileAddsUp, of one profile.
Sound(p) ==
  /\ p \in [rating : Int, wins : Nat, losses : Nat, matchesPlayed : Nat]
  /\ p.wins + p.losses = p.matchesPlayed
  /\ Start + Delta * (p.wins - p.losses) <= p.rating /\ p.rating <= Start + Delta * p.wins
  /\ p.rating >= Floor

\* What a handler has read is sound, and it has read whatever it will save.
SeenOK(t) ==
  /\ DOMAIN t.seen \subseteq Users /\ \A u \in DOMAIN t.seen : Sound(t.seen[u])
  /\ t.pc = "save" => t.left \subseteq DOMAIN t.seen

Results(u) == [m \in Matches |-> credited[m][u]]

\* The handler has read the user's profile and has still to save it.
Pending(t, u) == u \in DOMAIN t.seen \cap t.left

\* The profile counts what was put into it, and one handler at most is about to
\* replace it, by what it holds now and one result more.
Exact(u) ==
  /\ profile[u].matchesPlayed = SumFunction(Results(u))
  /\ \A s \in Slots : Pending(task[s], u) => task[s].seen[u] = profile[u]
  /\ \A s, o \in Slots : Pending(task[s], u) /\ Pending(task[o], u) => s = o

ProfilesOK ==
  /\ profile = [u \in Users |-> profile[u]] /\ \A u \in Users : Sound(profile[u])
  /\ \A s \in Slots : SeenOK(task[s])
  /\ \A u \in Users \ crossed : Exact(u)

PInv == IInv /\ ProfilesOK

LEMMA InitProfiles == RatingsAssumption /\ Init => ProfilesOK
<1> SUFFICES ASSUME RatingsAssumption, Init PROVE ProfilesOK
  OBVIOUS
<1>1. Sound(NewProfile) /\ NewProfile.matchesPlayed = 0
  BY DEF Sound, NewProfile, RatingsAssumption, Floor, Delta
<1>2. profile = [u \in Users |-> NewProfile] BY DEF Init
<1>3. SeenOK(NewTask) /\ \A u : ~Pending(NewTask, u)
  <2>1. NewTask.seen = <<>> /\ NewTask.left = {} /\ NewTask.pc = "new" BY DEF NewTask
  <2>2. DOMAIN <<>> = {} OBVIOUS
  <2> QED BY <2>1, <2>2 DEF SeenOK, Pending
<1>4. \A s \in Slots : task[s] = NewTask BY DEF Init
<1>5. ASSUME NEW u \in Users PROVE Exact(u)
  <2>1. Results(u) \in [Matches -> {0}] BY DEF Init, Results
  <2>2. SumFunction(Results(u)) = 0 BY <2>1, SumOfZeros DEF RatingsAssumption
  <2> QED BY <1>1, <1>2, <1>3, <1>4, <2>2 DEF Exact
<1> QED BY <1>1, <1>2, <1>3, <1>4, <1>5 DEF ProfilesOK

LEMMA ResultsKept ==
  ASSUME credited' = credited, NEW u PROVE Results(u)' = Results(u)
BY DEF Results

\* A handler that saves nothing: what it comes to hold of a user it held before,
\* or it has just read it and nobody else holds it.
LEMMA HolderStep ==
  ASSUME PInv, NEW s \in Slots, NEW t, SeenOK(t), task' = [task EXCEPT ![s] = t],
         UNCHANGED <<profile, credited>>, crossed \subseteq crossed',
         \A u \in Users \ crossed' : Pending(t, u) =>
           \/ Pending(task[s], u) /\ t.seen[u] = task[s].seen[u]
           \/ t.seen[u] = profile[u] /\ \A o \in Slots \ {s} : ~Pending(task[o], u)
  PROVE  ProfilesOK'
<1>1. \A o \in Slots : task'[o] = IF o = s THEN t ELSE task[o] BY DEF PInv, IInv, Typed
<1>2. /\ profile = [u \in Users |-> profile[u]] /\ \A u \in Users : Sound(profile[u])
      /\ \A o \in Slots : SeenOK(task[o])
  BY DEF PInv, ProfilesOK
<1>3. ASSUME NEW u \in Users \ crossed' PROVE Exact(u)'
  <2>1. Exact(u) BY <1>3 DEF PInv, ProfilesOK
  <2>2. profile'[u].matchesPlayed = SumFunction(Results(u)') BY <2>1, ResultsKept DEF Exact
  <2>3. ASSUME NEW o \in Slots, Pending(task'[o], u) PROVE task'[o].seen[u] = profile'[u]
    BY <1>1, <1>3, <2>1, <2>3 DEF Exact
  <2>4. ASSUME NEW o \in Slots, NEW p \in Slots, Pending(task'[o], u), Pending(task'[p], u)
        PROVE  o = p
    BY <1>1, <1>3, <2>1, <2>4 DEF Exact
  <2> QED BY <2>2, <2>3, <2>4 DEF Exact
<1>4. \A o \in Slots : SeenOK(task'[o]) BY <1>1, <1>2
<1> QED BY <1>2, <1>3, <1>4 DEF ProfilesOK

LEMMA DoneHoldsNothing == SeenOK(Done) /\ \A u : ~Pending(Done, u)
<1>1. Done.seen = <<>> /\ Done.left = {} /\ Done.pc = "done" BY DEF Done, NewTask
<1>2. DOMAIN <<>> = {} OBVIOUS
<1> QED BY <1>1, <1>2 DEF SeenOK, Pending

LEMMA MarkedProfiles ==
  ASSUME PInv, NEW s \in Slots, MarkApplied(s) \/ SaveRecord(s)
  PROVE  ProfilesOK'
<1>1. PICK t : /\ task' = [task EXCEPT ![s] = t]
               /\ t = Done \/ (t.seen = <<>> /\ t.pc \in {"record", "read"})
  <2>1. CASE MarkApplied(s)
    <3>1. [NewTask EXCEPT !.pc = "record"].seen = <<>>
          /\ [NewTask EXCEPT !.pc = "record"].pc = "record"
      BY DEF NewTask
    <3> QED BY <2>1, <3>1 DEF MarkApplied, Set
  <2>2. CASE SaveRecord(s)
    <3> DEFINE m == s[1]
               Of(x) == {u \in Users : seat[m][u] = x}
               rated == [NewTask EXCEPT !.pc = "read", !.won = Of(winner[m]),
                                        !.lost = Of(CHOOSE x \in Team : x # winner[m]),
                                        !.left = People(m)]
    <3>1. rated.seen = <<>> /\ rated.pc = "read" BY DEF NewTask
    <3>2. task' = [task EXCEPT ![s] = IF m \notin rooms \/ People(m) = {} THEN Done
                                      ELSE rated]
      BY <2>2 DEF SaveRecord, Set
    <3> HIDE DEF rated
    <3> QED BY <3>1, <3>2
  <2> QED BY <2>1, <2>2
<1>2. SeenOK(t) /\ \A u : ~Pending(t, u)
  <2>1. DOMAIN <<>> = {} OBVIOUS
  <2> QED BY <1>1, <2>1, DoneHoldsNothing DEF SeenOK, Pending
<1>3. UNCHANGED <<profile, credited, crossed>> BY DEF MarkApplied, SaveRecord
<1> QED BY <1>1, <1>2, <1>3, HolderStep

LEMMA ReadProfiles ==
  ASSUME PInv, NEW s \in Slots, NEW u \in Users, ReadProfile(s, u)
  PROVE  ProfilesOK'
<1>1. PICK t : t = task[s] OBVIOUS
<1> DEFINE seen == [v \in DOMAIN t.seen \cup {u} |-> IF v = u THEN profile[u] ELSE t.seen[v]]
           after == [t EXCEPT !.seen = seen, !.pc = IF DOMAIN seen = t.left THEN "save" ELSE @]
<1>2. /\ t.pc = "read" /\ u \notin DOMAIN t.seen /\ UNCHANGED <<profile, credited>>
      /\ \/ task' = [task EXCEPT ![s] = Done] /\ crossed' = crossed
         \/ /\ task' = [task EXCEPT ![s] = after]
            /\ crossed' = IF \E o \in Slots \ {s} :
                               u \in DOMAIN task[o].seen \cap task[o].left
                          THEN crossed \cup {u} ELSE crossed
  BY <1>1 DEF ReadProfile, Set
<1>3. CASE task' = [task EXCEPT ![s] = Done] /\ crossed' = crossed
  BY <1>2, <1>3, DoneHoldsNothing, HolderStep
<1>4. CASE /\ task' = [task EXCEPT ![s] = after]
           /\ crossed' = IF \E o \in Slots \ {s} :
                               u \in DOMAIN task[o].seen \cap task[o].left
                         THEN crossed \cup {u} ELSE crossed
  <2>1. /\ DOMAIN t.seen \subseteq Users /\ \A v \in DOMAIN t.seen : Sound(t.seen[v])
        /\ Sound(profile[u])
    BY <1>1 DEF PInv, ProfilesOK, SeenOK
  <2>2. /\ DOMAIN seen = DOMAIN t.seen \cup {u} /\ seen[u] = profile[u]
        /\ \A v \in DOMAIN t.seen : seen[v] = t.seen[v]
    BY <1>2
  <2>3. /\ after.seen = seen /\ after.left = t.left
        /\ after.pc = IF DOMAIN seen = t.left THEN "save" ELSE "read"
    <3>1. PICK x : t \in [pc : {"new", "record", "read", "save", "done"}, won : SUBSET Users,
                          lost : SUBSET Users, seen : {x}, left : SUBSET Users]
      BY <1>1 DEF PInv, IInv, Typed, TaskOK
    <3> DEFINE pc == IF DOMAIN seen = t.left THEN "save" ELSE t.pc
               read == [t EXCEPT !.seen = seen]
    <3>3. after = [read EXCEPT !.pc = pc] OBVIOUS
    <3> HIDE DEF seen, pc
    <3>4. read = [pc |-> t.pc, won |-> t.won, lost |-> t.lost, seen |-> seen, left |-> t.left]
      BY <3>1
    <3> HIDE DEF read, after
    <3>5. after = [pc |-> pc, won |-> t.won, lost |-> t.lost, seen |-> seen, left |-> t.left]
      BY <3>3, <3>4
    <3>2. after = [pc |-> IF DOMAIN seen = t.left THEN "save" ELSE t.pc, won |-> t.won,
                   lost |-> t.lost, seen |-> seen, left |-> t.left]
      BY <3>5 DEF pc
    <3> QED BY <1>2, <3>2
  <2> HIDE DEF seen, after
  <2>4. SeenOK(after) BY <2>1, <2>2, <2>3 DEF SeenOK
  <2>5. crossed \subseteq crossed' BY <1>4
  <2>6. ASSUME NEW v \in Users \ crossed', Pending(after, v)
        PROVE  \/ Pending(task[s], v) /\ after.seen[v] = task[s].seen[v]
               \/ after.seen[v] = profile[v] /\ \A o \in Slots \ {s} : ~Pending(task[o], v)
    <3>1. CASE v = u BY <1>4, <2>2, <2>3, <2>6, <3>1 DEF Pending
    <3>2. CASE v # u BY <1>1, <2>2, <2>3, <2>6, <3>2 DEF Pending
    <3> QED BY <3>1, <3>2
  <2> QED BY <1>2, <1>4, <2>4, <2>5, <2>6, HolderStep
<1> QED BY <1>2, <1>3, <1>4

\* One result more leaves a sound profile sound.
LEMMA ResultSound ==
  ASSUME RatingsAssumption, NEW p, Sound(p)
  PROVE  /\ Sound(applyWin(p)) /\ applyWin(p).matchesPlayed = p.matchesPlayed + 1
         /\ Sound(applyLoss(p)) /\ applyLoss(p).matchesPlayed = p.matchesPlayed + 1
<1>1. /\ p = [rating |-> p.rating, wins |-> p.wins, losses |-> p.losses,
              matchesPlayed |-> p.matchesPlayed]
      /\ p.rating \in Int /\ p.wins \in Nat /\ p.losses \in Nat /\ p.matchesPlayed \in Nat
      /\ p.wins + p.losses = p.matchesPlayed
      /\ Start + 25 * (p.wins - p.losses) <= p.rating /\ p.rating <= Start + 25 * p.wins
      /\ p.rating >= 100 /\ Start \in Int /\ Start >= 100
  BY DEF Sound, Delta, Floor, RatingsAssumption
<1> DEFINE r == p.rating
           w == p.wins
           l == p.losses
           n == p.matchesPlayed
<1> HIDE DEF r, w, l, n
<1>6. p = [rating |-> r, wins |-> w, losses |-> l, matchesPlayed |-> n]
  BY <1>1 DEF r, w, l, n
<1>2. applyWin(p) = [rating |-> p.rating + 25, wins |-> p.wins + 1, losses |-> p.losses,
                     matchesPlayed |-> p.matchesPlayed + 1]
  <2> DEFINE a == [p EXCEPT !.rating = r + 25]
             b == [a EXCEPT !.wins = w + 1]
  <2>1. a = [rating |-> r + 25, wins |-> w, losses |-> l, matchesPlayed |-> n] BY <1>6
  <2>2. applyWin(p) = [[[p EXCEPT !.rating = @ + 25] EXCEPT !.wins = @ + 1]
                         EXCEPT !.matchesPlayed = @ + 1]
    BY DEF applyWin, Delta
  <2>3. applyWin(p) = [b EXCEPT !.matchesPlayed = n + 1] BY <1>6, <2>2
  <2> HIDE DEF a
  <2>4. b = [rating |-> r + 25, wins |-> w + 1, losses |-> l, matchesPlayed |-> n] BY <2>1
  <2> HIDE DEF b
  <2> QED BY <2>3, <2>4 DEF r, w, l, n
<1>3. applyLoss(p) = [rating |-> IF p.rating - 25 > 100 THEN p.rating - 25 ELSE 100,
                      wins |-> p.wins, losses |-> p.losses + 1,
                      matchesPlayed |-> p.matchesPlayed + 1]
  <2> DEFINE q == IF r - 25 > 100 THEN r - 25 ELSE 100
             a == [p EXCEPT !.rating = q]
             b == [a EXCEPT !.losses = l + 1]
  <2>1. a = [rating |-> q, wins |-> w, losses |-> l, matchesPlayed |-> n] BY <1>6
  <2>2. applyLoss(p) = [[[p EXCEPT !.rating = IF @ - 25 > 100 THEN @ - 25 ELSE 100]
                           EXCEPT !.losses = @ + 1] EXCEPT !.matchesPlayed = @ + 1]
    BY DEF applyLoss, Delta, Floor
  <2>3. applyLoss(p) = [b EXCEPT !.matchesPlayed = n + 1] BY <1>6, <2>2
  <2> HIDE DEF a
  <2>4. b = [rating |-> q, wins |-> w, losses |-> l + 1, matchesPlayed |-> n] BY <2>1
  <2> HIDE DEF b
  <2> QED BY <2>3, <2>4 DEF r, w, l, n
<1>4. Sound(applyWin(p))
  BY <1>1, <1>2 DEF Sound, Delta, Floor
<1>5. Sound(applyLoss(p))
  BY <1>1, <1>3 DEF Sound, Delta, Floor
<1> QED BY <1>2, <1>3, <1>4, <1>5

LEMMA SavedProfiles ==
  ASSUME RatingsAssumption, PInv, NEW s \in Slots, NEW u \in Users, SaveProfile(s, u)
  PROVE  ProfilesOK'
<1>1. PICK t, m : t = task[s] /\ m = s[1] OBVIOUS
<1> DEFINE after == IF t.left \ {u} = {} THEN Done ELSE [t EXCEPT !.left = t.left \ {u}]
           new == IF u \in t.won THEN applyWin(t.seen[u]) ELSE applyLoss(t.seen[u])
<1>2. /\ t.pc = "save" /\ u \in t.left /\ task' = [task EXCEPT ![s] = after]
      /\ crossed' = crossed
      /\ \/ UNCHANGED <<profile, credited>>
         \/ /\ profile' = [profile EXCEPT ![u] = new]
            /\ credited' = [credited EXCEPT ![m][u] = credited[m][u] + 1]
  BY <1>1 DEF SaveProfile, Set
<1>3. SeenOK(t) /\ u \in DOMAIN t.seen /\ Sound(t.seen[u]) /\ Pending(t, u)
  BY <1>1, <1>2 DEF PInv, ProfilesOK, SeenOK, Pending
<1>4. PICK x : t \in [pc : {"new", "record", "read", "save", "done"}, won : SUBSET Users,
                      lost : SUBSET Users, seen : {x}, left : SUBSET Users]
  BY <1>1 DEF PInv, IInv, Typed, TaskOK
<1>5. after = Done \/ (after.seen = t.seen /\ after.left = t.left \ {u} /\ after.pc = "save")
  <2>1. CASE t.left \ {u} = {} BY <2>1
  <2>2. CASE t.left \ {u} # {}
    <3>1. after = [pc |-> t.pc, won |-> t.won, lost |-> t.lost, seen |-> t.seen,
                   left |-> t.left \ {u}]
      BY <1>4, <2>2
    <3> QED BY <1>2, <3>1
  <2> QED BY <2>1, <2>2
<1> HIDE DEF after
<1>6. /\ SeenOK(after) /\ ~Pending(after, u)
      /\ \A v : Pending(after, v) => Pending(t, v) /\ after.seen[v] = t.seen[v]
  <2>1. CASE after = Done BY <2>1, DoneHoldsNothing
  <2>2. CASE after.seen = t.seen /\ after.left = t.left \ {u} /\ after.pc = "save"
    BY <1>2, <1>3, <2>2 DEF SeenOK, Pending
  <2> QED BY <1>5, <2>1, <2>2
<1>7. CASE UNCHANGED <<profile, credited>>
  <2>1. crossed \subseteq crossed' BY <1>2
  <2>2. \A v \in Users \ crossed' : Pending(after, v) =>
          Pending(task[s], v) /\ after.seen[v] = task[s].seen[v]
    BY <1>1, <1>6
  <2>3. SeenOK(after) /\ task' = [task EXCEPT ![s] = after] BY <1>2, <1>6
  <2> QED BY ONLY PInv, s \in Slots, <1>7, <2>1, <2>2, <2>3, HolderStep
<1>8. CASE /\ profile' = [profile EXCEPT ![u] = new]
           /\ credited' = [credited EXCEPT ![m][u] = credited[m][u] + 1]
  <2>1. Sound(new) /\ new.matchesPlayed = t.seen[u].matchesPlayed + 1
    BY <1>3, ResultSound
  <2> HIDE DEF new
  <2>2. profile = [v \in Users |-> profile[v]] /\ \A v \in Users : Sound(profile[v])
    BY DEF PInv, ProfilesOK
  <2>3. /\ profile' = [v \in Users |-> profile'[v]]
        /\ profile'[u] = new /\ \A v \in Users \ {u} : profile'[v] = profile[v]
    BY <1>8, <2>2
  <2>4. m \in Matches BY <1>1 DEF RatingsAssumption
  <2>5. credited \in [Matches -> [Users -> Nat]] BY DEF PInv, IInv, Typed
  <2>6. /\ credited'[m][u] = credited[m][u] + 1
        /\ \A n \in Matches : \A v \in Users :
             n # m \/ v # u => credited'[n][v] = credited[n][v]
    <3> DEFINE line == [credited[m] EXCEPT ![u] = credited[m][u] + 1]
    <3>1. line[u] = credited[m][u] + 1 /\ \A v \in Users \ {u} : line[v] = credited[m][v]
      BY <2>4, <2>5
    <3>2. credited' = [credited EXCEPT ![m] = line] BY <1>8
    <3> HIDE DEF line
    <3>3. credited'[m] = line /\ \A n \in Matches \ {m} : credited'[n] = credited[n]
      BY <2>4, <2>5, <3>2
    <3> QED BY <3>1, <3>3
  <2>7. \A o \in Slots : task'[o] = IF o = s THEN after ELSE task[o]
    BY <1>2 DEF PInv, IInv, Typed
  <2>8. ASSUME NEW v \in Users \ crossed PROVE Exact(v)'
    <3>1. Exact(v) BY <2>8 DEF PInv, ProfilesOK
    <3>2. Results(v) \in [Matches -> Nat] BY <2>5 DEF Results
    <3>3. CASE v = u
      <4>1. profile[u] = t.seen[u] /\ \A o \in Slots \ {s} : ~Pending(task[o], u)
        BY <1>1, <1>3, <3>1, <3>3 DEF Exact
      <4>2. \A o \in Slots : ~Pending(task'[o], u) BY <1>6, <2>7, <4>1
      <4>3. /\ Results(u)' \in [Matches -> Nat]
            /\ Results(u)'[m] = Results(u)[m] + 1
            /\ \A n \in Matches \ {m} : Results(u)'[n] = Results(u)[n]
        BY <2>4, <2>5, <2>6 DEF Results
      <4>4. SumFunction(Results(u)') = SumFunction(Results(u)) + 1
        BY <2>4, <3>2, <3>3, <4>3, SumBumped DEF RatingsAssumption
      <4>5. profile'[u].matchesPlayed = SumFunction(Results(u)')
        BY <2>1, <2>3, <3>1, <3>3, <4>1, <4>4 DEF Exact
      <4> QED BY <3>3, <4>2, <4>5 DEF Exact
    <3>4. CASE v # u
      <4>1. Results(v)' = Results(v) BY <2>6, <3>4 DEF Results
      <4>2. profile'[v] = profile[v] BY <2>3, <3>4
      <4>3. \A o \in Slots : Pending(task'[o], v) =>
              Pending(task[o], v) /\ task'[o].seen[v] = task[o].seen[v]
        BY <1>1, <1>6, <2>7
      <4> QED BY <3>1, <4>1, <4>2, <4>3 DEF Exact
    <3> QED BY <3>3, <3>4
  <2>9. \A o \in Slots : SeenOK(task'[o]) BY <1>6, <2>7 DEF PInv, ProfilesOK
  <2>10. \A v \in Users : Sound(profile'[v]) BY <2>1, <2>2, <2>3
  <2> QED BY <1>2, <2>3, <2>8, <2>9, <2>10 DEF ProfilesOK
<1> QED BY <1>2, <1>7, <1>8

LEMMA NextProfiles == RatingsAssumption /\ PInv /\ [Next]_vars => PInv'
<1> SUFFICES ASSUME RatingsAssumption, PInv, [Next]_vars PROVE PInv'
  OBVIOUS
<1>1. IInv' BY NextIInv DEF PInv
<1>2. ASSUME UNCHANGED <<task, profile, credited, crossed>> PROVE ProfilesOK'
  <2>1. \A u : Results(u)' = Results(u) BY <1>2 DEF Results
  <2>2. \A u \in Users \ crossed' : Exact(u)' BY <1>2, <2>1 DEF PInv, ProfilesOK, Exact
  <2> QED BY <1>2, <2>2 DEF PInv, ProfilesOK
<1>3. ProfilesOK'
  <2>1. ASSUME NEW m \in Matches, NEW u \in Users,
               Finish(m) \/ Disconnect(m, u) \/ Reconnect(m, u)
                 \/ LeaveMatch(m, u) \/ JoinAnew(m, u)
        PROVE  ProfilesOK'
    BY <1>2, <2>1 DEF Finish, Disconnect, Reconnect, LeaveMatch, JoinAnew
  <2>2. ASSUME NEW m \in Matches, Finish(m) PROVE ProfilesOK'
    BY <1>2, <2>2 DEF Finish
  <2>3. ASSUME NEW s \in Slots, MarkApplied(s) \/ SaveRecord(s) PROVE ProfilesOK'
    BY <2>3, MarkedProfiles
  <2>4. ASSUME NEW s \in Slots, NEW u \in Users, ReadProfile(s, u) \/ SaveProfile(s, u)
        PROVE  ProfilesOK'
    BY <2>4, ReadProfiles, SavedProfiles
  <2>5. CASE UNCHANGED vars BY <1>2, <2>5 DEF vars
  <2> QED BY <2>1, <2>2, <2>3, <2>4, <2>5 DEF Next
<1> QED BY <1>1, <1>3 DEF PInv

LEMMA ProfilesHeld == Spec => []PInv
<1>1. ASSUME Init PROVE PInv BY <1>1, InitIInv, InitProfiles, RatingsAssumption DEF PInv
<1> QED BY <1>1, NextProfiles, RatingsAssumption, PTL DEF Spec

(* A profile holds as many results as were saved to it, unless two matches *)
(* of its user were rated across one another: what fails, or never ends,   *)
(* loses nobody else's.                                                    *)
THEOREM ResultsKeptCount == Spec => []NoResultLost
<1>1. ASSUME PInv PROVE NoResultLost
  BY <1>1 DEF PInv, ProfilesOK, Exact, Results, NoResultLost
<1> QED BY <1>1, ProfilesHeld, PTL

(* Every profile is one that wins and losses lead to, at or above the      *)
(* floor, whatever else happens to it.                                     *)
THEOREM ProfilesAddUp == Spec => []ProfileAddsUp
<1>1. ASSUME PInv PROVE ProfileAddsUp
  <2>1. \A u \in Users : Sound(profile[u]) BY <1>1 DEF PInv, ProfilesOK
  <2> QED BY <2>1, RatingsAssumption DEF Sound, Delta, RatingsAssumption, ProfileAddsUp
<1> QED BY <1>1, ProfilesHeld, PTL
=============================================================================
