--------------------------- MODULE RateLimitProofs ---------------------------
(***************************************************************************)
(* The rate limit's guarantees for any clients, window, allowance, block   *)
(* and cleanup threshold.                                                  *)
(***************************************************************************)
EXTENDS RateLimit, FiniteSetTheorems, TLAPS

-----------------------------------------------------------------------------
(* The inductive invariant, one client at a time *)

Look(table, c) == IF c \in DOMAIN table THEN table[c] ELSE Fresh

StateType(st) ==
  /\ st = [hits |-> st.hits, blockedUntil |-> st.blockedUntil]
  /\ st.hits \subseteq HitType /\ IsFiniteSet(st.hits)
  /\ st.blockedUntil \in 0..(now + BlockMs)

\* The entry remembers every event served within the window, and nothing else
\* but the hits that started a block; a running block is the one the client
\* was told of.
Good(st, sv, tl) ==
  /\ StateType(st)
  /\ InWindow(sv) \subseteq st.hits
  /\ \A h \in st.hits : h \in sv \/ h.at + BlockMs <= tl
  /\ st.blockedUntil > now \/ tl > now => st.blockedUntil = tl

Shape ==
  /\ now \in Nat
  /\ DOMAIN entries \subseteq Clients
  /\ serial \in [Clients -> Nat]
  /\ served \in [Clients -> SUBSET HitType]
  /\ told \in [Clients -> Nat]

IInv ==
  /\ Shape
  /\ \A c \in Clients : /\ Good(StateOf(c), served[c], told[c])
                        /\ Cardinality(InWindow(served[c])) <= MaxEvents

-----------------------------------------------------------------------------
(* Pruning and compacting *)

\* An entry that is good stays good when it is pruned.
LEMMA PruneKeeps ==
  ASSUME now \in Nat, NEW st, NEW sv \in SUBSET HitType, NEW tl \in Nat,
         Good(st, sv, tl)
  PROVE  Good(Prune(st), sv, tl)
<1>1. /\ Prune(st).hits = InWindow(st.hits)
      /\ Prune(st).blockedUntil \in {0, st.blockedUntil}
      /\ st.blockedUntil > now => Prune(st).blockedUntil = st.blockedUntil
      /\ st.blockedUntil <= now => Prune(st).blockedUntil = 0
      /\ Prune(st) = [hits |-> Prune(st).hits, blockedUntil |-> Prune(st).blockedUntil]
  BY RateAssumption DEF Prune, Good, StateType
<1>2. InWindow(st.hits) \subseteq st.hits
  BY DEF InWindow
<1>3. IsFiniteSet(Prune(st).hits)
  BY <1>1, <1>2, FS_Subset DEF Good, StateType
<1>4. InWindow(sv) \subseteq InWindow(st.hits)
  BY DEF Good, InWindow
<1>5. StateType(Prune(st))
  BY <1>1, <1>2, <1>3, RateAssumption DEF Good, StateType
<1> QED
  BY <1>1, <1>2, <1>4, <1>5, RateAssumption DEF Good, StateType

\* A client whose entry is deleted needs none.
LEMMA IdleNeedsNothing ==
  ASSUME now \in Nat, NEW st, NEW sv \in SUBSET HitType, NEW tl \in Nat,
         Good(st, sv, tl), Idle(st)
  PROVE  Good(Fresh, sv, tl)
<1>1. Good(Prune(st), sv, tl)
  BY PruneKeeps
<1> QED
  BY <1>1 DEF Idle

\* Compaction keeps every client's entry good.
LEMMA CompactKeeps ==
  ASSUME now \in Nat, NEW table, NEW c, NEW sv \in SUBSET HitType, NEW tl \in Nat,
         Good(Look(table, c), sv, tl)
  PROVE  Good(Look(Compact(table), c), sv, tl)
<1>1. CASE Compact(table) = table
  BY <1>1
<1>2. CASE Compact(table) =
           [d \in {e \in DOMAIN table : ~Idle(table[e])} |-> Prune(table[d])]
  <2>1. CASE c \in DOMAIN table /\ ~Idle(table[c])
    <3>1. Look(Compact(table), c) = Prune(table[c]) /\ Look(table, c) = table[c]
      BY <1>2, <2>1 DEF Look
    <3> QED BY <3>1, PruneKeeps
  <2>2. CASE c \in DOMAIN table /\ Idle(table[c])
    <3>1. Look(Compact(table), c) = Fresh /\ Look(table, c) = table[c]
      BY <1>2, <2>2 DEF Look
    <3> QED BY <3>1, <2>2, IdleNeedsNothing
  <2>3. CASE c \notin DOMAIN table
    <3>1. Look(Compact(table), c) = Fresh /\ Look(table, c) = Fresh
      BY <1>2, <2>3 DEF Look
    <3> QED BY <3>1
  <2> QED BY <2>1, <2>2, <2>3
<1> QED BY <1>1, <1>2 DEF Compact

\* What a step does to the table: the entry of one client, then compaction.
LEMMA TableStep ==
  ASSUME IInv, NEW c \in Clients, NEW st, entries' = Compact(With(entries, c, st)),
         now' = now, serial' \in [Clients -> Nat],
         served' \in [Clients -> SUBSET HitType], told' \in [Clients -> Nat],
         Good(st, served'[c], told'[c]),
         Cardinality(InWindow(served'[c])) <= MaxEvents,
         \A d \in Clients \ {c} : served'[d] = served[d] /\ told'[d] = told[d]
  PROVE  IInv'
<1> DEFINE table == With(entries, c, st)
<1>1. DOMAIN table = DOMAIN entries \cup {c}
  BY DEF With
<1>2. Look(table, c) = st /\ \A d \in Clients \ {c} : Look(table, d) = StateOf(d)
  BY DEF With, Look, StateOf
<1>3. entries' = Compact(table)
  OBVIOUS
<1> HIDE DEF table
<1>4. DOMAIN entries' \subseteq Clients
  BY <1>1, <1>3 DEF IInv, Shape, Compact
<1>5. now \in Nat
  BY DEF IInv, Shape
<1>6. ASSUME NEW d \in Clients PROVE Good(Look(table, d), served'[d], told'[d])
  BY <1>2 DEF IInv
<1>7. ASSUME NEW d \in Clients PROVE Good(Look(entries', d), served'[d], told'[d])
  BY <1>3, <1>5, <1>6, CompactKeeps
<1>8. ASSUME NEW d \in Clients PROVE Good(StateOf(d), served[d], told[d])'
  <2>1. StateOf(d)' = Look(entries', d)
    BY DEF StateOf, Look, Fresh
  <2>2. InWindow(served[d])' = InWindow(served'[d])
    BY DEF InWindow
  <2>3. HitType' = HitType
    BY DEF HitType
  <2> QED BY <1>7, <2>1, <2>2, <2>3 DEF Good, StateType
<1>9. ASSUME NEW d \in Clients PROVE Cardinality(InWindow(served[d]))' <= MaxEvents
  <2>1. InWindow(served[d])' = InWindow(served'[d])
    BY DEF InWindow
  <2> QED BY <2>1 DEF IInv
<1>10. Shape'
  BY <1>4, <1>5 DEF Shape, HitType
<1> QED BY <1>8, <1>9, <1>10 DEF IInv

-----------------------------------------------------------------------------
(* The three answers of canActivate and the clock *)

LEMMA HitTyped ==
  ASSUME Shape, NEW c \in Clients
  PROVE  Hit(c) \in HitType /\ Hit(c).at = now
BY DEF Shape, HitType, Hit

\* The entry a hit was pushed to, by a client that is not blocked.
LEMMA PushedEntry ==
  ASSUME IInv, NEW c \in Clients, Prune(StateOf(c)).blockedUntil <= now
  PROVE  /\ told[c] <= now
         /\ Pushed(c).blockedUntil = 0
         /\ Pushed(c).hits = InWindow(StateOf(c).hits) \cup {Hit(c)}
         /\ Pushed(c) = [hits |-> Pushed(c).hits, blockedUntil |-> 0]
         /\ IsFiniteSet(Pushed(c).hits) /\ Pushed(c).hits \subseteq HitType
<1>1. now \in Nat /\ told[c] \in Nat /\ served[c] \in SUBSET HitType
  BY DEF IInv, Shape
<1>2. Good(StateOf(c), served[c], told[c])
  BY DEF IInv
<1>3. Good(Prune(StateOf(c)), served[c], told[c])
  BY <1>1, <1>2, PruneKeeps
<1>4. told[c] <= now
  BY <1>1, <1>3 DEF Good
<1>5. Prune(StateOf(c)) = [hits |-> InWindow(StateOf(c).hits), blockedUntil |-> 0]
  BY <1>1, <1>2, RateAssumption DEF Prune, Good, StateType
<1>6. IsFiniteSet(InWindow(StateOf(c).hits)) /\ InWindow(StateOf(c).hits) \subseteq HitType
  BY <1>3, <1>5 DEF Good, StateType
<1>7. Pushed(c) = [hits |-> InWindow(StateOf(c).hits) \cup {Hit(c)}, blockedUntil |-> 0]
  BY <1>5 DEF Pushed
<1>8. Hit(c) \in HitType
  BY HitTyped DEF IInv
<1>9. IsFiniteSet(InWindow(StateOf(c).hits) \cup {Hit(c)})
  BY <1>6, FS_AddElement
<1> QED BY <1>4, <1>6, <1>7, <1>8, <1>9

LEMMA RefuseBlockedKeeps ==
  ASSUME IInv, NEW c \in Clients, RefuseBlocked(c)
  PROVE  IInv' /\ told' = told
<1> DEFINE st == Prune(StateOf(c))
<1>1. now \in Nat /\ told[c] \in Nat /\ served[c] \in SUBSET HitType
  BY DEF IInv, Shape
<1>2. Good(StateOf(c), served[c], told[c])
  BY DEF IInv
<1>3. Good(st, served[c], told[c])
  BY <1>1, <1>2, PruneKeeps
<1>4. /\ st.blockedUntil > now
      /\ entries' = Compact(With(entries, c, st))
      /\ told' = [told EXCEPT ![c] = st.blockedUntil]
      /\ now' = now /\ serial' = serial /\ served' = served
  BY DEF RefuseBlocked
<1> HIDE DEF st
<1>5. told' = told
  BY <1>3, <1>4 DEF Good, IInv, Shape
<1>6. Cardinality(InWindow(served[c])) <= MaxEvents
  BY DEF IInv
<1>7. /\ serial' \in [Clients -> Nat] /\ served' \in [Clients -> SUBSET HitType]
      /\ told' \in [Clients -> Nat]
  BY <1>4, <1>5 DEF IInv, Shape
<1>8. Good(st, served'[c], told'[c]) /\ Cardinality(InWindow(served'[c])) <= MaxEvents
  BY <1>3, <1>4, <1>5, <1>6
<1>9. IInv'
  BY <1>4, <1>5, <1>7, <1>8, TableStep
<1> QED BY <1>5, <1>9

LEMMA RefuseOverflowKeeps ==
  ASSUME IInv, NEW c \in Clients, RefuseOverflow(c)
  PROVE  IInv'
<1> DEFINE st == [Pushed(c) EXCEPT !.blockedUntil = now + BlockMs]
<1>1. /\ told[c] <= now
      /\ Pushed(c).hits = InWindow(StateOf(c).hits) \cup {Hit(c)}
      /\ Pushed(c) = [hits |-> Pushed(c).hits, blockedUntil |-> 0]
      /\ IsFiniteSet(Pushed(c).hits) /\ Pushed(c).hits \subseteq HitType
  BY PushedEntry DEF RefuseOverflow
<1>2. /\ now \in Nat /\ told[c] \in Nat /\ served[c] \in SUBSET HitType
      /\ Good(StateOf(c), served[c], told[c])
      /\ Cardinality(InWindow(served[c])) <= MaxEvents
  BY DEF IInv, Shape
<1>3. Hit(c).at = now
  BY HitTyped DEF IInv
<1>4. st = [hits |-> InWindow(StateOf(c).hits) \cup {Hit(c)}, blockedUntil |-> now + BlockMs]
  BY <1>1
<1>5. /\ entries' = Compact(With(entries, c, st))
      /\ told' = [told EXCEPT ![c] = now + BlockMs]
      /\ serial' = [serial EXCEPT ![c] = @ + 1]
      /\ now' = now /\ served' = served
  BY DEF RefuseOverflow
<1>6. StateType(st)
  BY <1>1, <1>2, <1>4, RateAssumption DEF StateType
<1> HIDE DEF st
<1>7. told'[c] = now + BlockMs /\ \A d \in Clients \ {c} : told'[d] = told[d]
  BY <1>5 DEF IInv, Shape
<1>8. InWindow(served[c]) \subseteq st.hits
  BY <1>2, <1>4 DEF Good, InWindow
<1>9. \A h \in st.hits : h \in served[c] \/ h.at + BlockMs <= now + BlockMs
  <2>1. SUFFICES ASSUME NEW h \in InWindow(StateOf(c).hits)
                 PROVE  h \in served[c] \/ h.at + BlockMs <= now + BlockMs
    BY <1>3, <1>4, <1>2, RateAssumption
  <2>2. h.at \in 0..now
    BY <1>2 DEF Good, StateType, InWindow, HitType
  <2> QED BY <2>2, <1>2, RateAssumption
<1>10. Good(st, served'[c], told'[c])
  BY <1>4, <1>5, <1>6, <1>7, <1>8, <1>9 DEF Good
<1>11. /\ serial' \in [Clients -> Nat] /\ served' \in [Clients -> SUBSET HitType]
       /\ told' \in [Clients -> Nat]
  BY <1>2, <1>5, RateAssumption DEF IInv, Shape
<1>12. Cardinality(InWindow(served'[c])) <= MaxEvents
  BY <1>2, <1>5
<1> QED BY <1>5, <1>7, <1>10, <1>11, <1>12, TableStep

LEMMA ServeKeeps ==
  ASSUME IInv, NEW c \in Clients, Serve(c)
  PROVE  IInv' /\ told[c] <= now
<1> DEFINE st == Pushed(c)
<1>1. /\ told[c] <= now
      /\ st.hits = InWindow(StateOf(c).hits) \cup {Hit(c)}
      /\ st = [hits |-> st.hits, blockedUntil |-> 0]
      /\ IsFiniteSet(st.hits) /\ st.hits \subseteq HitType
  BY PushedEntry DEF Serve
<1>2. /\ now \in Nat /\ told[c] \in Nat /\ served[c] \in SUBSET HitType
      /\ Good(StateOf(c), served[c], told[c])
  BY DEF IInv, Shape
<1>3. Hit(c) \in HitType /\ Hit(c).at = now
  BY HitTyped DEF IInv
<1>4. /\ Cardinality(st.hits) <= MaxEvents
      /\ entries' = Compact(With(entries, c, st))
      /\ served' = [served EXCEPT ![c] = @ \cup {Hit(c)}]
      /\ serial' = [serial EXCEPT ![c] = @ + 1]
      /\ now' = now /\ told' = told
  <2>1. Cardinality(st.hits) \in Nat
    BY <1>1, FS_CardinalityType
  <2> QED BY <2>1, RateAssumption DEF Serve, Overflows
<1> HIDE DEF st
<1>5. served'[c] = served[c] \cup {Hit(c)} /\ \A d \in Clients \ {c} : served'[d] = served[d]
  BY <1>4 DEF IInv, Shape
<1>6. InWindow(served'[c]) \subseteq st.hits
  BY <1>1, <1>2, <1>5 DEF Good, InWindow
<1>7. Cardinality(InWindow(served'[c])) <= MaxEvents
  <2>1. /\ Cardinality(InWindow(served'[c])) <= Cardinality(st.hits)
        /\ IsFiniteSet(InWindow(served'[c]))
    BY <1>1, <1>6, FS_Subset
  <2>2. Cardinality(InWindow(served'[c])) \in Nat /\ Cardinality(st.hits) \in Nat
    BY <2>1, <1>1, FS_CardinalityType
  <2> QED BY <2>1, <2>2, <1>4, RateAssumption
<1>8. \A h \in st.hits : h \in served'[c] \/ h.at + BlockMs <= told[c]
  BY <1>1, <1>2, <1>5 DEF Good, InWindow
<1>9. StateType(st)
  BY <1>1, <1>2, RateAssumption DEF StateType
<1>10. Good(st, served'[c], told'[c])
  <2>1. told'[c] = told[c]
    BY <1>4
  <2>2. ~(st.blockedUntil > now) /\ ~(told[c] > now)
    BY <1>1, <1>2
  <2> QED BY <2>1, <2>2, <1>6, <1>8, <1>9 DEF Good
<1>11. /\ serial' \in [Clients -> Nat] /\ served' \in [Clients -> SUBSET HitType]
       /\ told' \in [Clients -> Nat]
  BY <1>3, <1>4, <1>2 DEF IInv, Shape
<1> QED BY <1>1, <1>4, <1>5, <1>7, <1>10, <1>11, TableStep

LEMMA TickKeeps ==
  ASSUME IInv, Tick
  PROVE  IInv'
<1>1. /\ now \in Nat /\ now' = now + 1
      /\ entries' = entries /\ serial' = serial /\ served' = served /\ told' = told
  BY DEF IInv, Shape, Tick
<1>2. HitType \subseteq HitType'
  BY <1>1 DEF HitType
<1>3. Shape'
  BY <1>1, <1>2 DEF IInv, Shape
<1>4. ASSUME NEW c \in Clients
      PROVE  Good(StateOf(c), served[c], told[c])' /\ Cardinality(InWindow(served[c]))' <= MaxEvents
  <2> DEFINE st == StateOf(c)
             later == {h \in served[c] : now' - h.at < WindowMs}
  <2>1. /\ Good(st, served[c], told[c]) /\ Cardinality(InWindow(served[c])) <= MaxEvents
        /\ told[c] \in Nat /\ served[c] \subseteq HitType
    BY DEF IInv, Shape
  <2>2. StateOf(c)' = st
    BY <1>1 DEF StateOf, Fresh
  <2>3. InWindow(served[c])' = later
    BY <1>1 DEF InWindow
  <2> HIDE DEF st
  <2>4. later \subseteq InWindow(served[c])
    BY <2>1, <1>1, RateAssumption DEF InWindow, HitType
  <2>5. IsFiniteSet(InWindow(served[c]))
    BY <2>1, FS_Subset DEF Good, StateType
  <2>6. Cardinality(later) <= MaxEvents
    <3>1. Cardinality(later) <= Cardinality(InWindow(served[c])) /\ IsFiniteSet(later)
      BY <2>4, <2>5, FS_Subset
    <3>2. Cardinality(later) \in Nat /\ Cardinality(InWindow(served[c])) \in Nat
      BY <3>1, <2>5, FS_CardinalityType
    <3> QED BY <3>1, <3>2, <2>1, RateAssumption
  <2> HIDE DEF later
  <2>7. StateType(st)'
    <3>1. st.blockedUntil \in 0..(now' + BlockMs)
      BY <2>1, <1>1, RateAssumption DEF Good, StateType
    <3>2. st.hits \subseteq HitType'
      BY <2>1, <1>2 DEF Good, StateType
    <3> QED BY <3>1, <3>2, <2>1, <2>2 DEF Good, StateType, st
  <2>8. st.blockedUntil > now' \/ told[c] > now' => st.blockedUntil = told[c]
    BY <2>1, <1>1, RateAssumption DEF Good, StateType
  <2>9. later \subseteq st.hits /\ \A h \in st.hits : h \in served[c] \/ h.at + BlockMs <= told[c]
    BY <2>1, <2>4 DEF Good
  <2>10. Good(StateOf(c), served[c], told[c])'
    BY <1>1, <2>2, <2>3, <2>7, <2>8, <2>9 DEF Good, st
  <2> QED BY <2>3, <2>6, <2>10
<1> QED BY <1>3, <1>4 DEF IInv

-----------------------------------------------------------------------------
(* The theorems *)

LEMMA Initially == Init => IInv
<1> SUFFICES ASSUME Init PROVE IInv
  OBVIOUS
<1>1. Shape
  BY DEF Init, Shape
<1>2. ASSUME NEW c \in Clients
      PROVE  Good(StateOf(c), served[c], told[c]) /\ Cardinality(InWindow(served[c])) <= MaxEvents
  <2>1. StateOf(c) = Fresh /\ served[c] = {} /\ told[c] = 0 /\ now = 0
    BY DEF Init, StateOf
  <2>2. InWindow({}) = {}
    BY DEF InWindow
  <2>3. IsFiniteSet({}) /\ Cardinality({}) = 0
    BY FS_EmptySet
  <2>4. StateType(Fresh)
    BY <2>1, <2>3, RateAssumption DEF StateType, Fresh
  <2>5. Good(Fresh, {}, 0)
    BY <2>1, <2>2, <2>4 DEF Good, Fresh
  <2> QED BY <2>1, <2>2, <2>3, <2>5, RateAssumption
<1> QED BY <1>1, <1>2 DEF IInv

LEMMA StepKeeps == IInv /\ [Next]_vars => IInv'
<1> SUFFICES ASSUME IInv, [Next]_vars PROVE IInv'
  OBVIOUS
<1>1. ASSUME NEW c \in Clients, RefuseBlocked(c) PROVE IInv'
  BY <1>1, RefuseBlockedKeeps
<1>2. ASSUME NEW c \in Clients, RefuseOverflow(c) PROVE IInv'
  BY <1>2, RefuseOverflowKeeps
<1>3. ASSUME NEW c \in Clients, Serve(c) PROVE IInv'
  BY <1>3, ServeKeeps
<1>4. CASE Tick
  BY <1>4, TickKeeps
<1>5. CASE UNCHANGED vars
  BY <1>5 DEF vars, IInv, Shape, Good, StateType, StateOf, InWindow, HitType, Fresh
<1> QED BY <1>1, <1>2, <1>3, <1>4, <1>5 DEF Next

LEMMA Always == Spec => []IInv
BY Initially, StepKeeps, PTL DEF Spec

\* Entries, history and clock keep their types: canActivate never leaves a hit
\* of the future or a block longer than BlockMs in the table.
THEOREM TypeCorrect == Spec => []TypeOK
<1>1. IInv => TypeOK
  <2> SUFFICES ASSUME IInv PROVE TypeOK
    OBVIOUS
  <2>1. ASSUME NEW c \in DOMAIN entries
        PROVE  /\ entries[c].hits \subseteq HitType /\ IsFiniteSet(entries[c].hits)
               /\ entries[c].blockedUntil \in 0..(now + BlockMs)
    <3>1. c \in Clients /\ StateOf(c) = entries[c]
      BY <2>1 DEF IInv, Shape, StateOf
    <3> QED BY <3>1 DEF IInv, Good, StateType
  <2> QED BY <2>1 DEF IInv, Shape, TypeOK
<1> QED BY <1>1, Always, PTL

\* The window holds for every client at every time, for any window and
\* allowance: what canActivate lets through is in the entry while it counts.
THEOREM WindowIsKept == Spec => []WindowHolds
<1>1. IInv => WindowHolds
  BY DEF IInv, WindowHolds
<1> QED BY <1>1, Always, PTL

\* No client is let through before the wait it was told of is over, for any
\* cleanup threshold: compactEntries never drops a running block.
THEOREM WaitRespected == Spec => WaitIsKept
<1> DEFINE A == \A c \in Clients : served'[c] # served[c] => told[c] <= now
<1>1. IInv /\ [Next]_vars => [A]_vars
  <2> SUFFICES ASSUME IInv, Next, NEW c \in Clients, served'[c] # served[c]
               PROVE  told[c] <= now
    BY DEF vars
  <2>1. PICK d \in Clients : Serve(d)
    BY DEF Next, RefuseBlocked, RefuseOverflow, Tick
  <2>2. d = c
    BY <2>1 DEF Serve, IInv, Shape
  <2> QED BY <2>1, <2>2, ServeKeeps
<1> QED BY <1>1, Always, PTL DEF Spec, WaitIsKept

\* A block is started only against a client that used up its window.
THEOREM BlocksEarned == Spec => BlockIsEarned
<1> DEFINE A == BlockMs >= WindowMs =>
                  \A c \in Clients :
                    told'[c] # told[c] => Cardinality(InWindow(served[c])) = MaxEvents
<1>1. IInv /\ [Next]_vars => [A]_vars
  <2> SUFFICES ASSUME IInv, Next, BlockMs >= WindowMs, NEW c \in Clients, told'[c] # told[c]
               PROVE  Cardinality(InWindow(served[c])) = MaxEvents
    BY DEF vars
  <2>1. PICK d \in Clients : RefuseOverflow(d)
    BY RefuseBlockedKeeps DEF Next, Serve, Tick
  <2>2. RefuseOverflow(c)
    BY <2>1 DEF RefuseOverflow, IInv, Shape
  <2> DEFINE recent == InWindow(served[c])
             held == InWindow(StateOf(c).hits)
  <2>3. /\ told[c] <= now /\ Pushed(c).hits = held \cup {Hit(c)}
        /\ IsFiniteSet(Pushed(c).hits)
    BY <2>2, PushedEntry DEF RefuseOverflow
  <2>4. Good(StateOf(c), served[c], told[c]) /\ now \in Nat /\ told[c] \in Nat
    BY DEF IInv, Shape
  <2>5. held \subseteq recent
    <3>1. SUFFICES ASSUME NEW h \in held PROVE h \in recent
      OBVIOUS
    <3>2. h.at \in 0..now /\ now - h.at < WindowMs /\ h \in StateOf(c).hits
      BY <2>4 DEF Good, StateType, HitType, InWindow
    <3>3. ~(h.at + BlockMs <= told[c])
      BY <3>2, <2>3, <2>4, RateAssumption
    <3>4. h \in served[c]
      BY <3>2, <3>3, <2>4 DEF Good
    <3> QED BY <3>2, <3>4 DEF InWindow
  <2>6. IsFiniteSet(recent)
    BY <2>3, <2>4, FS_Subset DEF Good, StateType, InWindow
  <2>7. Cardinality(recent) <= MaxEvents
    BY DEF IInv
  <2>8. Cardinality(held \cup {Hit(c)}) > MaxEvents
    BY <2>2, <2>3 DEF RefuseOverflow, Overflows
  <2> HIDE DEF recent, held
  <2>9. IsFiniteSet(recent \cup {Hit(c)}) /\
        Cardinality(recent \cup {Hit(c)}) \in {Cardinality(recent), Cardinality(recent) + 1}
    BY <2>6, FS_AddElement
  <2>10. /\ Cardinality(held \cup {Hit(c)}) <= Cardinality(recent \cup {Hit(c)})
         /\ IsFiniteSet(held \cup {Hit(c)})
    BY <2>5, <2>9, FS_Subset
  <2>11. Cardinality(recent) \in Nat /\ Cardinality(held \cup {Hit(c)}) \in Nat
    BY <2>6, <2>10, FS_CardinalityType
  <2>12. Cardinality(recent) = MaxEvents
    BY <2>7, <2>8, <2>9, <2>10, <2>11, RateAssumption
  <2> QED BY <2>12 DEF recent
<1> QED BY <1>1, Always, PTL DEF Spec, BlockIsEarned
=============================================================================
