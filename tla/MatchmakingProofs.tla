-------------------------- MODULE MatchmakingProofs --------------------------
(***************************************************************************)
(* What the queue guarantees for any players, sockets, modes, ratings and  *)
(* matches being made: one place to a player, nobody at a table who waits  *)
(* as well, and a pairing wherever two wait.                               *)
(***************************************************************************)
EXTENDS Matchmaking, FiniteSetTheorems, SequenceTheorems, WellFoundedInduction, TLAPS

EntryType == [socket : Sockets, joinedAt : Nat]

LobbyType == [queues : [Modes -> SUBSET EntryType], fallback : [Sockets -> Modes \cup {None}]]

\* OnePlacePerPlayer, of any lobby.
OnePlace(l) ==
  \A s, t \in Sockets : PlayerOf[s] = PlayerOf[t] =>
    /\ \A m, n \in Modes :
         \A e \in OfSocket(l.queues[m], s), f \in OfSocket(l.queues[n], t) :
           m = n /\ e = f
    /\ l.fallback[s] # None =>
         /\ \A m \in Modes : OfSocket(l.queues[m], t) = {}
         /\ l.fallback[t] # None => s = t

LobbyOK(l) == l \in LobbyType /\ OnePlace(l)

IInv == /\ now \in Nat /\ joining \in [Sockets -> Modes \cup {None}]
        /\ LobbyOK(lobby)

-----------------------------------------------------------------------------
(* What the manager's operations keep *)

LEMMA RemoveOneFacts ==
  ASSUME NEW queue, NEW match
  PROVE  /\ RemoveOne(queue, match) \subseteq queue
         /\ \A e \in queue \cap match :
              (\A f \in queue \cap match : f = e) => RemoveOne(queue, match) = queue \ {e}
         /\ queue \cap match = {} => RemoveOne(queue, match) = queue
BY DEF RemoveOne

\* Places that are only given up leave at most one to each player.
LEMMA ShrinkKeeps ==
  ASSUME NEW l, LobbyOK(l), NEW k \in LobbyType,
         \A m \in Modes : k.queues[m] \subseteq l.queues[m],
         \A s \in Sockets : k.fallback[s] \in {None, l.fallback[s]}
  PROVE  LobbyOK(k)
<1>1. SUFFICES ASSUME NEW s \in Sockets, NEW t \in Sockets, PlayerOf[s] = PlayerOf[t]
               PROVE  /\ \A m, n \in Modes :
                           \A e \in OfSocket(k.queues[m], s), f \in OfSocket(k.queues[n], t) :
                             m = n /\ e = f
                      /\ k.fallback[s] # None =>
                           /\ \A m \in Modes : OfSocket(k.queues[m], t) = {}
                           /\ k.fallback[t] # None => s = t
  BY DEF LobbyOK, OnePlace
<1>2. \A m \in Modes : /\ OfSocket(k.queues[m], s) \subseteq OfSocket(l.queues[m], s)
                       /\ OfSocket(k.queues[m], t) \subseteq OfSocket(l.queues[m], t)
  BY DEF OfSocket
<1>3. /\ k.fallback[s] # None => l.fallback[s] # None
      /\ k.fallback[t] # None => l.fallback[t] # None
  OBVIOUS
<1>4. /\ \A m, n \in Modes :
           \A e \in OfSocket(l.queues[m], s), f \in OfSocket(l.queues[n], t) :
             m = n /\ e = f
      /\ l.fallback[s] # None =>
           /\ \A m \in Modes : OfSocket(l.queues[m], t) = {}
           /\ l.fallback[t] # None => s = t
  BY <1>1 DEF LobbyOK, OnePlace
<1>5. \A m, n \in Modes :
        \A e \in OfSocket(k.queues[m], s), f \in OfSocket(k.queues[n], t) : m = n /\ e = f
  BY <1>2, <1>4
<1>6. k.fallback[s] # None => \A m \in Modes : OfSocket(k.queues[m], t) = {}
  BY <1>2, <1>3, <1>4
<1>7. k.fallback[s] # None /\ k.fallback[t] # None => s = t
  BY <1>3, <1>4
<1> QED BY <1>5, <1>6, <1>7

LEMMA LeaveKeeps ==
  ASSUME NEW l, LobbyOK(l), NEW s
  PROVE  LobbyOK(LeaveBySocketId(l, s)) /\ LobbyOK(ClearFallback(l, s))
<1>1. ASSUME QueuedIn(l, s) = {} PROVE LobbyOK(LeaveBySocketId(l, s))
  BY <1>1 DEF LeaveBySocketId
<1>2. ASSUME QueuedIn(l, s) # {} PROVE LobbyOK(LeaveBySocketId(l, s))
  <2> DEFINE m == CHOOSE x \in QueuedIn(l, s) : TRUE
             k == [l EXCEPT !.queues[m] = RemoveOne(@, OfSocket(@, s))]
  <2>1. m \in Modes
    BY <1>2 DEF QueuedIn
  <2>2. LeaveBySocketId(l, s) = k
    BY <1>2 DEF LeaveBySocketId
  <2> HIDE DEF m
  <2>3. RemoveOne(l.queues[m], OfSocket(l.queues[m], s)) \subseteq l.queues[m]
    BY RemoveOneFacts
  <2>4. l \in LobbyType
    BY DEF LobbyOK
  <2>5. k \in LobbyType
    BY <2>1, <2>3, <2>4 DEF LobbyType
  <2>6. /\ \A n \in Modes : k.queues[n] \subseteq l.queues[n]
        /\ \A t \in Sockets : k.fallback[t] \in {None, l.fallback[t]}
    BY <2>1, <2>3, <2>4 DEF LobbyType
  <2> HIDE DEF k
  <2>7. LobbyOK(k)
    BY <2>5, <2>6, ShrinkKeeps
  <2> QED BY <2>2, <2>7
<1>3. LobbyOK(ClearFallback(l, s))
  <2> DEFINE k == ClearFallback(l, s)
  <2>1. l \in LobbyType
    BY DEF LobbyOK
  <2>2. k \in LobbyType
    BY <2>1 DEF LobbyType, ClearFallback
  <2>3. /\ \A n \in Modes : k.queues[n] \subseteq l.queues[n]
        /\ \A t \in Sockets : k.fallback[t] \in {None, l.fallback[t]}
    BY <2>1 DEF LobbyType, ClearFallback
  <2> HIDE DEF k
  <2>4. LobbyOK(k)
    BY <2>2, <2>3, ShrinkKeeps
  <2> QED BY <2>4 DEF k
<1> QED BY <1>1, <1>2, <1>3

\* An overdue entry gives its place to the offer made for it.
LEMMA ExpireKeeps ==
  ASSUME NEW l, LobbyOK(l), NEW mode \in Modes
  PROVE  LobbyOK(Expire(l, mode))
<1> DEFINE k == Expire(l, mode)
<1>1. l \in LobbyType /\ OnePlace(l)
  BY DEF LobbyOK
<1>2. k = [queues |-> k.queues, fallback |-> k.fallback]
  BY DEF Expire
<1>3. /\ k.queues = [l.queues EXCEPT ![mode] = @ \ Overdue(l, mode)]
      /\ k.fallback = [s \in Sockets |-> IF OfSocket(Overdue(l, mode), s) # {} THEN mode
                                         ELSE l.fallback[s]]
  BY DEF Expire
<1> HIDE DEF k
<1>4. /\ \A m \in Modes : k.queues[m] \subseteq l.queues[m]
      /\ k.queues[mode] = l.queues[mode] \ Overdue(l, mode)
  BY <1>1, <1>3 DEF LobbyType
<1>5. \A s \in Sockets :
        \/ k.fallback[s] = l.fallback[s] /\ OfSocket(Overdue(l, mode), s) = {}
        \/ k.fallback[s] = mode /\ OfSocket(Overdue(l, mode), s) # {}
  BY <1>3
<1>6. k \in LobbyType
  BY <1>1, <1>2, <1>3 DEF LobbyType
<1>7. Overdue(l, mode) \subseteq l.queues[mode]
  BY DEF Overdue
<1>8. SUFFICES ASSUME NEW s \in Sockets, NEW t \in Sockets, PlayerOf[s] = PlayerOf[t]
               PROVE  /\ \A m, n \in Modes :
                           \A e \in OfSocket(k.queues[m], s), f \in OfSocket(k.queues[n], t) :
                             m = n /\ e = f
                      /\ k.fallback[s] # None =>
                           /\ \A m \in Modes : OfSocket(k.queues[m], t) = {}
                           /\ k.fallback[t] # None => s = t
  BY <1>6 DEF k, LobbyOK, OnePlace
<1>9. /\ \A m, n \in Modes :
           \A e \in OfSocket(l.queues[m], s), f \in OfSocket(l.queues[n], t) :
             m = n /\ e = f
      /\ l.fallback[s] # None =>
           /\ \A m \in Modes : OfSocket(l.queues[m], t) = {}
           /\ l.fallback[t] # None => s = t
      /\ l.fallback[t] # None => \A m \in Modes : OfSocket(l.queues[m], s) = {}
  BY <1>1, <1>8 DEF OnePlace
<1>10. \A m \in Modes : /\ OfSocket(k.queues[m], s) \subseteq OfSocket(l.queues[m], s)
                        /\ OfSocket(k.queues[m], t) \subseteq OfSocket(l.queues[m], t)
  BY <1>4 DEF OfSocket
<1>11. OfSocket(Overdue(l, mode), s) \subseteq OfSocket(l.queues[mode], s)
       /\ OfSocket(Overdue(l, mode), t) \subseteq OfSocket(l.queues[mode], t)
  BY <1>7 DEF OfSocket
<1>12. \A m, n \in Modes :
         \A e \in OfSocket(k.queues[m], s), f \in OfSocket(k.queues[n], t) : m = n /\ e = f
  BY <1>9, <1>10
<1>13. ASSUME k.fallback[s] # None, NEW m \in Modes PROVE OfSocket(k.queues[m], t) = {}
  <2>1. CASE OfSocket(Overdue(l, mode), s) = {}
    BY <2>1, <1>5, <1>9, <1>10, <1>13
  <2>2. ASSUME NEW e \in OfSocket(Overdue(l, mode), s), NEW f \in OfSocket(k.queues[m], t)
        PROVE  FALSE
    <3>1. m = mode /\ e = f
      BY <2>2, <1>9, <1>10, <1>11
    <3>2. f \in k.queues[mode] /\ e \in Overdue(l, mode)
      BY <3>1, <2>2 DEF OfSocket
    <3> QED BY <3>1, <3>2, <1>4
  <2> QED BY <2>1, <2>2
<1>14. ASSUME k.fallback[s] # None, k.fallback[t] # None PROVE s = t
  <2>1. CASE OfSocket(Overdue(l, mode), s) = {} /\ OfSocket(Overdue(l, mode), t) = {}
    BY <2>1, <1>5, <1>9, <1>14
  <2>2. CASE OfSocket(Overdue(l, mode), s) # {} /\ OfSocket(Overdue(l, mode), t) = {}
    BY <2>2, <1>5, <1>9, <1>11, <1>14
  <2>3. CASE OfSocket(Overdue(l, mode), s) = {} /\ OfSocket(Overdue(l, mode), t) # {}
    BY <2>3, <1>5, <1>9, <1>11, <1>14
  <2>4. ASSUME NEW e \in OfSocket(Overdue(l, mode), s), NEW f \in OfSocket(Overdue(l, mode), t)
        PROVE  s = t
    <3>1. e = f
      BY <2>4, <1>9, <1>11
    <3> QED BY <3>1, <2>4 DEF OfSocket
  <2> QED BY <2>1, <2>2, <2>3, <2>4
<1> QED BY <1>12, <1>13, <1>14

\* Joining gives up every place the player had, then takes one.
LEMMA JoinKeeps ==
  ASSUME now \in Nat, NEW l, LobbyOK(l), NEW u \in Sockets, NEW mode \in Modes
  PROVE  LobbyOK(Join(l, u, mode))
<1> DEFINE p == PlayerOf[u]
           bySocket == [m \in Modes |-> RemoveOne(l.queues[m], OfSocket(l.queues[m], u))]
           byToken == [m \in Modes |-> RemoveOne(bySocket[m], OfPlayer(bySocket[m], p))]
           k == Join(l, u, mode)
<1>1. l \in LobbyType /\ OnePlace(l)
  BY DEF LobbyOK
<1>2. /\ k = [queues |-> k.queues, fallback |-> k.fallback]
      /\ k.queues = [byToken EXCEPT ![mode] = @ \cup {Entry(u)}]
      /\ k.fallback = [t \in Sockets |-> IF PlayerOf[t] = p THEN None ELSE l.fallback[t]]
  BY DEF Join
<1>3. ASSUME NEW m \in Modes
      PROVE  /\ byToken[m] \subseteq l.queues[m]
             /\ \A e \in byToken[m] : PlayerOf[e.socket] # p
  <2>1. bySocket[m] \subseteq l.queues[m]
    BY RemoveOneFacts
  <2>2. byToken[m] = RemoveOne(bySocket[m], OfPlayer(bySocket[m], p))
    BY DEF byToken
  <2>3. \A e, f \in l.queues[m] : PlayerOf[e.socket] = p /\ PlayerOf[f.socket] = p => e = f
    <3>1. SUFFICES ASSUME NEW e \in l.queues[m], NEW f \in l.queues[m],
                          PlayerOf[e.socket] = p, PlayerOf[f.socket] = p
                   PROVE  e = f
      OBVIOUS
    <3>2. e.socket \in Sockets /\ f.socket \in Sockets
      BY <1>1 DEF LobbyType, EntryType
    <3>3. e \in OfSocket(l.queues[m], e.socket) /\ f \in OfSocket(l.queues[m], f.socket)
      BY DEF OfSocket
    <3>4. PlayerOf[e.socket] = PlayerOf[f.socket]
      BY <3>1
    <3> QED BY <1>1, <3>2, <3>3, <3>4 DEF OnePlace
  <2> HIDE DEF bySocket, byToken
  <2>4. \A e, f \in bySocket[m] \cap OfPlayer(bySocket[m], p) : e = f
    BY <2>1, <2>3 DEF OfPlayer
  <2>5. byToken[m] \subseteq bySocket[m]
    BY <2>2, RemoveOneFacts
  <2>6. ASSUME NEW e \in byToken[m], PlayerOf[e.socket] = p PROVE FALSE
    <3>1. e \in bySocket[m] \cap OfPlayer(bySocket[m], p)
      BY <2>5, <2>6 DEF OfPlayer
    <3>2. byToken[m] = bySocket[m] \ {e}
      BY <3>1, <2>2, <2>4, RemoveOneFacts
    <3> QED BY <3>2, <2>6
  <2> QED BY <2>1, <2>5, <2>6
<1>4. Entry(u) \in EntryType /\ Entry(u).socket = u
  BY DEF Entry, EntryType
<1>5. /\ k.queues[mode] = byToken[mode] \cup {Entry(u)}
      /\ \A m \in Modes \ {mode} : k.queues[m] = byToken[m]
  BY <1>2
<1>6. DOMAIN byToken = Modes
  OBVIOUS
<1> HIDE DEF k, byToken, bySocket
<1>7. k \in LobbyType
  <2>1. \A m \in Modes : byToken[m] \in SUBSET EntryType
    BY <1>1, <1>3 DEF LobbyType
  <2>2. byToken \in [Modes -> SUBSET EntryType]
    BY <2>1, <1>6 DEF byToken
  <2>3. k.queues \in [Modes -> SUBSET EntryType]
    BY <2>2, <1>2, <1>4
  <2>4. k.fallback \in [Sockets -> Modes \cup {None}]
    BY <1>1, <1>2 DEF LobbyType
  <2> QED BY <2>3, <2>4, <1>2 DEF LobbyType
<1>8. SUFFICES ASSUME NEW s \in Sockets, NEW t \in Sockets, PlayerOf[s] = PlayerOf[t]
               PROVE  /\ \A m, n \in Modes :
                           \A e \in OfSocket(k.queues[m], s), f \in OfSocket(k.queues[n], t) :
                             m = n /\ e = f
                      /\ k.fallback[s] # None =>
                           /\ \A m \in Modes : OfSocket(k.queues[m], t) = {}
                           /\ k.fallback[t] # None => s = t
  BY <1>7 DEF k, LobbyOK, OnePlace
<1>9. CASE PlayerOf[s] = p
  <2>1. \A m \in Modes : \A e \in k.queues[m] :
          PlayerOf[e.socket] = p => m = mode /\ e = Entry(u)
    BY <1>3, <1>5
  <2>2. k.fallback[s] = None
    BY <1>2, <1>9
  <2>3. \A m \in Modes :
          /\ \A e \in OfSocket(k.queues[m], s) : e \in k.queues[m] /\ PlayerOf[e.socket] = p
          /\ \A e \in OfSocket(k.queues[m], t) : e \in k.queues[m] /\ PlayerOf[e.socket] = p
    BY <1>8, <1>9 DEF OfSocket
  <2> QED BY <2>1, <2>2, <2>3
<1>10. CASE PlayerOf[s] # p
  <2>1. \A m \in Modes : \A e \in k.queues[m] : PlayerOf[e.socket] # p => e \in l.queues[m]
    BY <1>3, <1>4, <1>5
  <2>2. \A m \in Modes : /\ OfSocket(k.queues[m], s) \subseteq OfSocket(l.queues[m], s)
                         /\ OfSocket(k.queues[m], t) \subseteq OfSocket(l.queues[m], t)
    BY <2>1, <1>8, <1>10 DEF OfSocket
  <2>3. k.fallback[s] = l.fallback[s] /\ k.fallback[t] = l.fallback[t]
    BY <1>2, <1>8, <1>10
  <2>4. /\ \A m, n \in Modes :
             \A e \in OfSocket(l.queues[m], s), f \in OfSocket(l.queues[n], t) :
               m = n /\ e = f
        /\ l.fallback[s] # None =>
             /\ \A m \in Modes : OfSocket(l.queues[m], t) = {}
             /\ l.fallback[t] # None => s = t
    BY <1>1, <1>8 DEF OnePlace
  <2>5. \A m, n \in Modes :
          \A e \in OfSocket(k.queues[m], s), f \in OfSocket(k.queues[n], t) : m = n /\ e = f
    BY <2>2, <2>4
  <2>6. k.fallback[s] # None => \A m \in Modes : OfSocket(k.queues[m], t) = {}
    BY <2>2, <2>3, <2>4
  <2>7. k.fallback[s] # None /\ k.fallback[t] # None => s = t
    BY <2>3, <2>4
  <2> QED BY <2>5, <2>6, <2>7
<1> QED BY <1>9, <1>10

LEMMA LeaveQueueKeeps ==
  ASSUME NEW l, LobbyOK(l), NEW s
  PROVE  LobbyOK(LeaveQueue(l, s))
<1>1. CASE QueuedIn(l, s) = {}
  BY <1>1 DEF LeaveQueue
<1>2. CASE QueuedIn(l, s) # {}
  <2> DEFINE m == CHOOSE x \in QueuedIn(l, s) : TRUE
  <2>1. m \in Modes
    BY <1>2 DEF QueuedIn
  <2>2. LeaveQueue(l, s) = Expire(LeaveBySocketId(l, s), m)
    BY <1>2 DEF LeaveQueue
  <2>3. LobbyOK(LeaveBySocketId(l, s))
    BY LeaveKeeps
  <2> HIDE DEF m
  <2> QED BY <2>1, <2>2, <2>3, ExpireKeeps
<1> QED BY <1>1, <1>2

LEMMA CompleteKeeps ==
  ASSUME NEW l, LobbyOK(l), NEW pair
  PROVE  LobbyOK(CompleteMatchedPair(l, pair))
<1> DEFINE Out(k, s) == ClearFallback(LeaveBySocketId(k, s), s)
<1>1. ASSUME NEW k, LobbyOK(k), NEW s PROVE LobbyOK(Out(k, s))
  <2>1. LobbyOK(LeaveBySocketId(k, s))
    BY <1>1, LeaveKeeps
  <2> QED BY <2>1, LeaveKeeps
<1>2. CompleteMatchedPair(l, pair) = Out(Out(l, pair[1]), pair[2])
  BY DEF CompleteMatchedPair
<1> HIDE DEF Out
<1>3. LobbyOK(Out(l, pair[1]))
  BY <1>1
<1> QED BY <1>1, <1>2, <1>3

-----------------------------------------------------------------------------
(* One place for each player *)

LEMMA Initially == Init => IInv
<1> SUFFICES ASSUME Init PROVE IInv
  OBVIOUS
<1>1. lobby = [queues |-> [m \in Modes |-> {}], fallback |-> [s \in Sockets |-> None]]
  BY DEF Init
<1>2. lobby \in LobbyType
  BY <1>1 DEF LobbyType
<1>3. OnePlace(lobby)
  BY <1>1 DEF OnePlace, OfSocket
<1> QED BY <1>2, <1>3 DEF Init, IInv, LobbyOK

LEMMA StepKeeps == IInv /\ [Next]_vars => IInv'
<1> SUFFICES ASSUME IInv, [Next]_vars PROVE IInv'
  OBVIOUS
<1> USE DEF IInv
<1>1. ASSUME NEW s \in Sockets, NEW mode \in Modes, AskJoin(s, mode) PROVE IInv'
  BY <1>1, ExpireKeeps DEF AskJoin
<1>2. ASSUME NEW s \in Sockets, FinishJoin(s) PROVE IInv'
  <2>1. joining[s] \in Modes
    BY <1>2 DEF FinishJoin
  <2>2. LobbyOK(Join(lobby, s, joining[s]))
    BY <2>1, JoinKeeps
  <2>3. LobbyOK(Expire(Join(lobby, s, joining[s]), joining[s]))
    BY <2>1, <2>2, ExpireKeeps
  <2> QED BY <1>2, <2>1, <2>3 DEF FinishJoin, TryResolvePair
<1>3. ASSUME NEW s \in Sockets, ContinueQueue(s) PROVE IInv'
  <2> DEFINE mode == lobby.fallback[s]
             l == ClearFallback(lobby, s)
  <2>1. mode \in Modes
    BY <1>3 DEF ContinueQueue, LobbyOK, LobbyType
  <2>2. LobbyOK(l)
    BY LeaveKeeps
  <2>3. now' = now /\ joining' = joining /\ lobby' = Expire(Join(l, s, mode), mode)
    BY <1>3 DEF ContinueQueue, TryResolvePair
  <2> HIDE DEF l, mode
  <2>4. LobbyOK(Join(l, s, mode))
    BY <2>1, <2>2, JoinKeeps
  <2>5. LobbyOK(Expire(Join(l, s, mode), mode))
    BY <2>1, <2>4, ExpireKeeps
  <2> QED BY <2>3, <2>5
<1>4. ASSUME NEW s \in Sockets, FailJoin(s) \/ StartBotMatch(s) \/ DeclineFallback(s)
      PROVE  IInv'
  <2>1. LobbyOK(ClearFallback(lobby, s))
    BY LeaveKeeps
  <2> QED BY <1>4, <2>1 DEF FailJoin, StartBotMatch, DeclineFallback
<1>5. ASSUME NEW s \in Sockets, Leave(s) \/ TakeSeat(s) \/ Disconnect(s) PROVE IInv'
  <2>1. LobbyOK(LeaveQueue(lobby, s))
    BY LeaveQueueKeeps
  <2> QED BY <1>5, <2>1 DEF Leave, TakeSeat, Disconnect
<1>6. ASSUME NEW mode \in Modes, GetQueueState(mode) PROVE IInv'
  BY <1>6, ExpireKeeps DEF GetQueueState
<1>7. ASSUME NEW m \in Jobs, Created(m) \/ CreateFails(m) \/ Assign(m) \/ AssignFails(m)
      PROVE  IInv'
  <2>1. LobbyOK(CompleteMatchedPair(lobby, making[m].todo))
    BY CompleteKeeps
  <2> QED BY <1>7, <2>1 DEF Created, CreateFails, Assign, AssignFails
<1>8. CASE Tick
  BY <1>8 DEF Tick
<1>9. CASE UNCHANGED vars
  BY <1>9 DEF vars
<1> QED BY <1>1, <1>2, <1>3, <1>4, <1>5, <1>6, <1>7, <1>8, <1>9 DEF Next

\* A player is in the public queues and offers once at most: with any number of
\* windows, whichever joins, expiries, answers and pairings finish in between.
THEOREM OnePlaceHeld == Spec => []OnePlacePerPlayer
<1>1. IInv => OnePlacePerPlayer
  BY DEF IInv, LobbyOK, OnePlace, OnePlacePerPlayer
<1> QED BY <1>1, Initially, StepKeeps, PTL DEF Spec

-----------------------------------------------------------------------------
(* Matches being made, and who is at rest *)

MatchesMade ==
  {j \in [stage : {"creating", "assigning"}, kind : {"pair", "bot"}, mode : Modes,
          todo : Seq(Sockets)] :
     /\ Len(j.todo) \in 1..2
     /\ Len(j.todo) = 2 => j.todo[1] # j.todo[2]
     /\ j.stage = "creating" /\ j.kind = "pair" => Len(j.todo) = 2}

\* Neither queued nor offered anything.
Quiet(l, s) == (\A m \in Modes : OfSocket(l.queues[m], s) = {}) /\ l.fallback[s] = None

AtRest(s) == Quiet(lobby, s) /\ joining[s] = None /\ InHand(s) = {}

\* At most one entry.
Alone(queue) == \A e, f \in queue : e = f

\* Every entry is of a socket the job is to seat.
AllTaken(queue, todo) == \A e \in queue : \E i \in DOMAIN todo : todo[i] = e.socket

\* Whoever waits beside another is the business of every pairing of the queue.
Attended(mode) ==
  mode \in crossed \/
    /\ Creating(mode) = {} => Alone(lobby.queues[mode])
    /\ \A m \in Creating(mode) :
         Alone(lobby.queues[mode]) \/ AllTaken(lobby.queues[mode], making[m].todo)

PInv == /\ IInv
        /\ making \in [Jobs -> {Idle} \cup MatchesMade]
        /\ seated \subseteq Sockets
        /\ \A s \in seated \ late : AtRest(s)
        /\ \A mode \in Modes : Attended(mode)

-----------------------------------------------------------------------------
(* What leaves the lobby *)

\* From l to k nobody enters a queue and nobody quiet is offered anything.
Sheds(l, k) ==
  /\ \A m \in Modes : k.queues[m] \subseteq l.queues[m]
  /\ \A s \in Sockets : Quiet(l, s) => Quiet(k, s)

LEMMA ShedsTwice ==
  ASSUME NEW l, NEW k, NEW j, Sheds(l, k), Sheds(k, j)
  PROVE  Sheds(l, j)
BY DEF Sheds

LEMMA FewerSheds ==
  ASSUME NEW l, NEW k, \A m \in Modes : k.queues[m] \subseteq l.queues[m],
         \A s \in Sockets : k.fallback[s] \in {None, l.fallback[s]}
  PROVE  Sheds(l, k)
BY DEF Sheds, Quiet, OfSocket

LEMMA ClearSheds ==
  ASSUME NEW l \in LobbyType, NEW s
  PROVE  ClearFallback(l, s) \in LobbyType /\ Sheds(l, ClearFallback(l, s))
<1> DEFINE k == ClearFallback(l, s)
<1>1. k \in LobbyType
  BY DEF LobbyType, ClearFallback
<1>2. /\ \A m \in Modes : k.queues[m] \subseteq l.queues[m]
      /\ \A t \in Sockets : k.fallback[t] \in {None, l.fallback[t]}
  BY DEF LobbyType, ClearFallback
<1> HIDE DEF k
<1> QED BY <1>1, <1>2, FewerSheds DEF k

\* A socket that leaves was queued once, so it is in no queue afterwards.
LEMMA LeaveSheds ==
  ASSUME NEW l, LobbyOK(l), NEW s \in Sockets
  PROVE  LET k == LeaveBySocketId(l, s)
         IN  Sheds(l, k) /\ \A m \in Modes : OfSocket(k.queues[m], s) = {}
<1>1. l \in LobbyType /\ OnePlace(l) BY DEF LobbyOK
<1>2. CASE QueuedIn(l, s) = {}
  BY <1>2 DEF LeaveBySocketId, QueuedIn, Sheds
<1>3. CASE QueuedIn(l, s) # {}
  <2> DEFINE m == CHOOSE x \in QueuedIn(l, s) : TRUE
             k == [l EXCEPT !.queues[m] = RemoveOne(@, OfSocket(@, s))]
  <2>1. m \in Modes /\ OfSocket(l.queues[m], s) # {} BY <1>3 DEF QueuedIn
  <2>2. LeaveBySocketId(l, s) = k BY <1>3 DEF LeaveBySocketId
  <2> HIDE DEF m
  <2>3. /\ k.queues[m] = RemoveOne(l.queues[m], OfSocket(l.queues[m], s))
        /\ k.fallback = l.fallback
        /\ \A n \in Modes \ {m} : k.queues[n] = l.queues[n]
    BY <1>1, <2>1 DEF LobbyType
  <2> HIDE DEF k
  <2>4. \A n \in Modes : k.queues[n] \subseteq l.queues[n]
    BY <2>3, RemoveOneFacts
  <2>5. Sheds(l, k) BY <2>3, <2>4, FewerSheds
  <2>6. \A n \in Modes : \A e \in OfSocket(l.queues[m], s), f \in OfSocket(l.queues[n], s) :
          m = n /\ e = f
    BY <1>1, <2>1 DEF OnePlace
  <2>7. PICK e \in OfSocket(l.queues[m], s) : TRUE BY <2>1
  <2>8. k.queues[m] = l.queues[m] \ {e}
    <3>1. e \in l.queues[m] \cap OfSocket(l.queues[m], s) BY <2>7 DEF OfSocket
    <3>2. \A f \in l.queues[m] \cap OfSocket(l.queues[m], s) : f = e BY <2>1, <2>6, <2>7
    <3> QED BY <3>1, <3>2, <2>3, RemoveOneFacts
  <2>9. ASSUME NEW n \in Modes, NEW f \in OfSocket(k.queues[n], s) PROVE FALSE
    <3>1. f \in OfSocket(l.queues[n], s) BY <2>4, <2>9 DEF OfSocket
    <3>2. n = m /\ f = e BY <2>6, <2>7, <3>1
    <3> QED BY <2>8, <2>9, <3>2 DEF OfSocket
  <2> QED BY <2>2, <2>5, <2>9
<1> QED BY <1>2, <1>3

\* Only who was queued is offered a match when a queue expires.
LEMMA ExpireSheds ==
  ASSUME NEW l \in LobbyType, NEW mode \in Modes
  PROVE  Sheds(l, Expire(l, mode))
<1> DEFINE k == Expire(l, mode)
<1>1. /\ k.queues = [l.queues EXCEPT ![mode] = @ \ Overdue(l, mode)]
      /\ k.fallback = [s \in Sockets |-> IF OfSocket(Overdue(l, mode), s) # {} THEN mode
                                         ELSE l.fallback[s]]
  BY DEF Expire
<1> HIDE DEF k
<1>2. \A m \in Modes : k.queues[m] \subseteq l.queues[m]
  BY <1>1 DEF LobbyType
<1>3. ASSUME NEW s \in Sockets, Quiet(l, s) PROVE Quiet(k, s)
  <2>1. OfSocket(Overdue(l, mode), s) = {} BY <1>3 DEF Quiet, Overdue, OfSocket
  <2>2. k.fallback[s] = None BY <1>1, <1>3, <2>1 DEF Quiet
  <2> QED BY <1>2, <1>3, <2>2 DEF Quiet, OfSocket
<1> QED BY <1>2, <1>3 DEF Sheds, k

LEMMA LeaveQueueSheds ==
  ASSUME NEW l, LobbyOK(l), NEW s \in Sockets
  PROVE  LET k == LeaveQueue(l, s)
         IN  Sheds(l, k) /\ \A m \in Modes : OfSocket(k.queues[m], s) = {}
<1>1. CASE QueuedIn(l, s) = {}
  BY <1>1 DEF LeaveQueue, QueuedIn, Sheds
<1>2. CASE QueuedIn(l, s) # {}
  <2> DEFINE m == CHOOSE x \in QueuedIn(l, s) : TRUE
             j == LeaveBySocketId(l, s)
  <2>1. m \in Modes BY <1>2 DEF QueuedIn
  <2>2. LeaveQueue(l, s) = Expire(j, m) BY <1>2 DEF LeaveQueue
  <2>3. Sheds(l, j) /\ \A n \in Modes : OfSocket(j.queues[n], s) = {} BY LeaveSheds
  <2>4. j \in LobbyType BY LeaveKeeps DEF LobbyOK
  <2> HIDE DEF m, j
  <2>5. Sheds(j, Expire(j, m)) BY <2>1, <2>4, ExpireSheds
  <2>6. Sheds(l, Expire(j, m)) BY <2>3, <2>5, ShedsTwice
  <2>7. \A n \in Modes : OfSocket(Expire(j, m).queues[n], s) = {}
    BY <2>3, <2>5 DEF Sheds, OfSocket
  <2> QED BY <2>2, <2>6, <2>7
<1> QED BY <1>1, <1>2

\* A pair that is completed is in no queue any more.
LEMMA CompleteSheds ==
  ASSUME NEW l, LobbyOK(l), NEW pair, pair[1] \in Sockets, pair[2] \in Sockets
  PROVE  LET k == CompleteMatchedPair(l, pair)
         IN  /\ Sheds(l, k)
             /\ \A m \in Modes : OfSocket(k.queues[m], pair[1]) = {}
                                 /\ OfSocket(k.queues[m], pair[2]) = {}
<1> DEFINE Out(k, s) == ClearFallback(LeaveBySocketId(k, s), s)
           k1 == Out(l, pair[1])
           k2 == Out(k1, pair[2])
<1>1. ASSUME NEW k, LobbyOK(k), NEW s \in Sockets
      PROVE  /\ LobbyOK(Out(k, s)) /\ Sheds(k, Out(k, s))
             /\ \A m \in Modes : OfSocket(Out(k, s).queues[m], s) = {}
  <2> DEFINE j == LeaveBySocketId(k, s)
  <2>1. /\ LobbyOK(j) /\ Sheds(k, j)
        /\ \A m \in Modes : OfSocket(j.queues[m], s) = {}
    BY <1>1, LeaveKeeps, LeaveSheds
  <2>2. j \in LobbyType BY <2>1 DEF LobbyOK
  <2> HIDE DEF j
  <2>3. LobbyOK(ClearFallback(j, s)) /\ Sheds(j, ClearFallback(j, s))
    BY <2>1, <2>2, LeaveKeeps, ClearSheds
  <2>4. Sheds(k, ClearFallback(j, s)) BY <2>1, <2>3, ShedsTwice
  <2>5. \A m \in Modes : OfSocket(ClearFallback(j, s).queues[m], s) = {}
    BY <2>1, <2>3 DEF Sheds, OfSocket
  <2> QED BY <2>3, <2>4, <2>5 DEF j
<1>2. CompleteMatchedPair(l, pair) = k2 BY DEF CompleteMatchedPair
<1> HIDE DEF Out
<1>3. /\ LobbyOK(k1) /\ Sheds(l, k1)
      /\ \A m \in Modes : OfSocket(k1.queues[m], pair[1]) = {}
  BY <1>1
<1> HIDE DEF k1
<1>4. /\ LobbyOK(k2) /\ Sheds(k1, k2)
      /\ \A m \in Modes : OfSocket(k2.queues[m], pair[2]) = {}
  BY <1>1, <1>3
<1> HIDE DEF k2
<1>5. Sheds(l, k2) BY <1>3, <1>4, ShedsTwice
<1>6. \A m \in Modes : OfSocket(k2.queues[m], pair[1]) = {}
  BY <1>3, <1>4 DEF Sheds, OfSocket
<1> QED BY <1>2, <1>4, <1>5, <1>6

\* Joining adds one entry, to one queue, and offers nobody anything.
LEMMA JoinAdds ==
  ASSUME NEW l \in LobbyType, NEW u \in Sockets, NEW mode \in Modes
  PROVE  LET k == Join(l, u, mode)
         IN  /\ Entry(u).socket = u
             /\ k.queues[mode] \subseteq l.queues[mode] \cup {Entry(u)}
             /\ \A m \in Modes \ {mode} : k.queues[m] \subseteq l.queues[m]
             /\ \A s \in Sockets \ {u} : Quiet(l, s) => Quiet(k, s)
<1> DEFINE p == PlayerOf[u]
           bySocket == [m \in Modes |-> RemoveOne(l.queues[m], OfSocket(l.queues[m], u))]
           byToken == [m \in Modes |-> RemoveOne(bySocket[m], OfPlayer(bySocket[m], p))]
           k == Join(l, u, mode)
<1>1. /\ k.queues = [byToken EXCEPT ![mode] = @ \cup {Entry(u)}]
      /\ k.fallback = [t \in Sockets |-> IF PlayerOf[t] = p THEN None ELSE l.fallback[t]]
  BY DEF Join
<1>2. \A m \in Modes : byToken[m] \subseteq l.queues[m]
  BY RemoveOneFacts
<1>3. k.queues[mode] = byToken[mode] \cup {Entry(u)}
      /\ \A m \in Modes \ {mode} : k.queues[m] = byToken[m]
  BY <1>1
<1>4. Entry(u).socket = u BY DEF Entry
<1> HIDE DEF k, byToken, bySocket
<1>5. /\ k.queues[mode] \subseteq l.queues[mode] \cup {Entry(u)}
      /\ \A m \in Modes \ {mode} : k.queues[m] \subseteq l.queues[m]
  BY <1>2, <1>3
<1>6. ASSUME NEW s \in Sockets \ {u}, Quiet(l, s) PROVE Quiet(k, s)
  <2>1. k.fallback[s] = None BY <1>1, <1>6 DEF Quiet
  <2>2. \A m \in Modes : OfSocket(k.queues[m], s) = {}
    BY <1>4, <1>5, <1>6 DEF Quiet, OfSocket
  <2> QED BY <2>1, <2>2 DEF Quiet
<1> QED BY <1>4, <1>5, <1>6 DEF k

-----------------------------------------------------------------------------
(* findPair finds a pair wherever two are waiting *)

LEMMA LeastNatural ==
  ASSUME NEW S, S \subseteq Nat, S # {}
  PROVE  \E n \in S : \A m \in S : n <= m
<1> DEFINE R == OpToRel(<, Nat)
<1>1. IsWellFoundedOn(R, Nat) BY NatLessThanWellFounded
<1>2. \E n \in S : \A m \in S : <<m, n>> \notin R BY <1>1, WFMin
<1>3. \A n, m \in Nat : m < n => <<m, n>> \in R BY DEF OpToRel
<1> HIDE DEF R
<1>4. \A n, m \in S : ~(m < n) => n <= m OBVIOUS
<1> QED BY ONLY <1>2, <1>3, <1>4, S \subseteq Nat

LEMMA RatingIsNatural == \A e \in EntryType : e.joinedAt \in Nat /\ Rating(e) \in Nat
BY MatchmakingAssumption DEF EntryType, Rating

\* Of the entries of a queue, one has no earlier.
LEMMA EarliestEntry ==
  ASSUME NEW Q, Q \subseteq EntryType, Q # {}
  PROVE  \E e \in Q : \A f \in Q : ~Earlier(f, e)
<1> DEFINE Times == {e.joinedAt : e \in Q}
<1>1. Times \subseteq Nat /\ Times # {} BY RatingIsNatural
<1>2. PICK t \in Times : \A u \in Times : t <= u BY <1>1, LeastNatural
<1> DEFINE First == {e \in Q : e.joinedAt = t}
           Ratings == {Rating(e) : e \in First}
<1>3. Ratings \subseteq Nat /\ Ratings # {} BY <1>2, RatingIsNatural
<1>4. PICK r \in Ratings : \A q \in Ratings : r <= q BY <1>3, LeastNatural
<1>5. PICK e \in Q : e.joinedAt = t /\ Rating(e) = r BY <1>4
<1>6. \A f \in Q : t <= f.joinedAt BY <1>2
<1>7. \A f \in Q : f.joinedAt = t => r <= Rating(f) BY <1>4
<1>8. ASSUME NEW f \in Q PROVE ~Earlier(f, e)
  <2>1. /\ f.joinedAt \in Nat /\ Rating(f) \in Nat
        /\ e.joinedAt \in Nat /\ Rating(e) \in Nat
    BY RatingIsNatural
  <2>2. t <= f.joinedAt /\ (f.joinedAt = t => r <= Rating(f)) BY <1>6, <1>7
  <2> HIDE DEF Times, First, Ratings
  <2> QED BY ONLY <1>5, <2>1, <2>2 DEF Earlier
<1> QED BY <1>8

LEMMA TwoMakeAWindow ==
  ASSUME NEW Q, Q \subseteq EntryType, ~Alone(Q)
  PROVE  Windows(Q) # {}
<1>1. Q # {} BY DEF Alone
<1>2. PICK a \in Q : \A f \in Q : ~Earlier(f, a) BY <1>1, EarliestEntry
<1>3. Q \ {a} # {} /\ Q \ {a} \subseteq EntryType BY DEF Alone
<1>4. PICK b \in Q \ {a} : \A f \in Q \ {a} : ~Earlier(f, b) BY <1>3, EarliestEntry
<1>5. ~Earlier(a, a)
  BY <1>2
<1>6. ~\E e \in Q : Earlier(a, e) /\ Earlier(e, b) BY <1>4, <1>5
<1>7. <<a, b>> \in Windows(Q) BY <1>2, <1>4, <1>6 DEF Windows
<1> QED BY <1>7

\* findPair: whoever else waits, two different entries are enough for a pair,
\* and the pair is of two entries of the queue.
LEMMA PairFound ==
  ASSUME NEW Q, Q \subseteq EntryType
  PROVE  /\ ~Alone(Q) => FindPair(Q) # {}
         /\ \A w \in FindPair(Q) : w[1] \in Q /\ w[2] \in Q /\ w[1] # w[2]
<1>1. \A w \in Windows(Q) : w[1] \in Q /\ w[2] \in Q /\ w[1] # w[2] BY DEF Windows
<1>2. \A w \in FindPair(Q) : w[1] \in Q /\ w[2] \in Q /\ w[1] # w[2] BY <1>1 DEF FindPair
<1>3. ASSUME ~Alone(Q) PROVE FindPair(Q) # {}
  <2> DEFINE Spreads == {Spread(w) : w \in Windows(Q)}
  <2>1. \A w \in Windows(Q) : Spread(w) \in Nat
    <3>1. ASSUME NEW w \in Windows(Q) PROVE Spread(w) \in Nat
      <4>1. Rating(w[1]) \in Nat /\ Rating(w[2]) \in Nat BY <1>1, RatingIsNatural
      <4> QED BY <4>1 DEF Spread
    <3> QED BY <3>1
  <2>2. Spreads \subseteq Nat /\ Spreads # {} BY <1>3, <2>1, TwoMakeAWindow
  <2>3. PICK s \in Spreads : \A r \in Spreads : s <= r BY <2>2, LeastNatural
  <2> DEFINE Closest == {w \in Windows(Q) : Spread(w) = s}
             Firsts == {w[1] : w \in Closest}
  <2>4. Firsts \subseteq EntryType /\ Firsts # {} BY <1>1, <2>3
  <2>5. PICK e \in Firsts : \A f \in Firsts : ~Earlier(f, e) BY <2>4, EarliestEntry
  <2>6. PICK w \in Closest : w[1] = e BY <2>5
  <2>7. ASSUME NEW v \in Windows(Q)
        PROVE  Spread(w) <= Spread(v) /\ (Spread(w) = Spread(v) => ~Earlier(v[1], w[1]))
    <3>1. Spread(w) <= Spread(v) BY <2>3, <2>6
    <3>2. ASSUME Spread(w) = Spread(v) PROVE ~Earlier(v[1], w[1])
      <4>1. v \in Closest BY <2>6, <3>2
      <4> QED BY <2>5, <2>6, <4>1
    <3> QED BY <3>1, <3>2
  <2>8. w \in FindPair(Q) BY <2>6, <2>7 DEF FindPair
  <2> QED BY <2>8
<1> QED BY <1>2, <1>3

-----------------------------------------------------------------------------
(* Matches being made *)

LEMMA IdleIsIdle ==
  /\ Idle.stage = "idle" /\ DOMAIN Idle.todo = {} /\ Idle \notin MatchesMade
  /\ \A j \in {Idle} \cup MatchesMade : j.stage = "idle" => j = Idle
BY DEF Idle, MatchesMade

\* Seating goes on with what is left of the todo, or is over.
LEMMA OnwardFacts ==
  ASSUME NEW j \in MatchesMade, NEW todo \in Seq(Sockets), Len(todo) \in 0..2,
         Len(todo) = 2 => todo[1] # todo[2]
  PROVE  LET k == Onward(j, todo)
         IN  /\ k \in {Idle} \cup MatchesMade /\ k.stage # "creating"
             /\ \A i \in DOMAIN k.todo : \E n \in DOMAIN todo : k.todo[i] = todo[n]
<1> DEFINE found == Reached(j, todo)
           next == CHOOSE i \in found : \A n \in found : i <= n
           rest == SubSeq(todo, next, Len(todo))
           k == [j EXCEPT !.stage = "assigning", !.todo = rest]
<1>1. CASE found = {}
  <2>1. Onward(j, todo) = Idle BY <1>1 DEF Onward
  <2> QED BY <2>1, IdleIsIdle
<1>2. CASE found # {}
  <2>1. Onward(j, todo) = k BY <1>2 DEF Onward
  <2>2. found \subseteq 1..2 BY DEF Reached
  <2>3. next \in found
    <3>1. \E i \in found : \A n \in found : i <= n
      <4>1. CASE 1 \in found BY <2>2, <4>1
      <4>2. CASE 1 \notin found BY <1>2, <2>2, <4>2
      <4> QED BY <4>1, <4>2
    <3> QED BY <3>1
  <2>4. next \in 1..Len(todo) BY <2>3 DEF Reached
  <2> HIDE DEF next, found
  <2>5. /\ rest \in Seq(Sockets) /\ Len(rest) = Len(todo) - next + 1
        /\ \A i \in 1..Len(rest) : rest[i] = todo[next + i - 1]
    BY <2>4
  <2>6. Len(rest) \in 1..2 /\ (Len(rest) = 2 => rest[1] # rest[2])
    <3>1. Len(rest) = 2 => next = 1 /\ Len(todo) = 2 BY <2>4, <2>5
    <3>2. ASSUME Len(rest) = 2 PROVE rest[1] = todo[1] /\ rest[2] = todo[2]
      <4>1. 1 \in 1..Len(rest) /\ 2 \in 1..Len(rest) BY <3>2
      <4>2. rest[1] = todo[next + 1 - 1] /\ rest[2] = todo[next + 2 - 1] BY <2>5, <4>1
      <4> QED BY <3>1, <3>2, <4>2
    <3> QED BY <2>4, <2>5, <3>1, <3>2
  <2>7. \A i \in DOMAIN rest : \E n \in DOMAIN todo : rest[i] = todo[n]
    <3>1. ASSUME NEW i \in DOMAIN rest PROVE \E n \in DOMAIN todo : rest[i] = todo[n]
      <4>1. i \in 1..Len(rest) BY <2>5, <3>1
      <4>2. next + i - 1 \in DOMAIN todo BY <2>4, <2>5, <4>1
      <4> QED BY <2>5, <4>1, <4>2
    <3> QED BY <3>1
  <2> HIDE DEF rest
  <2>8. k.stage = "assigning" /\ k.todo = rest /\ k.kind = j.kind BY DEF MatchesMade
  <2>9. k \in MatchesMade BY <2>5, <2>6, <2>8 DEF MatchesMade
  <2> QED BY <2>1, <2>7, <2>8, <2>9
<1> QED BY <1>1, <1>2

-----------------------------------------------------------------------------
(* Who is at rest, and which queues are attended *)

\* The steps that only take from the queues and leave the pairings alone.
LEMMA OnlySheds ==
  ASSUME PInv, Sheds(lobby, lobby'), making' = making, crossed' = crossed
  PROVE  \A mode \in Modes : Attended(mode)'
<1>1. SUFFICES ASSUME NEW mode \in Modes, mode \notin crossed PROVE Attended(mode)'
  BY DEF Attended
<1>2. lobby'.queues[mode] \subseteq lobby.queues[mode] BY DEF Sheds
<1>3. Creating(mode)' = Creating(mode) BY DEF Creating
<1>4. Attended(mode) BY DEF PInv
<1> QED BY <1>1, <1>2, <1>3, <1>4 DEF Attended, Alone, AllTaken

LEMMA RestKept ==
  ASSUME PInv, Sheds(lobby, lobby'), NEW s \in Sockets, AtRest(s), joining'[s] = None,
         InHand(s)' = {}
  PROVE  AtRest(s)'
BY DEF Sheds, AtRest

LEMMA QueuedOnce ==
  ASSUME NEW l, OnePlace(l), NEW s \in Sockets, NEW mode \in Modes
  PROVE  \A e, f \in OfSocket(l.queues[mode], s) : e = f
BY DEF OnePlace

\* A pairing: someone joins a queue that has lost some of its entries, and a
\* pair of it may be found.
LEMMA PairStep ==
  ASSUME PInv, NEW l, LobbyOK(l), Sheds(lobby, l), NEW u \in Sockets, NEW mode \in Modes,
         u \notin seated \ late, TryResolvePair(Join(l, u, mode), mode),
         seated' = seated, late' = late,
         \A s \in Sockets \ {u} : joining'[s] = joining[s]
  PROVE  /\ making' \in [Jobs -> {Idle} \cup MatchesMade]
         /\ \A s \in seated \ late : AtRest(s)'
         /\ \A n \in Modes : Attended(n)'
<1> DEFINE j == Join(l, u, mode)
           k == Expire(j, mode)
           Q == k.queues[mode]
           Made(m, w) ==
             /\ m \in Jobs /\ making[m] = Idle
             /\ making' = [making EXCEPT ![m] =
                  [stage |-> "creating", kind |-> "pair", mode |-> mode,
                   todo |-> <<w[1].socket, w[2].socket>>]]
             /\ crossed' = IF Creating(mode) = {} THEN crossed ELSE crossed \cup {mode}
<1>1. now \in Nat BY DEF PInv, IInv
<1>2. LobbyOK(j) BY <1>1, JoinKeeps
<1>3. j \in LobbyType /\ l \in LobbyType BY <1>2 DEF LobbyOK
<1>4. LobbyOK(k) BY <1>2, ExpireKeeps
<1>5. lobby' = k BY DEF TryResolvePair
<1>6. \/ FindPair(Q) = {} /\ making' = making /\ crossed' = crossed
      \/ \E w \in FindPair(Q), m \in Jobs : Made(m, w)
  BY DEF TryResolvePair
<1>7. /\ Entry(u).socket = u
      /\ j.queues[mode] \subseteq l.queues[mode] \cup {Entry(u)}
      /\ \A m \in Modes \ {mode} : j.queues[m] \subseteq l.queues[m]
      /\ \A s \in Sockets \ {u} : Quiet(l, s) => Quiet(j, s)
  BY <1>3, JoinAdds
<1>8. Sheds(j, k) BY <1>3, ExpireSheds
<1> HIDE DEF j, k, Made
<1>9. /\ Q \subseteq lobby.queues[mode] \cup {Entry(u)}
      /\ \A m \in Modes \ {mode} : k.queues[m] \subseteq lobby.queues[m]
      /\ \A s \in Sockets \ {u} : Quiet(lobby, s) => Quiet(k, s)
  BY <1>7, <1>8 DEF Sheds
<1>10. Q \subseteq EntryType BY <1>4 DEF LobbyOK, LobbyType
<1> HIDE DEF Q
<1>11. ASSUME NEW w \in FindPair(Q)
       PROVE  /\ w[1] \in Q /\ w[2] \in Q /\ w[1] # w[2]
              /\ w[1].socket \in Sockets /\ w[2].socket \in Sockets
              /\ w[1].socket # w[2].socket
  <2>1. w[1] \in Q /\ w[2] \in Q /\ w[1] # w[2] BY <1>10, <1>11, PairFound
  <2>2. w[1].socket \in Sockets /\ w[2].socket \in Sockets BY <1>10, <2>1 DEF EntryType
  <2>3. ASSUME w[1].socket = w[2].socket PROVE FALSE
    <3>1. w[1] \in OfSocket(k.queues[mode], w[1].socket)
          /\ w[2] \in OfSocket(k.queues[mode], w[1].socket)
      BY <2>1, <2>3 DEF OfSocket, Q
    <3>2. \A e, f \in OfSocket(k.queues[mode], w[1].socket) : e = f
      BY <1>4, <2>2, QueuedOnce DEF LobbyOK
    <3> QED BY <2>1, <3>1, <3>2
  <2> QED BY <2>1, <2>2, <2>3
<1>12. making \in [Jobs -> {Idle} \cup MatchesMade] BY DEF PInv
<1>13. ASSUME NEW w \in FindPair(Q), NEW m \in Jobs, Made(m, w)
       PROVE  /\ making' \in [Jobs -> {Idle} \cup MatchesMade]
              /\ making'[m].todo = <<w[1].socket, w[2].socket>>
              /\ \A n \in Jobs \ {m} : making'[n] = making[n]
              /\ \A n \in Modes \ {mode} : Creating(n)' = Creating(n)
              /\ Creating(mode)' = Creating(mode) \cup {m}
  <2> DEFINE new == [stage |-> "creating", kind |-> "pair", mode |-> mode,
                     todo |-> <<w[1].socket, w[2].socket>>]
  <2>1. new \in MatchesMade
    <3>1. /\ new.todo \in Seq(Sockets) /\ Len(new.todo) = 2
          /\ new.todo[1] # new.todo[2]
      BY <1>11
    <3> QED BY <3>1 DEF MatchesMade
  <2>2. making' = [making EXCEPT ![m] = new] BY <1>13 DEF Made
  <2>3. new.stage = "creating" /\ new.kind = "pair" /\ new.mode = mode
        /\ new.todo = <<w[1].socket, w[2].socket>>
    OBVIOUS
  <2> HIDE DEF new
  <2>4. making' \in [Jobs -> {Idle} \cup MatchesMade] BY <1>12, <2>1, <2>2
  <2>5. making'[m] = new /\ \A n \in Jobs \ {m} : making'[n] = making[n] BY <1>12, <2>2
  <2>6. making[m].stage # "creating" BY <1>13, IdleIsIdle DEF Made
  <2>7. \A n \in Modes \ {mode} : Creating(n)' = Creating(n)
    BY <2>3, <2>5, <2>6 DEF Creating
  <2>8. Creating(mode)' = Creating(mode) \cup {m} BY <2>3, <2>5 DEF Creating
  <2> QED BY <2>3, <2>4, <2>5, <2>7, <2>8
<1>14. making' \in [Jobs -> {Idle} \cup MatchesMade] BY <1>6, <1>12, <1>13
<1>15. ASSUME NEW s \in seated \ late PROVE AtRest(s)'
  <2>1. s \in Sockets \ {u} /\ AtRest(s) BY <1>15 DEF PInv
  <2>2. Quiet(k, s) BY <1>9, <2>1 DEF AtRest
  <2>3. joining'[s] = None BY <2>1 DEF AtRest
  <2>4. InHand(s) = {} BY <2>1 DEF AtRest
  <2>5. ASSUME NEW w \in FindPair(Q), NEW m \in Jobs, Made(m, w) PROVE InHand(s)' = {}
    <3>1. w[1].socket # s /\ w[2].socket # s
      BY <1>11, <2>2 DEF Quiet, OfSocket, Q
    <3>2. ASSUME NEW n \in Jobs, NEW i \in DOMAIN making'[n].todo, making'[n].todo[i] = s
          PROVE  FALSE
      <4>1. CASE n = m BY <1>13, <2>5, <3>1, <3>2, <4>1
      <4>2. CASE n # m BY <1>13, <2>4, <2>5, <3>2, <4>2 DEF InHand
      <4> QED BY <4>1, <4>2
    <3> QED BY <3>2 DEF InHand
  <2>6. InHand(s)' = {} BY <1>6, <2>4, <2>5 DEF InHand
  <2> QED BY <1>5, <2>2, <2>3, <2>6 DEF AtRest
<1>16. ASSUME NEW n \in Modes \ {mode} PROVE Attended(n)'
  <2>1. Attended(n) BY DEF PInv
  <2>2. lobby'.queues[n] \subseteq lobby.queues[n] BY <1>5, <1>9
  <2>3. Creating(n)' = Creating(n) BY <1>6, <1>13 DEF Creating
  <2>4. n \in crossed => n \in crossed' BY <1>6 DEF Made
  <2>5. \A m \in Creating(n) : making'[m] = making[m]
    <3>1. ASSUME NEW w \in FindPair(Q), NEW b \in Jobs, Made(b, w), NEW m \in Creating(n)
          PROVE  making'[m] = making[m]
      <4>1. making[b].stage # "creating" BY <3>1, IdleIsIdle DEF Made
      <4>2. m \in Jobs /\ m # b BY <4>1 DEF Creating
      <4> QED BY <1>13, <3>1, <4>2
    <3> QED BY <1>6, <3>1
  <2> QED BY <2>1, <2>2, <2>3, <2>4, <2>5 DEF Attended, Alone, AllTaken
<1>17. Attended(mode)'
  <2>1. CASE FindPair(Q) = {}
    <3>1. Alone(Q) BY <1>10, <2>1, PairFound
    <3>2. Alone(lobby'.queues[mode]) BY <1>5, <3>1 DEF Q
    <3> QED BY <3>2 DEF Attended
  <2>2. ASSUME NEW w \in FindPair(Q), NEW m \in Jobs, Made(m, w) PROVE Attended(mode)'
    <3>1. CASE mode \in crossed BY <2>2, <3>1 DEF Made, Attended
    <3>2. CASE Creating(mode) # {} BY <2>2, <3>2 DEF Made, Attended
    <3>3. CASE mode \notin crossed /\ Creating(mode) = {}
      <4>1. Alone(lobby.queues[mode]) BY <3>3 DEF PInv, Attended
      <4>2. \A e \in Q : e = w[1] \/ e = w[2] BY <1>9, <1>11, <4>1 DEF Alone
      <4>3. making'[m].todo = <<w[1].socket, w[2].socket>> BY <1>13, <2>2
      <4>4. AllTaken(Q, making'[m].todo) BY <4>2, <4>3 DEF AllTaken
      <4>5. Creating(mode)' = {m} BY <1>13, <2>2, <3>3
      <4>6. AllTaken(lobby'.queues[mode], making'[m].todo) BY <1>5, <4>4 DEF Q
      <4> QED BY <4>5, <4>6 DEF Attended
    <3> QED BY <3>1, <3>2, <3>3
  <2> QED BY <1>6, <2>1, <2>2
<1> QED BY <1>14, <1>15, <1>16, <1>17

PairsOK == /\ making' \in [Jobs -> {Idle} \cup MatchesMade]
           /\ seated' \subseteq Sockets
           /\ \A s \in seated' \ late' : AtRest(s)'
           /\ \A mode \in Modes : Attended(mode)'

\* Joining, by the handler of join-queue or of continue-queue.
LEMMA JoinStep ==
  ASSUME PInv, NEW s \in Sockets, FinishJoin(s) \/ ContinueQueue(s)
  PROVE  PairsOK
<1>1. s \notin seated \ late
  BY DEF PInv, AtRest, Quiet, FinishJoin, ContinueQueue
<1>2. LobbyOK(lobby) /\ lobby \in LobbyType /\ joining \in [Sockets -> Modes \cup {None}]
  BY DEF PInv, IInv, LobbyOK
<1>3. CASE FinishJoin(s)
  <2> DEFINE mode == joining[s]
  <2>1. mode \in Modes BY <1>2, <1>3 DEF FinishJoin
  <2>2. TryResolvePair(Join(lobby, s, mode), mode) /\ seated' = seated /\ late' = late
    BY <1>3 DEF FinishJoin
  <2>3. \A t \in Sockets \ {s} : joining'[t] = joining[t] BY <1>2, <1>3 DEF FinishJoin
  <2>4. Sheds(lobby, lobby) BY DEF Sheds
  <2> HIDE DEF mode
  <2>5. /\ making' \in [Jobs -> {Idle} \cup MatchesMade]
        /\ \A t \in seated \ late : AtRest(t)'
        /\ \A n \in Modes : Attended(n)'
    BY <1>1, <1>2, <2>1, <2>2, <2>3, <2>4, PairStep
  <2> QED BY <2>2, <2>5 DEF PairsOK, PInv
<1>4. CASE ContinueQueue(s)
  <2> DEFINE mode == lobby.fallback[s]
             l == ClearFallback(lobby, s)
  <2>1. mode \in Modes BY <1>2, <1>4 DEF ContinueQueue, LobbyType
  <2>2. TryResolvePair(Join(l, s, mode), mode) /\ UNCHANGED <<joining, seated, late>>
    BY <1>4 DEF ContinueQueue
  <2>3. LobbyOK(l) /\ Sheds(lobby, l) BY <1>2, LeaveKeeps, ClearSheds
  <2> HIDE DEF l, mode
  <2>4. /\ making' \in [Jobs -> {Idle} \cup MatchesMade]
        /\ \A t \in seated \ late : AtRest(t)'
        /\ \A n \in Modes : Attended(n)'
    BY <1>1, <2>1, <2>2, <2>3, PairStep
  <2> QED BY <2>2, <2>4 DEF PairsOK, PInv
<1> QED BY <1>3, <1>4

\* Steps of the lobby alone, in which one socket may sit down or stand up.
LEMMA LobbyStep ==
  ASSUME PInv, NEW s \in Sockets, Sheds(lobby, lobby'), making' = making,
         crossed' = crossed, seated' \subseteq seated \cup {s}, late \subseteq late' \cup {s},
         \A t \in Sockets \ {s} : joining'[t] \in {None, joining[t]},
         s \in seated' \ late' => AtRest(s)'
  PROVE  PairsOK
<1>1. \A mode \in Modes : Attended(mode)' BY OnlySheds
<1>2. ASSUME NEW t \in seated' \ late' PROVE AtRest(t)'
  <2>1. CASE t = s BY <1>2, <2>1
  <2>2. CASE t # s
    <3>1. t \in seated \ late /\ t \in Sockets BY <1>2, <2>2 DEF PInv
    <3>2. AtRest(t) BY <3>1 DEF PInv
    <3>3. joining'[t] = None BY <2>2, <3>1, <3>2 DEF AtRest
    <3>4. InHand(t)' = {} BY <3>2 DEF AtRest, InHand
    <3> QED BY <3>1, <3>2, <3>3, <3>4, RestKept
  <2> QED BY <2>1, <2>2
<1> QED BY <1>1, <1>2 DEF PairsOK, PInv

LEMMA AskStep ==
  ASSUME PInv, NEW s \in Sockets, NEW mode \in Modes, AskJoin(s, mode)
  PROVE  PairsOK
<1>1. lobby \in LobbyType BY DEF PInv, IInv, LobbyOK
<1>2. Sheds(lobby, lobby') BY <1>1, ExpireSheds DEF AskJoin
<1>3. \A t \in Sockets \ {s} : joining'[t] \in {None, joining[t]}
  BY DEF PInv, IInv, AskJoin
<1>4. /\ making' = making /\ crossed' = crossed /\ s \notin seated'
      /\ seated' \subseteq seated \cup {s} /\ late \subseteq late' \cup {s}
  BY DEF AskJoin
<1> QED BY <1>2, <1>3, <1>4, LobbyStep

\* The steps that end a join, an offer or a wait, and the one that passes time.
LEMMA GiveUpStep ==
  ASSUME PInv, NEW s \in Sockets, FailJoin(s) \/ DeclineFallback(s) \/ Leave(s) \/ Disconnect(s)
  PROVE  PairsOK
<1>1. LobbyOK(lobby) /\ lobby \in LobbyType BY DEF PInv, IInv, LobbyOK
<1>2. Sheds(lobby, lobby) BY DEF Sheds
<1>3. Sheds(lobby, lobby')
  BY <1>1, <1>2, ClearSheds, LeaveQueueSheds DEF FailJoin, DeclineFallback, Leave, Disconnect
<1>4. \A t \in Sockets : joining'[t] \in {None, joining[t]}
  BY DEF PInv, IInv, FailJoin, DeclineFallback, Leave, Disconnect
<1>5. /\ making' = making /\ crossed' = crossed
      /\ seated' \subseteq seated /\ late \subseteq late' \cup {s}
      /\ s \in seated' => late' = late
  BY DEF FailJoin, DeclineFallback, Leave, Disconnect
<1>6. ASSUME s \in seated' \ late' PROVE AtRest(s)'
  <2>1. s \in seated \ late BY <1>5, <1>6
  <2>2. AtRest(s) BY <2>1 DEF PInv
  <2>3. joining'[s] = None BY <1>4, <2>2 DEF AtRest
  <2>4. InHand(s)' = {} BY <1>5, <2>2 DEF AtRest, InHand
  <2> QED BY <1>3, <2>2, <2>3, <2>4, RestKept
<1> QED BY <1>3, <1>4, <1>5, <1>6, LobbyStep

\* create-match and join-match take the socket out of its queue; what they do
\* not look at makes the socket late.
LEMMA TakeSeatStep ==
  ASSUME PInv, NEW s \in Sockets, TakeSeat(s)
  PROVE  PairsOK
<1>1. LobbyOK(lobby) BY DEF PInv, IInv
<1>2. lobby' = LeaveQueue(lobby, s) BY DEF TakeSeat
<1>3. Sheds(lobby, lobby') /\ \A m \in Modes : OfSocket(lobby'.queues[m], s) = {}
  BY <1>1, <1>2, LeaveQueueSheds
<1>4. /\ making' = making /\ crossed' = crossed /\ joining' = joining
      /\ seated' \subseteq seated \cup {s} /\ late \subseteq late' \cup {s}
  BY DEF TakeSeat
<1>5. ASSUME s \in seated' \ late' PROVE AtRest(s)'
  <2>1. joining[s] = None /\ lobby.fallback[s] = None /\ InHand(s) = {}
    BY <1>5 DEF TakeSeat
  <2>2. lobby'.fallback[s] = None
    <3>1. CASE QueuedIn(lobby, s) = {}
      <4>1. Quiet(lobby, s) BY <2>1, <3>1 DEF Quiet, QueuedIn
      <4> QED BY <1>3, <4>1 DEF Sheds, Quiet
    <3>2. CASE QueuedIn(lobby, s) # {}
      <4> DEFINE m == CHOOSE x \in QueuedIn(lobby, s) : TRUE
                 j == LeaveBySocketId(lobby, s)
      <4>1. m \in Modes BY <3>2 DEF QueuedIn
      <4>2. LeaveQueue(lobby, s) = Expire(j, m) BY <3>2 DEF LeaveQueue
      <4>3. j.fallback = lobby.fallback
        BY DEF LeaveBySocketId
      <4>4. \A n \in Modes : OfSocket(j.queues[n], s) = {} BY <1>1, LeaveSheds
      <4>5. LobbyOK(j) BY <1>1, LeaveKeeps
      <4> HIDE DEF m, j
      <4>6. Sheds(j, Expire(j, m)) BY <4>1, <4>5, ExpireSheds DEF LobbyOK
      <4>7. Quiet(j, s) BY <2>1, <4>3, <4>4 DEF Quiet
      <4> QED BY <1>2, <4>2, <4>6, <4>7 DEF Sheds, Quiet
    <3> QED BY <3>1, <3>2
  <2>3. InHand(s)' = {} BY <1>4, <2>1 DEF InHand
  <2> QED BY <1>3, <1>4, <2>1, <2>2, <2>3 DEF AtRest, Quiet
<1> QED BY <1>3, <1>4, <1>5, LobbyStep

\* start-bot-match takes an offer into its hands.
LEMMA BotStep ==
  ASSUME PInv, NEW s \in Sockets, StartBotMatch(s)
  PROVE  PairsOK
<1>1. /\ LobbyOK(lobby) /\ lobby \in LobbyType
      /\ making \in [Jobs -> {Idle} \cup MatchesMade]
  BY DEF PInv, IInv, LobbyOK
<1>2. Sheds(lobby, lobby') BY <1>1, ClearSheds DEF StartBotMatch
<1>3. /\ crossed' = crossed /\ joining' = joining /\ seated' = seated /\ late' = late
      /\ lobby.fallback[s] \in Modes
  BY <1>1 DEF StartBotMatch, LobbyType
<1> DEFINE new == [stage |-> "creating", kind |-> "bot", mode |-> lobby.fallback[s],
                   todo |-> <<s>>]
<1>4. PICK m \in Jobs : making[m] = Idle /\ making' = [making EXCEPT ![m] = new]
  BY DEF StartBotMatch
<1>5. new \in MatchesMade /\ new.kind = "bot" /\ \A i \in DOMAIN new.todo : new.todo[i] = s
  <2>1. new.todo \in Seq(Sockets) /\ Len(new.todo) = 1 OBVIOUS
  <2> QED BY <1>3, <2>1 DEF MatchesMade
<1> HIDE DEF new
<1>6. making' \in [Jobs -> {Idle} \cup MatchesMade] BY <1>1, <1>4, <1>5
<1>7. making'[m] = new /\ \A n \in Jobs \ {m} : making'[n] = making[n] BY <1>1, <1>4
<1>8. making[m].stage # "creating" BY <1>4, IdleIsIdle
<1>9. \A mode \in Modes : Creating(mode)' = Creating(mode)
  BY <1>5, <1>7, <1>8 DEF Creating
<1>10. ASSUME NEW mode \in Modes PROVE Attended(mode)'
  <2>1. Attended(mode) BY DEF PInv
  <2>2. lobby'.queues[mode] \subseteq lobby.queues[mode] BY <1>2 DEF Sheds
  <2>3. \A n \in Creating(mode) : making'[n] = making[n]
    BY <1>7, <1>8 DEF Creating
  <2> QED BY <1>3, <1>9, <2>1, <2>2, <2>3 DEF Attended, Alone, AllTaken
<1>11. ASSUME NEW t \in seated' \ late' PROVE AtRest(t)'
  <2>1. t \in Sockets /\ AtRest(t) BY <1>3, <1>11 DEF PInv
  <2>2. t # s BY <1>3, <2>1, MatchmakingAssumption DEF AtRest, Quiet
  <2>3. InHand(t)' = {}
    <3>1. ASSUME NEW n \in Jobs, NEW i \in DOMAIN making'[n].todo, making'[n].todo[i] = t
          PROVE  FALSE
      <4>1. CASE n = m BY <1>5, <1>7, <2>2, <3>1, <4>1
      <4>2. CASE n # m BY <1>7, <2>1, <3>1, <4>2 DEF AtRest, InHand
      <4> QED BY <4>1, <4>2
    <3> QED BY <3>1 DEF InHand
  <2> QED BY <1>2, <1>3, <2>1, <2>3, RestKept DEF AtRest
<1> QED BY <1>3, <1>6, <1>10, <1>11 DEF PairsOK, PInv

\* A match being made goes on or ends: it takes nobody new in hand, and whom
\* its queue still holds is alone there, or the queue has been crossed.
LEMMA MakingStep ==
  ASSUME PInv, NEW m \in Jobs, NEW k \in {Idle} \cup MatchesMade, k.stage # "creating",
         making' = [making EXCEPT ![m] = k], joining' = joining, Sheds(lobby, lobby'),
         \A i \in DOMAIN k.todo : \E n \in DOMAIN making[m].todo : k.todo[i] = making[m].todo[n],
         crossed \subseteq crossed',
         \A n \in Modes \ crossed' : m \in Creating(n) => Alone(lobby'.queues[n])
  PROVE  /\ making' \in [Jobs -> {Idle} \cup MatchesMade]
         /\ \A t \in seated \ late : AtRest(t)'
         /\ \A n \in Modes : Attended(n)'
<1>1. making \in [Jobs -> {Idle} \cup MatchesMade] BY DEF PInv
<1>2. making'[m] = k /\ \A n \in Jobs \ {m} : making'[n] = making[n] BY <1>1
<1>3. \A t : InHand(t)' \subseteq InHand(t) BY <1>2 DEF InHand
<1>4. \A n \in Modes : Creating(n)' = Creating(n) \ {m} BY <1>2 DEF Creating
<1>5. ASSUME NEW t \in seated \ late PROVE AtRest(t)'
  <2>1. t \in Sockets /\ AtRest(t) BY <1>5 DEF PInv
  <2>2. InHand(t)' = {} BY <1>3, <2>1 DEF AtRest
  <2> QED BY <2>1, <2>2, RestKept DEF AtRest
<1>6. ASSUME NEW n \in Modes PROVE Attended(n)'
  <2>1. CASE n \in crossed' BY <2>1 DEF Attended
  <2>2. CASE n \notin crossed' /\ m \in Creating(n) BY <2>2 DEF Attended
  <2>3. CASE n \notin crossed' /\ m \notin Creating(n)
    <3>1. n \notin crossed /\ Attended(n) BY <2>3 DEF PInv
    <3>2. lobby'.queues[n] \subseteq lobby.queues[n] BY DEF Sheds
    <3>3. Creating(n)' = Creating(n) BY <1>4, <2>3
    <3>4. \A b \in Creating(n) : making'[b] = making[b] BY <1>2, <2>3 DEF Creating
    <3> QED BY <3>1, <3>2, <3>3, <3>4 DEF Attended, Alone, AllTaken
  <2> QED BY <2>1, <2>2, <2>3
<1> QED BY <1>1, <1>5, <1>6

LEMMA CreatedStep ==
  ASSUME PInv, NEW m \in Jobs, Created(m)
  PROVE  PairsOK
<1> DEFINE j == making[m]
           k == Onward(j, j.todo)
<1>1. LobbyOK(lobby) BY DEF PInv, IInv
<1>2. j.stage = "creating" /\ j \in MatchesMade BY IdleIsIdle DEF PInv, Created
<1>3. /\ j.todo \in Seq(Sockets) /\ Len(j.todo) \in 1..2
      /\ Len(j.todo) = 2 => j.todo[1] # j.todo[2]
      /\ j.kind = "pair" => Len(j.todo) = 2
  BY <1>2 DEF MatchesMade
<1>4. /\ making' = [making EXCEPT ![m] = k] /\ joining' = joining
      /\ seated' = seated /\ late' = late /\ crossed' = crossed
      /\ lobby' = IF j.kind = "pair" THEN CompleteMatchedPair(lobby, j.todo) ELSE lobby
  BY DEF Created
<1> HIDE DEF j
<1>5. Len(j.todo) \in 0..2 BY <1>3
<1>6. /\ k \in {Idle} \cup MatchesMade /\ k.stage # "creating"
      /\ \A i \in DOMAIN k.todo : \E n \in DOMAIN j.todo : k.todo[i] = j.todo[n]
  BY <1>2, <1>3, <1>5, OnwardFacts
<1> HIDE DEF k
<1>7. CASE j.kind = "pair"
  <2>1. DOMAIN j.todo = 1..2 /\ j.todo[1] \in Sockets /\ j.todo[2] \in Sockets
    BY <1>3, <1>7
  <2>2. /\ Sheds(lobby, lobby')
        /\ \A n \in Modes : OfSocket(lobby'.queues[n], j.todo[1]) = {}
                            /\ OfSocket(lobby'.queues[n], j.todo[2]) = {}
    BY <1>1, <1>4, <1>7, <2>1, CompleteSheds
  <2>3. ASSUME NEW n \in Modes \ crossed, m \in Creating(n) PROVE Alone(lobby'.queues[n])
    <3>1. Alone(lobby.queues[n]) \/ AllTaken(lobby.queues[n], j.todo)
      BY <2>3 DEF PInv, Attended, j
    <3>2. lobby'.queues[n] \subseteq lobby.queues[n] BY <2>2 DEF Sheds
    <3>3. CASE Alone(lobby.queues[n]) BY <3>2, <3>3 DEF Alone
    <3>4. CASE AllTaken(lobby.queues[n], j.todo)
      <4>1. ASSUME NEW e \in lobby'.queues[n] PROVE FALSE
        <5>1. PICK i \in DOMAIN j.todo : j.todo[i] = e.socket BY <3>2, <3>4, <4>1 DEF AllTaken
        <5>2. i = 1 \/ i = 2 BY <2>1, <5>1
        <5>3. e \in OfSocket(lobby'.queues[n], j.todo[i]) BY <4>1, <5>1 DEF OfSocket
        <5> QED BY <2>2, <5>2, <5>3
      <4> QED BY <4>1 DEF Alone
    <3> QED BY <3>1, <3>3, <3>4
  <2>4. /\ making' \in [Jobs -> {Idle} \cup MatchesMade]
        /\ \A t \in seated \ late : AtRest(t)'
        /\ \A n \in Modes : Attended(n)'
    BY <1>4, <1>6, <2>2, <2>3, MakingStep DEF j
  <2> QED BY <1>4, <2>4 DEF PairsOK, PInv
<1>8. CASE j.kind # "pair"
  <2>1. lobby' = lobby /\ Sheds(lobby, lobby') BY <1>4, <1>8 DEF Sheds
  <2>2. \A n \in Modes : m \notin Creating(n) BY <1>8 DEF Creating, j
  <2>3. /\ making' \in [Jobs -> {Idle} \cup MatchesMade]
        /\ \A t \in seated \ late : AtRest(t)'
        /\ \A n \in Modes : Attended(n)'
    BY <1>4, <1>6, <2>1, <2>2, MakingStep DEF j
  <2> QED BY <1>4, <2>3 DEF PairsOK, PInv
<1> QED BY <1>7, <1>8

LEMMA CreateFailsStep ==
  ASSUME PInv, NEW m \in Jobs, CreateFails(m)
  PROVE  PairsOK
<1>1. Idle.stage # "creating" /\ DOMAIN Idle.todo = {} BY IdleIsIdle
<1>2. /\ making' = [making EXCEPT ![m] = Idle] /\ joining' = joining
      /\ seated' = seated /\ late' = late /\ lobby' = lobby
      /\ crossed' = IF making[m].kind = "pair" THEN crossed \cup {making[m].mode}
                    ELSE crossed
  BY DEF CreateFails
<1>3. Sheds(lobby, lobby') BY <1>2 DEF Sheds
<1>4. \A n \in Modes \ crossed' : m \notin Creating(n) BY <1>2 DEF Creating
<1>5. /\ making' \in [Jobs -> {Idle} \cup MatchesMade]
      /\ \A t \in seated \ late : AtRest(t)'
      /\ \A n \in Modes : Attended(n)'
  BY <1>1, <1>2, <1>3, <1>4, MakingStep
<1> QED BY <1>2, <1>5 DEF PairsOK, PInv

LEMMA AssignFailsStep ==
  ASSUME PInv, NEW m \in Jobs, AssignFails(m)
  PROVE  PairsOK
<1>1. Idle.stage # "creating" /\ DOMAIN Idle.todo = {} BY IdleIsIdle
<1>2. /\ making' = [making EXCEPT ![m] = Idle] /\ joining' = joining /\ crossed' = crossed
      /\ seated' = seated /\ late' = late /\ lobby' = lobby
  BY DEF AssignFails
<1>3. Sheds(lobby, lobby') BY <1>2 DEF Sheds
<1>4. \A n \in Modes : m \notin Creating(n) BY DEF AssignFails, Creating
<1>5. /\ making' \in [Jobs -> {Idle} \cup MatchesMade]
      /\ \A t \in seated \ late : AtRest(t)'
      /\ \A n \in Modes : Attended(n)'
  BY <1>1, <1>2, <1>3, <1>4, MakingStep
<1> QED BY <1>2, <1>5 DEF PairsOK, PInv

LEMMA TodoTail ==
  ASSUME NEW todo \in Seq(Sockets), Len(todo) \in 1..2
  PROVE  LET rest == Tail(todo)
         IN  /\ rest \in Seq(Sockets) /\ Len(rest) = Len(todo) - 1
             /\ \A i \in DOMAIN rest : i = 1 /\ Len(todo) = 2 /\ rest[i] = todo[2]
<1>1. todo # <<>> OBVIOUS
<1>2. /\ Tail(todo) \in Seq(Sockets) /\ Len(Tail(todo)) = Len(todo) - 1
      /\ \A i \in 1..Len(Tail(todo)) : Tail(todo)[i] = todo[i + 1]
  BY <1>1, HeadTailProperties
<1>3. DOMAIN Tail(todo) = 1..Len(Tail(todo)) BY <1>2
<1>4. \A i \in DOMAIN Tail(todo) : i = 1 /\ Len(todo) = 2 /\ Tail(todo)[i] = todo[2]
  <2>1. ASSUME NEW i \in 1..Len(Tail(todo))
        PROVE  i = 1 /\ Len(todo) = 2 /\ Tail(todo)[i] = todo[2]
    <3>1. i = 1 /\ Len(todo) = 2 BY <1>2
    <3> QED BY <1>2, <3>1
  <2> QED BY <1>3, <2>1
<1> QED BY <1>2, <1>4

\* The seat is taken for good unless something else was under way.
LEMMA AssignStep ==
  ASSUME PInv, NEW m \in Jobs, Assign(m)
  PROVE  PairsOK
<1>0. PICK j, s, rest : j = making[m] /\ s = Head(j.todo) /\ rest = Tail(j.todo) OBVIOUS
<1> DEFINE k == Onward(j, rest)
<1>1. j.stage = "assigning" /\ j \in MatchesMade BY <1>0, IdleIsIdle DEF PInv, Assign
<1>2. /\ j.todo \in Seq(Sockets) /\ Len(j.todo) \in 1..2
      /\ Len(j.todo) = 2 => j.todo[1] # j.todo[2]
  BY <1>1 DEF MatchesMade
<1>3. s \in Sockets /\ s = j.todo[1] BY <1>0, <1>2
<1>4. /\ making' = [making EXCEPT ![m] = k] /\ joining' = joining
      /\ seated' = seated \cup {s} /\ lobby' = lobby /\ crossed' = crossed
      /\ late' = IF UnderWay(s) \/ InHand(s) # {m} THEN late \cup {s} ELSE late
  BY <1>0 DEF Assign, k
<1>5. /\ rest \in Seq(Sockets) /\ Len(rest) = Len(j.todo) - 1
      /\ \A i \in DOMAIN rest : i = 1 /\ Len(j.todo) = 2 /\ rest[i] = j.todo[2]
  BY ONLY <1>0, <1>2, TodoTail
<1>6. /\ k \in {Idle} \cup MatchesMade /\ k.stage # "creating"
      /\ \A i \in DOMAIN k.todo : \E n \in DOMAIN rest : k.todo[i] = rest[n]
  <2>1. Len(rest) \in 0..2 /\ Len(rest) # 2
    <3>1. Len(j.todo) = 1 \/ Len(j.todo) = 2 BY <1>2
    <3> QED BY ONLY <1>5, <3>1
  <2> QED BY <1>1, <1>5, <2>1, OnwardFacts
<1> HIDE DEF k
<1>7. \A i \in DOMAIN k.todo : Len(j.todo) = 2 /\ k.todo[i] = j.todo[2] /\ k.todo[i] # s
  BY <1>2, <1>3, <1>5, <1>6
<1>8. \A i \in DOMAIN k.todo : \E n \in DOMAIN j.todo : k.todo[i] = j.todo[n]
  <2>1. ASSUME NEW i \in DOMAIN k.todo PROVE k.todo[i] = j.todo[2] /\ 2 \in DOMAIN j.todo
    BY <1>2, <1>7, <2>1
  <2> QED BY <2>1
<1>9. Sheds(lobby, lobby') BY <1>4 DEF Sheds
<1>10. \A n \in Modes : m \notin Creating(n) BY <1>0, <1>1 DEF Creating
<1>11. /\ making' \in [Jobs -> {Idle} \cup MatchesMade]
       /\ \A t \in seated \ late : AtRest(t)'
       /\ \A n \in Modes : Attended(n)'
  BY <1>0, <1>4, <1>6, <1>8, <1>9, <1>10, MakingStep
<1>12. ASSUME s \notin late' PROVE AtRest(s)'
  <2>1. ~UnderWay(s) /\ InHand(s) = {m} BY <1>4, <1>12
  <2>2. Quiet(lobby', s) /\ joining'[s] = None
    BY <1>4, <2>1 DEF UnderWay, QueuedIn, Quiet
  <2>3. making \in [Jobs -> {Idle} \cup MatchesMade] BY DEF PInv
  <2>4. making'[m] = k /\ \A n \in Jobs \ {m} : making'[n] = making[n] BY <1>4, <2>3
  <2>5. InHand(s)' = {}
    <3>1. ASSUME NEW n \in Jobs, NEW i \in DOMAIN making'[n].todo, making'[n].todo[i] = s
          PROVE  FALSE
      <4>1. CASE n = m BY <1>7, <2>4, <3>1, <4>1
      <4>2. CASE n # m BY <2>1, <2>4, <3>1, <4>2 DEF InHand
      <4> QED BY <4>1, <4>2
    <3> QED BY <3>1 DEF InHand
  <2> QED BY <2>2, <2>5 DEF AtRest
<1>13. seated' \subseteq Sockets BY <1>3, <1>4 DEF PInv
<1>14. \A t \in seated' \ late' : t = s \/ t \in seated \ late BY <1>4
<1> QED BY <1>11, <1>12, <1>13, <1>14 DEF PairsOK

LEMMA PairsStep == PInv /\ [Next]_vars => PInv'
<1> SUFFICES ASSUME PInv, [Next]_vars PROVE PInv'
  OBVIOUS
<1>1. IInv' BY StepKeeps DEF PInv
<1>2. PairsOK
  <2>1. ASSUME NEW s \in Sockets, NEW mode \in Modes, AskJoin(s, mode) PROVE PairsOK
    BY <2>1, AskStep
  <2>2. ASSUME NEW s \in Sockets, FinishJoin(s) \/ ContinueQueue(s) PROVE PairsOK
    BY <2>2, JoinStep
  <2>3. ASSUME NEW s \in Sockets,
               FailJoin(s) \/ DeclineFallback(s) \/ Leave(s) \/ Disconnect(s)
        PROVE  PairsOK
    BY <2>3, GiveUpStep
  <2>4. ASSUME NEW s \in Sockets, StartBotMatch(s) PROVE PairsOK
    BY <2>4, BotStep
  <2>5. ASSUME NEW s \in Sockets, TakeSeat(s) PROVE PairsOK
    BY <2>5, TakeSeatStep
  <2>6. ASSUME NEW m \in Jobs, Created(m) PROVE PairsOK
    BY <2>6, CreatedStep
  <2>7. ASSUME NEW m \in Jobs, CreateFails(m) PROVE PairsOK
    BY <2>7, CreateFailsStep
  <2>8. ASSUME NEW m \in Jobs, Assign(m) PROVE PairsOK
    BY <2>8, AssignStep
  <2>12. ASSUME NEW m \in Jobs, AssignFails(m) PROVE PairsOK
    BY <2>12, AssignFailsStep
  <2>9. ASSUME Sheds(lobby, lobby'),
               UNCHANGED <<joining, making, seated, late, crossed>>
        PROVE  PairsOK
    <3>1. \A mode \in Modes : Attended(mode)' BY <2>9, OnlySheds
    <3>2. ASSUME NEW t \in seated \ late PROVE AtRest(t)'
      <4>1. t \in Sockets /\ AtRest(t) BY <3>2 DEF PInv
      <4>2. InHand(t)' = {} BY <2>9, <4>1 DEF AtRest, InHand
      <4> QED BY <2>9, <4>1, <4>2, RestKept DEF AtRest
    <3> QED BY <2>9, <3>1, <3>2 DEF PairsOK, PInv
  <2>10. ASSUME NEW mode \in Modes, GetQueueState(mode) PROVE PairsOK
    <3>1. lobby \in LobbyType BY DEF PInv, IInv, LobbyOK
    <3>2. Sheds(lobby, lobby') BY <2>10, <3>1, ExpireSheds DEF GetQueueState
    <3>3. UNCHANGED <<joining, making, seated, late, crossed>> BY <2>10 DEF GetQueueState
    <3> QED BY <2>9, <3>2, <3>3
  <2>11. CASE Tick \/ UNCHANGED vars
    <3>1. /\ lobby' = lobby /\ UNCHANGED <<joining, making, seated, late, crossed>>
      BY <2>11 DEF Tick, vars
    <3>2. Sheds(lobby, lobby') BY <3>1 DEF Sheds
    <3> QED BY <2>9, <3>1, <3>2
  <2> QED BY <2>1, <2>2, <2>3, <2>4, <2>5, <2>6, <2>7, <2>8, <2>10, <2>11, <2>12 DEF Next
<1> QED BY <1>1, <1>2 DEF PInv, PairsOK

LEMMA PairsHeld == Spec => []PInv
<1>1. ASSUME Init PROVE PInv
  <2>1. IInv BY <1>1, Initially
  <2>2. /\ making = [m \in Jobs |-> Idle] /\ seated = {}
        /\ lobby = [queues |-> [m \in Modes |-> {}], fallback |-> [s \in Sockets |-> None]]
    BY <1>1 DEF Init
  <2>3. \A mode \in Modes : Alone(lobby.queues[mode]) BY <2>2 DEF Alone
  <2> QED BY <2>1, <2>2, <2>3 DEF PInv, Attended
<1> QED BY <1>1, PairsStep, PTL DEF Spec

\* A socket that sits at a table is in no queue, has no offer and no join
\* pending and is in no pairing, unless it sat down in the middle of one of these.
THEOREM SeatedApart == Spec => []SeatedIsNotWaiting
<1>1. ASSUME PInv PROVE SeatedIsNotWaiting
  <2>1. ASSUME NEW s \in seated \ late PROVE ~UnderWay(s) /\ InHand(s) = {}
    BY <1>1, <2>1 DEF PInv, AtRest, Quiet, UnderWay, QueuedIn
  <2> QED BY <2>1 DEF SeatedIsNotWaiting
<1> QED BY <1>1, PairsHeld, PTL

\* Two who wait side by side are being paired, whatever joined, left or expired
\* before, unless pairings of their queue overlapped or one could not be made.
THEOREM PairsAreSought == Spec => []NoIdlePair
<1>1. ASSUME PInv PROVE NoIdlePair
  <2>1. ASSUME NEW mode \in Modes, Alone(lobby.queues[mode])
        PROVE  ~(Cardinality(lobby.queues[mode]) >= 2)
    <3>1. CASE lobby.queues[mode] = {}
      BY <3>1, FS_EmptySet
    <3>2. ASSUME NEW e \in lobby.queues[mode]
          PROVE  ~(Cardinality(lobby.queues[mode]) >= 2)
      <4>1. lobby.queues[mode] = {e} BY <2>1, <3>2 DEF Alone
      <4> QED BY <4>1, FS_Singleton
    <3> QED BY <3>1, <3>2
  <2>2. \A mode \in Modes : Attended(mode) BY <1>1 DEF PInv
  <2> QED BY <2>1, <2>2 DEF NoIdlePair, Attended
<1> QED BY <1>1, PairsHeld, PTL
=============================================================================
