----------------------------- MODULE Matchmaking -----------------------------
(***************************************************************************)
(* The public queue (src/gateway/matchmaking) and the gateway's handlers   *)
(* around it: joining, pairing, waiting too long, the fallback offers, and *)
(* the seating of a pair at its new table.                                 *)
(*                                                                         *)
(* The manager, the policy and the service never await; a handler is cut   *)
(* where it does: for a player's profile (a join, each seat of a pair) and *)
(* for the match to be created.  Whatever it read before is in its task.   *)
(*                                                                         *)
(* A queue is a set of entries: the code's order of arrival is the order   *)
(* of joinedAt but for entries of one millisecond and one rating, between  *)
(* which any choice is allowed here.                                       *)
(***************************************************************************)
EXTENDS Integers, FiniteSets, Sequences

CONSTANTS
  Players, Sockets, PlayerOf,   \* a socket's playerToken
  RatingOf,                     \* a player's rating when it joins
  Modes,
  Jobs,                         \* bound: matches being made at once
  MaxWait,                      \* QUEUE_MAX_WAIT_MS
  MaxTime,                      \* bound: the clock stops there
  Joins,                        \* bound: the <<socket, mode>> of a join-queue
  MaxRequests,                  \* bound: what players ask for, in all
  None

ASSUME MatchmakingAssumption ==
  /\ PlayerOf \in [Sockets -> Players] /\ RatingOf \in [Players -> Nat]
  /\ MaxWait \in Nat \ {0} /\ MaxTime \in Nat /\ MaxRequests \in Nat
  /\ Joins \subseteq Sockets \X Modes
  /\ Modes # {} /\ None \notin Modes /\ Jobs # {}

VARIABLES
  now,       \* Date.now()
  lobby,     \* [queues, fallback]: queues and pendingFallbackBySocketId
  joining,   \* per socket, the mode of a join-queue that awaits the profile
  making,    \* the createQueuedMatch and createBotFallbackMatch under way
  seated,    \* sockets with a live session at a table
  gone,      \* sockets that have closed
  late,      \* history: sockets seated while something else was under way
  crossed,   \* history: modes where two pairings ran at once or one failed
  requests   \* how many requests players have made

vars == <<now, lobby, joining, making, seated, gone, late, crossed, requests>>

-----------------------------------------------------------------------------
(* MatchmakingQueueManager and GatewayMatchmakingService *)

Entry(s) == [socket |-> s, joinedAt |-> now]

RemoveOne(queue, match) ==
  IF queue \cap match = {} THEN queue ELSE queue \ {CHOOSE e \in queue \cap match : TRUE}

OfSocket(queue, s) == {e \in queue : e.socket = s}
OfPlayer(queue, p) == {e \in queue : PlayerOf[e.socket] = p}

QueuedIn(l, s) == {m \in Modes : OfSocket(l.queues[m], s) # {}}

\* Mutant: joining forgets the player's other windows.
JoinKeepsToken(l, s, mode) ==
  LET left == [m \in Modes |-> RemoveOne(l.queues[m], OfSocket(l.queues[m], s))]
  IN [queues   |-> [left EXCEPT ![mode] = @ \cup {Entry(s)}],
      fallback |-> [t \in Sockets |-> IF PlayerOf[t] = PlayerOf[s] THEN None
                                      ELSE l.fallback[t]]]

Join(l, s, mode) ==
  LET bySocket == [m \in Modes |-> RemoveOne(l.queues[m], OfSocket(l.queues[m], s))]
      byToken  == [m \in Modes |-> RemoveOne(bySocket[m], OfPlayer(bySocket[m], PlayerOf[s]))]
  IN [queues   |-> [byToken EXCEPT ![mode] = @ \cup {Entry(s)}],
      fallback |-> [t \in Sockets |-> IF PlayerOf[t] = PlayerOf[s] THEN None
                                      ELSE l.fallback[t]]]

LeaveBySocketId(l, s) ==
  IF QueuedIn(l, s) = {} THEN l
  ELSE LET m == CHOOSE x \in QueuedIn(l, s) : TRUE
       IN [l EXCEPT !.queues[m] = RemoveOne(@, OfSocket(@, s))]

Overdue(l, mode) == {e \in l.queues[mode] : now - e.joinedAt >= MaxWait}

\* expireQueue: what waited too long becomes a fallback offer.
Expire(l, mode) ==
  [queues   |-> [l.queues EXCEPT ![mode] = @ \ Overdue(l, mode)],
   fallback |-> [s \in Sockets |-> IF OfSocket(Overdue(l, mode), s) # {} THEN mode
                                   ELSE l.fallback[s]]]

ClearFallback(l, s) == [l EXCEPT !.fallback[s] = None]

\* leaveQueue: only a socket that was queued makes its queue expire.
LeaveQueue(l, s) ==
  IF QueuedIn(l, s) = {} THEN l
  ELSE Expire(LeaveBySocketId(l, s), CHOOSE m \in QueuedIn(l, s) : TRUE)

\* Mutant: only the offers of the pair are cleared.
CompleteKeepsQueue(l, pair) == ClearFallback(ClearFallback(l, pair[1]), pair[2])

CompleteMatchedPair(l, pair) ==
  LET Out(k, s) == ClearFallback(LeaveBySocketId(k, s), s)
  IN Out(Out(l, pair[1]), pair[2])

-----------------------------------------------------------------------------
(* MatchmakingPairingPolicy *)

Rating(e) == RatingOf[PlayerOf[e.socket]]

\* The sort of findPair.
Earlier(a, b) ==
  a.joinedAt < b.joinedAt \/ (a.joinedAt = b.joinedAt /\ Rating(a) < Rating(b))

Spread(w) == IF Rating(w[1]) < Rating(w[2]) THEN Rating(w[2]) - Rating(w[1])
             ELSE Rating(w[1]) - Rating(w[2])

\* Neighbours in the sorted queue.
Windows(queue) ==
  {w \in queue \X queue :
     /\ w[1] # w[2] /\ ~Earlier(w[2], w[1])
     /\ ~\E e \in queue : Earlier(w[1], e) /\ Earlier(e, w[2])}

\* The pairs findPair may return: the smallest spread, the first of these.
FindPair(queue) ==
  {w \in Windows(queue) :
     \A v \in Windows(queue) :
       /\ Spread(w) <= Spread(v)
       /\ Spread(w) = Spread(v) => ~Earlier(v[1], w[1])}

-----------------------------------------------------------------------------
(* Making a match *)

Idle == [stage |-> "idle", kind |-> None, mode |-> None, todo |-> <<>>]

\* assignQueuedPlayersToMatch passes over the sockets it cannot find when it
\* comes to them; the bot match has its socket in hand.
Reached(job, todo) == {i \in DOMAIN todo : job.kind = "pair" => todo[i] \notin gone}

\* The job once those in todo remain to be seated.
Onward(job, todo) ==
  IF Reached(job, todo) = {} THEN Idle
  ELSE LET next == CHOOSE i \in Reached(job, todo) : \A j \in Reached(job, todo) : i <= j
       IN [job EXCEPT !.stage = "assigning", !.todo = SubSeq(todo, next, Len(todo))]

Creating(mode) ==
  {m \in Jobs : making[m].stage = "creating" /\ making[m].kind = "pair"
                /\ making[m].mode = mode}

InHand(s) == {m \in Jobs : \E i \in DOMAIN making[m].todo : making[m].todo[i] = s}

\* tryCreateMatchFromQueue up to the call that creates the match.
TryResolvePair(l, mode) ==
  LET kept == Expire(l, mode)
      Found == FindPair(kept.queues[mode])
  IN /\ lobby' = kept
     /\ \/ Found = {} /\ UNCHANGED <<making, crossed>>
        \/ \E w \in Found, m \in Jobs :
             /\ making[m] = Idle
             /\ making' = [making EXCEPT ![m] =
                  [stage |-> "creating", kind |-> "pair", mode |-> mode,
                   todo |-> <<w[1].socket, w[2].socket>>]]
             /\ crossed' = IF Creating(mode) = {} THEN crossed ELSE crossed \cup {mode}

-----------------------------------------------------------------------------
(* Handlers *)

Init ==
  /\ now = 0
  /\ lobby = [queues |-> [m \in Modes |-> {}], fallback |-> [s \in Sockets |-> None]]
  /\ joining = [s \in Sockets |-> None]
  /\ making = [m \in Jobs |-> Idle]
  /\ seated = {} /\ gone = {} /\ late = {} /\ crossed = {} /\ requests = 0

Request == requests < MaxRequests /\ requests' = requests + 1

\* join-queue: leaves its table, expires the queue, awaits the profile.
AskJoin(s, mode) ==
  /\ Request
  /\ s \notin gone /\ joining[s] = None
  /\ joining' = [joining EXCEPT ![s] = mode]
  /\ seated' = seated \ {s}
  /\ late' = late \ {s}
  /\ lobby' = Expire(lobby, mode)
  /\ UNCHANGED <<now, making, gone, crossed>>

\* ... and joins, whether or not its socket is still there.
FinishJoin(s) ==
  /\ joining[s] # None
  /\ TryResolvePair(Join(lobby, s, joining[s]), joining[s])
  /\ joining' = [joining EXCEPT ![s] = None]
  /\ UNCHANGED <<now, seated, gone, late, requests>>

\* The profile could not be read.
FailJoin(s) ==
  /\ joining[s] # None
  /\ joining' = [joining EXCEPT ![s] = None]
  /\ UNCHANGED <<now, lobby, making, seated, gone, late, crossed, requests>>

\* Mutant: back in the queue, but nobody looks for a pair.
ContinueUnpaired(s) ==
  /\ Request
  /\ s \notin gone /\ lobby.fallback[s] # None
  /\ lobby' = Join(ClearFallback(lobby, s), s, lobby.fallback[s])
  /\ UNCHANGED <<now, joining, making, seated, gone, late, crossed>>

ContinueQueue(s) ==
  /\ Request
  /\ s \notin gone /\ lobby.fallback[s] # None
  /\ TryResolvePair(Join(ClearFallback(lobby, s), s, lobby.fallback[s]), lobby.fallback[s])
  /\ UNCHANGED <<now, joining, seated, gone, late>>

\* start-bot-match takes the offer before the match exists.
StartBotMatch(s) ==
  /\ Request
  /\ s \notin gone /\ lobby.fallback[s] # None
  /\ \E m \in Jobs :
       /\ making[m] = Idle
       /\ making' = [making EXCEPT ![m] =
            [stage |-> "creating", kind |-> "bot", mode |-> lobby.fallback[s],
             todo |-> <<s>>]]
  /\ lobby' = ClearFallback(lobby, s)
  /\ UNCHANGED <<now, joining, seated, gone, late, crossed>>

DeclineFallback(s) ==
  /\ Request
  /\ s \notin gone /\ lobby.fallback[s] # None
  /\ lobby' = ClearFallback(lobby, s)
  /\ UNCHANGED <<now, joining, making, seated, gone, late, crossed>>

Leave(s) ==
  /\ Request
  /\ s \notin gone /\ QueuedIn(lobby, s) # {}
  /\ lobby' = LeaveQueue(lobby, s)
  /\ UNCHANGED <<now, joining, making, seated, gone, late, crossed>>

GetQueueState(mode) ==
  /\ Overdue(lobby, mode) # {}
  /\ lobby' = Expire(lobby, mode)
  /\ UNCHANGED <<now, joining, making, seated, gone, late, crossed, requests>>

\* createMatchUseCase answers: the room exists, the pair leaves the queue.
Created(m) ==
  /\ making[m].stage = "creating"
  /\ lobby' = IF making[m].kind = "pair" THEN CompleteMatchedPair(lobby, making[m].todo)
              ELSE lobby
  /\ making' = [making EXCEPT ![m] = Onward(@, @.todo)]
  /\ UNCHANGED <<now, joining, seated, gone, late, crossed, requests>>

\* The match could not be created: nothing is undone or tried again.
CreateFails(m) ==
  /\ making[m].stage = "creating"
  /\ making' = [making EXCEPT ![m] = Idle]
  /\ crossed' = IF making[m].kind = "pair" THEN crossed \cup {making[m].mode} ELSE crossed
  /\ UNCHANGED <<now, lobby, joining, seated, gone, late, requests>>

\* What else may still happen to a socket that is about to be seated.
UnderWay(s) ==
  joining[s] # None \/ QueuedIn(lobby, s) # {} \/ lobby.fallback[s] # None

\* assignSocketToMatch has the profile: the socket is seated, though it may
\* have closed or sat down elsewhere in the meantime.
Assign(m) ==
  /\ making[m].stage = "assigning"
  /\ LET s == Head(making[m].todo) IN
       /\ seated' = seated \cup {s}
       /\ late' = IF UnderWay(s) \/ InHand(s) # {m} THEN late \cup {s} ELSE late
  /\ making' = [making EXCEPT ![m] = Onward(@, Tail(@.todo))]
  /\ UNCHANGED <<now, lobby, joining, gone, crossed, requests>>

\* The profile cannot be read, or the table refuses the join: who is left in
\* todo is not seated, and nothing puts anybody back in the queue.
AssignFails(m) ==
  /\ making[m].stage = "assigning"
  /\ making' = [making EXCEPT ![m] = Idle]
  /\ UNCHANGED <<now, lobby, joining, seated, gone, late, crossed, requests>>

\* Mutant: the seat is taken and the queue is not left.
TakeSeatStaysQueued(s) ==
  /\ Request
  /\ s \notin gone \cup seated
  /\ seated' = seated \cup {s}
  /\ late' = IF joining[s] # None \/ lobby.fallback[s] # None \/ InHand(s) # {}
             THEN late \cup {s} ELSE late
  /\ UNCHANGED <<now, lobby, joining, making, gone, crossed>>

\* create-match and join-match: seated, and out of the queue; an offer, a join
\* or a pairing under way is not looked at.
TakeSeat(s) ==
  /\ Request
  /\ s \notin gone \cup seated
  /\ seated' = seated \cup {s}
  /\ late' = IF joining[s] # None \/ lobby.fallback[s] # None \/ InHand(s) # {}
             THEN late \cup {s} ELSE late
  /\ lobby' = LeaveQueue(lobby, s)
  /\ UNCHANGED <<now, joining, making, gone, crossed>>

Disconnect(s) ==
  /\ Request
  /\ s \notin gone
  /\ gone' = gone \cup {s}
  /\ lobby' = LeaveQueue(lobby, s)
  /\ seated' = seated \ {s}
  /\ late' = late \ {s}
  /\ UNCHANGED <<now, joining, making, crossed>>

Tick == now < MaxTime /\ now' = now + 1
        /\ UNCHANGED <<lobby, joining, making, seated, gone, late, crossed, requests>>

Next ==
  \/ \E s \in Sockets :
       \/ \E mode \in Modes : <<s, mode>> \in Joins /\ AskJoin(s, mode)
       \/ FinishJoin(s) \/ FailJoin(s)
       \/ ContinueQueue(s) \/ StartBotMatch(s) \/ DeclineFallback(s)
       \/ Leave(s) \/ TakeSeat(s) \/ Disconnect(s)
  \/ \E mode \in Modes : GetQueueState(mode)
  \/ \E m \in Jobs : Created(m) \/ CreateFails(m) \/ Assign(m) \/ AssignFails(m)
  \/ Tick

\* What awaits the database is answered in the end; no player has to act.
Answers ==
  \A m \in Jobs : WF_vars(Created(m) \/ CreateFails(m) \/ Assign(m) \/ AssignFails(m))

Spec == Init /\ [][Next]_vars /\ Answers

-----------------------------------------------------------------------------
(* Properties *)

\* A player has one place at most, over both queues and the offers, however
\* many windows it has open and whatever finishes late.
OnePlacePerPlayer ==
  \A s, t \in Sockets : PlayerOf[s] = PlayerOf[t] =>
    /\ \A m, n \in Modes :
         \A e \in OfSocket(lobby.queues[m], s), f \in OfSocket(lobby.queues[n], t) :
           m = n /\ e = f
    /\ lobby.fallback[s] # None =>
         /\ \A m \in Modes : OfSocket(lobby.queues[m], t) = {}
         /\ lobby.fallback[t] # None => s = t

\* A socket is never at a table and waiting, offered or being paired at once,
\* unless it was seated while one of these was already under way.
SeatedIsNotWaiting ==
  \A s \in Sockets :
    s \in seated \ late => ~UnderWay(s) /\ InHand(s) = {}

\* Two players never wait side by side with nobody working on a pair of that
\* queue, unless two pairings of it overlapped or one could not be made.
NoIdlePair ==
  \A mode \in Modes :
    Cardinality(lobby.queues[mode]) >= 2 => Creating(mode) # {} \/ mode \in crossed

\* Two who wait in one queue are not left waiting: someone is paired or goes.
PairIsServed ==
  \A mode \in Modes :
    Cardinality(lobby.queues[mode]) >= 2
      ~> (Cardinality(lobby.queues[mode]) < 2 \/ mode \in crossed)
=============================================================================
