----------------------------- MODULE RoomManager -----------------------------
(***************************************************************************)
(* The tables of the gateway (src/gateway/multiplayer/room-manager.ts) as  *)
(* its handlers use them: who sits where, which socket plays for a seat,   *)
(* bots that keep a seat warm, and the start of a hand.                    *)
(*                                                                         *)
(* RoomManager's methods are synchronous; a handler is cut where it awaits *)
(* something after reading, or before writing, what is modelled here: a    *)
(* join waits for the player's profile, a start for the stored match.  A   *)
(* call the code answers with an error changes nothing unless said so.     *)
(*                                                                         *)
(* A seat has one entry at most: whatever adds one (join, selectSeat, the  *)
(* bot fill) has just found or made the seat free, so the code's sorted    *)
(* list of players is a function from seats here.                          *)
(***************************************************************************)
EXTENDS Integers, Sequences, FiniteSets

CONSTANTS
  Matches, Players,   \* a player is its playerToken
  Sockets,            \* every socket that ever connects
  PlayerOfSocket,     \* the token of a socket's handshake
  Kinds,              \* how rooms are made: [kind, mode] records
  Starters,           \* bound: the sockets that ask for a hand to start
  Moves,              \* bound: the seats select-seat is asked for
  Again,              \* bound: may a seated socket join its own match again
  None

ASSUME RoomAssumption ==
  /\ PlayerOfSocket \in [Sockets -> Players]
  /\ Starters \subseteq Sockets /\ Again \in BOOLEAN
  /\ Kinds \subseteq [kind : {"create", "human", "private", "flexible"},
                      mode : {"1v1", "2v2"}]
  /\ None \notin Matches \cup Players \cup Sockets \cup {"T1A", "T2A", "T1B", "T2B"}

VARIABLES
  rooms,      \* rooms
  sessions,   \* sessionsBySocketId
  stored,     \* sessionByTokenAndMatch, kept after a disconnect
  hand,       \* the stored match: "absent", "none", "live" or "over"
  gone,       \* sockets that have closed; a socket id is never used again
  joining,    \* per socket, the join it waits to finish
  starting    \* per socket, the start-hand it is in the middle of

vars == <<rooms, sessions, stored, hand, gone, joining, starting>>

-----------------------------------------------------------------------------
(* Rooms *)

\* TURN_ORDER and SEATS_BY_MODE list the seats alike.
TurnOrder(mode) == IF mode = "1v1" THEN <<"T1A", "T2A">>
                   ELSE <<"T1A", "T2A", "T1B", "T2B">>

SeatsOf(mode) == {TurnOrder(mode)[i] : i \in DOMAIN TurnOrder(mode)}

TeamSeats(mode, team) ==
  SeatsOf(mode) \cap IF team = "T1" THEN {"T1A", "T1B"} ELSE {"T2A", "T2B"}

Entry(token, socket, ready, bot) ==
  [token |-> token, socket |-> socket, ready |-> ready, bot |-> bot]

Vacant == Entry(None, None, FALSE, FALSE)
Bot == Entry(None, None, TRUE, TRUE)
Human(token, socket, ready) == Entry(token, socket, ready, FALSE)

NoRoom == [mode |-> None]

\* ensureRoom
NewRoom(mode, flexible) ==
  [mode |-> mode, seats |-> [x \in SeatsOf(mode) |-> Vacant], turn |-> None,
   begun |-> FALSE, reserved |-> None, flexible |-> flexible]

Occupied(room) == {x \in DOMAIN room.seats : room.seats[x] # Vacant}
Humans(room) == {x \in DOMAIN room.seats : room.seats[x].token # None}
Bots(room) == {x \in DOMAIN room.seats : room.seats[x].bot}

\* fillMissingSeatsWithBots
Filled(room) ==
  [room EXCEPT !.seats = [x \in DOMAIN @ |-> IF @[x] = Vacant THEN Bot ELSE @[x]]]

\* The first seat of X in turn order.
FirstSeat(mode, X) ==
  LET i == CHOOSE i \in DOMAIN TurnOrder(mode) :
             /\ TurnOrder(mode)[i] \in X
             /\ \A j \in 1..(i - 1) : TurnOrder(mode)[j] \notin X
  IN  TurnOrder(mode)[i]

\* findAvailableSeat: the reserved seat, else the first without a human.
FreeSeat(room) ==
  LET free == DOMAIN room.seats \ Humans(room)
  IN  IF room.reserved \in free THEN room.reserved
      ELSE IF free = {} THEN None ELSE FirstSeat(room.mode, free)

\* canStart
CanStart(room) ==
  IF room = NoRoom THEN FALSE
  ELSE IF room.flexible /\ ~room.begun
  THEN Humans(room) # {} /\ \A x \in Occupied(room) : room.seats[x].ready
  ELSE \A x \in DOMAIN room.seats : room.seats[x].ready

OpenFlexible(room) ==
  /\ room # NoRoom
  /\ room.flexible /\ ~room.begun /\ room.turn = None
  /\ \E x \in Humans(room) : room.seats[x].socket # None
  /\ Humans(room) # DOMAIN room.seats

-----------------------------------------------------------------------------
(* Sessions *)

NoSession == [match |-> None]

Session(m, token, seat, ready, socket) ==
  [match |-> m, token |-> token, seat |-> seat, ready |-> ready, socket |-> socket]

Idle == [match |-> None]

Init ==
  /\ rooms = [m \in Matches |-> NoRoom]
  /\ sessions = [s \in Sockets |-> NoSession]
  /\ stored = [m \in Matches |-> [t \in Players |-> NoSession]]
  /\ hand = [m \in Matches |-> "absent"]
  /\ gone = {}
  /\ joining = [s \in Sockets |-> Idle]
  /\ starting = [s \in Sockets |-> Idle]

\* create-match, create-human-1v1-room, create-private-match and
\* create-flexible-room, up to the wait for the creator's profile.
Create(s, m, k) ==
  /\ s \notin gone /\ joining[s] = Idle /\ hand[m] = "absent"
  /\ k.kind = "private" => k.mode = "2v2"
  /\ k.kind = "human" => k.mode = "1v1"
  /\ rooms' = [rooms EXCEPT ![m] = NewRoom(k.mode, k.kind = "flexible")]
  /\ hand' = [hand EXCEPT ![m] = "none"]
  /\ joining' = [joining EXCEPT ![s] = [match |-> m, kind |-> k.kind]]
  /\ UNCHANGED <<sessions, stored, gone, starting>>

\* join-match, or create-flexible-room when a room is open.  Nothing takes the
\* socket out of the match it was in.
AskJoin(s, m) ==
  /\ s \notin gone /\ joining[s] = Idle /\ hand[m] # "absent"
  /\ Again \/ sessions[s].match # m
  /\ \E kind \in {"join", "flexible"} :
       /\ kind = "flexible" => OpenFlexible(rooms[m])
       /\ joining' = [joining EXCEPT ![s] = [match |-> m, kind |-> kind]]
  /\ UNCHANGED <<rooms, sessions, stored, hand, gone, starting>>

\* What the handler does to the room right after the join.
AfterJoin(kind, room) ==
  CASE kind = "create" -> {Filled(room)}
    [] kind = "private" -> {[room EXCEPT !.reserved = x] :
                              x \in {"T1B", "T2A"} \ Humans(room)}
    [] kind = "join" -> IF /\ room.mode = "1v1"
                           /\ Cardinality(Humans(room)) < 2 /\ Bots(room) = {}
                        THEN {room} ELSE {Filled(room)}
    [] OTHER -> {room}

\* Faulty: the session is still bound to the socket it had.
ResumedOnOldSocket(old, s, ready) == [old EXCEPT !.ready = ready]

Resumed(old, s, ready) == [old EXCEPT !.socket = s, !.ready = ready]

\* Faulty: the socket the player had before keeps its session.
SessionsAfterBoth(old, s, new) == [sessions EXCEPT ![s] = new]

SessionsAfter(old, s, new) ==
  [sessions EXCEPT ![old.socket] = NoSession, ![s] = new]

\* join, for a player the match has a session of.
Rejoin(s, m, kind) ==
  LET t == PlayerOfSocket[s]
      old == stored[m][t]
      room == IF rooms[m] = NoRoom THEN NewRoom("2v2", FALSE) ELSE rooms[m]
      ready == room.begun \/ old.ready
      new == Resumed(old, s, ready)
      back == IF room.seats[old.seat] = Vacant THEN room
              ELSE [room EXCEPT !.seats[old.seat] = Human(t, s, ready)]
  IN  /\ old # NoSession
      /\ sessions' = SessionsAfter(old, s, new)
      /\ stored' = [stored EXCEPT ![m][t] = new]
      /\ \E r \in AfterJoin(kind, back) : rooms' = [rooms EXCEPT ![m] = r]

\* join, for a newcomer; a full room refuses it.
JoinAnew(s, m, kind) ==
  LET t == PlayerOfSocket[s]
      room == IF rooms[m] = NoRoom THEN NewRoom("2v2", FALSE) ELSE rooms[m]
      seat == FreeSeat(room)
      new == Session(m, t, seat, FALSE, s)
      seated == [room EXCEPT !.seats[seat] = Human(t, s, FALSE), !.reserved = None]
  IN  /\ stored[m][t] = NoSession
      /\ IF seat = None
         THEN /\ rooms' = [rooms EXCEPT ![m] = [room EXCEPT !.reserved = None]]
              /\ UNCHANGED <<sessions, stored>>
         ELSE /\ sessions' = [sessions EXCEPT ![s] = new]
              /\ stored' = [stored EXCEPT ![m][t] = new]
              /\ \E r \in AfterJoin(kind, seated) : rooms' = [rooms EXCEPT ![m] = r]

\* The profile has arrived.  The socket may have closed in the meantime.
FinishJoin(s) ==
  /\ joining[s] # Idle
  /\ LET j == joining[s]
     IN  Rejoin(s, j.match, j.kind) \/ JoinAnew(s, j.match, j.kind)
  /\ joining' = [joining EXCEPT ![s] = Idle]
  /\ UNCHANGED <<hand, gone, starting>>

-----------------------------------------------------------------------------
(* Requests of a seated socket *)

Seated(s) == s \notin gone /\ sessions[s] # NoSession

\* Faulty: an occupied seat may be taken.
MayTakeAny(room, x, s) == x \in DOMAIN room.seats

MayTake(room, x, s) ==
  /\ x \in DOMAIN room.seats
  /\ room.seats[x].token = None \/ room.seats[x].socket = s

SelectSeat(s, x) ==
  /\ Seated(s)
  /\ LET me == sessions[s]
         room == rooms[me.match]
         new == [me EXCEPT !.seat = x, !.ready = FALSE]
     IN  /\ room # NoRoom
         /\ ~room.begun /\ room.turn = None
         /\ x # me.seat /\ MayTake(room, x, s)
         /\ rooms' = [rooms EXCEPT
              ![me.match].seats = [y \in DOMAIN @ |->
                 IF y = x THEN Human(me.token, s, FALSE)
                 ELSE IF @[y].socket = s THEN Vacant ELSE @[y]],
              ![me.match].reserved = IF @ = x THEN None ELSE @]
         /\ sessions' = [sessions EXCEPT ![s] = new]
         /\ stored' = [stored EXCEPT ![me.match][me.token] = new]
  /\ UNCHANGED <<hand, gone, joining, starting>>

\* The flag goes to whoever has the entry of the session's seat.
SetReady(s, ready) ==
  /\ Seated(s)
  /\ LET me == sessions[s]
         room == rooms[me.match]
         new == [me EXCEPT !.ready = ready]
     IN  /\ room # NoRoom
         /\ rooms' = IF room.seats[me.seat] = Vacant THEN rooms
                     ELSE [rooms EXCEPT ![me.match].seats[me.seat].ready = ready]
         /\ sessions' = [sessions EXCEPT ![s] = new]
         /\ stored' = [stored EXCEPT ![me.match][me.token] = new]
  /\ UNCHANGED <<hand, gone, joining, starting>>

\* What a player who leaves for good makes of its room.
LeftBy(room, seat) ==
  LET without ==
        IF room.begun
        THEN [room EXCEPT !.seats[seat] = IF @.token # None THEN Bot ELSE @]
        ELSE [room EXCEPT !.seats[seat] = Vacant,
                          !.turn = IF @ = seat THEN None ELSE @]
  IN  IF Humans(without) = {} THEN NoRoom
      ELSE [without EXCEPT !.reserved = IF @ = seat THEN None ELSE @]

\* Faulty: the player's session survives it.
LeaveMatchKeepsSession(s) ==
  /\ Seated(s)
  /\ LET me == sessions[s]
     IN  /\ sessions' = [sessions EXCEPT ![s] = NoSession]
         /\ stored' = stored
         /\ rooms' = IF rooms[me.match] = NoRoom THEN rooms
                     ELSE [rooms EXCEPT ![me.match] = LeftBy(@, me.seat)]
  /\ UNCHANGED <<hand, gone, joining, starting>>

LeaveMatch(s) ==
  /\ Seated(s)
  /\ LET me == sessions[s]
     IN  /\ sessions' = [sessions EXCEPT ![s] = NoSession]
         /\ stored' = [stored EXCEPT ![me.match][me.token] = NoSession]
         /\ rooms' = IF rooms[me.match] = NoRoom THEN rooms
                     ELSE [rooms EXCEPT ![me.match] = LeftBy(@, me.seat)]
  /\ UNCHANGED <<hand, gone, joining, starting>>

\* Faulty: the entry of a player who drops out of a live table is removed.
DroppedByRemoves(room, seat) ==
  LET e == room.seats[seat]
  IN  [room EXCEPT !.seats[seat] =
         IF e.bot \/ e = Vacant \/ room.begun THEN Vacant
         ELSE Human(e.token, None, FALSE)]

\* What a closed socket makes of its room: a live table gets a bot, a lobby
\* keeps the place, and an entry that already is a bot's is removed.
DroppedBy(room, seat) ==
  LET e == room.seats[seat]
  IN  [room EXCEPT !.seats[seat] =
         IF e.bot \/ e = Vacant THEN Vacant
         ELSE IF room.begun THEN Bot
         ELSE Human(e.token, None, FALSE)]

\* handleDisconnect.  Joins and starts under way go on without the socket.
Disconnect(s) ==
  /\ s \notin gone
  /\ gone' = gone \cup {s}
  /\ LET me == sessions[s]
     IN  IF me = NoSession THEN UNCHANGED <<rooms, sessions, stored>>
         ELSE /\ sessions' = [sessions EXCEPT ![s] = NoSession]
              /\ stored' = [stored EXCEPT
                              ![me.match][me.token] = [me EXCEPT !.ready = FALSE]]
              /\ rooms' = IF rooms[me.match] = NoRoom THEN rooms
                          ELSE [rooms EXCEPT ![me.match] = DroppedBy(@, me.seat)]
  /\ UNCHANGED <<hand, joining, starting>>

-----------------------------------------------------------------------------
(* The start of a hand: start-hand, or get-state in a 1v1 room ("auto") *)

\* The stored match is read; checks and lock come when the answer is back.
ReadForStart(s, auto) ==
  /\ Seated(s) /\ s \in Starters /\ starting[s] = Idle
  /\ LET m == sessions[s].match
     IN  /\ auto => rooms[m] # NoRoom /\ rooms[m].mode = "1v1"
         /\ starting' = [starting EXCEPT ![s] =
              [match |-> m, seen |-> hand[m], auto |-> auto, step |-> "read"]]
  /\ UNCHANGED <<rooms, sessions, stored, hand, gone, joining>>

Locked(m) == \E s \in Sockets :
  starting[s] # Idle /\ starting[s].match = m /\ starting[s].step # "read"

\* The first hand needs the lobby's consent; later ones need none.
StartsFirst(c, room) == c.seen = "none" => CanStart(room)

\* A first start-hand in a flexible room fills it, whether or not it goes on.
CheckStart(s) ==
  /\ starting[s] # Idle /\ starting[s].step = "read"
  /\ LET c == starting[s]
         room == rooms[c.match]
         fills == /\ c.seen = "none" /\ ~c.auto
                  /\ room # NoRoom /\ room.flexible /\ ~room.begun
         ready == IF fills THEN Filled(room) ELSE room
         goes == /\ c.seen # "live" /\ (c.auto => c.seen = "none")
                 /\ StartsFirst(c, ready) /\ ~Locked(c.match)
                 /\ ready # NoRoom
     IN  /\ rooms' = [rooms EXCEPT ![c.match] = ready]
         /\ starting' = [starting EXCEPT ![s] =
              IF goes THEN [c EXCEPT !.step = "locked"] ELSE Idle]
  /\ UNCHANGED <<sessions, stored, hand, gone, joining>>

\* startHandUseCase: Match.start does nothing when a hand is being played.
SaveStart(s) ==
  /\ starting[s] # Idle /\ starting[s].step = "locked"
  /\ hand' = [hand EXCEPT ![starting[s].match] = "live"]
  /\ starting' = [starting EXCEPT ![s].step = "saved"]
  /\ UNCHANGED <<rooms, sessions, stored, gone, joining>>

\* resolveOpenerFromHint: the previous winner's first seat taken, or any one.
Openers(c, room) ==
  IF c.seen = "over"
  THEN {LET team == TeamSeats(room.mode, w) \cap Occupied(room)
        IN  IF team # {} THEN FirstSeat(room.mode, team) ELSE "T1A" :
          w \in {"T1", "T2"}}
  ELSE IF Occupied(room) = {} THEN {None} ELSE Occupied(room)

\* beginHand, once the started match is saved.  A vacant opener is refused.
BeginHand(s) ==
  /\ starting[s] # Idle /\ starting[s].step = "saved"
  /\ LET c == starting[s]
         room == rooms[c.match]
     IN  IF room = NoRoom
         THEN starting' = [starting EXCEPT ![s] = Idle] /\ UNCHANGED rooms
         ELSE \E x \in Openers(c, room) :
                LET ok == x \in Occupied(room) \cup {None}
                IN  /\ rooms' = [rooms EXCEPT
                         ![c.match].begun = TRUE,
                         ![c.match].turn = IF ok THEN x ELSE @]
                    /\ starting' = [starting EXCEPT ![s] =
                         IF ok THEN [c EXCEPT !.step = "begun"] ELSE Idle]
  /\ UNCHANGED <<sessions, stored, hand, gone, joining>>

\* The first bot turn is arranged and the lock released.
EndStart(s) ==
  /\ starting[s] # Idle /\ starting[s].step = "begun"
  /\ starting' = [starting EXCEPT ![s] = Idle]
  /\ UNCHANGED <<rooms, sessions, stored, hand, gone, joining>>

-----------------------------------------------------------------------------
(* The hand being played, as far as it moves the turn *)

\* isPlayersTurn, or the seat is a bot's.
CanAct(m) ==
  /\ rooms[m] # NoRoom /\ rooms[m].turn # None
  /\ \/ rooms[m].turn \in Bots(rooms[m])
     \/ \E s \in Sockets : /\ sessions[s] # NoSession /\ sessions[s].match = m
                           /\ sessions[s].seat = rooms[m].turn

\* advanceTurn, beginRound and setCurrentTurnSeat: the next seat, the round's
\* winner or the seat a bet interrupted; resolveValidSeatForRoom refuses a
\* vacant one.
PassTurn(m) ==
  /\ hand[m] = "live" /\ CanAct(m)
  /\ \E x \in Occupied(rooms[m]) : rooms' = [rooms EXCEPT ![m].turn = x]
  /\ UNCHANGED <<sessions, stored, hand, gone, joining, starting>>

\* A last card clears the turn; a declined bet, anyone's to decline, leaves it.
EndHand(m) ==
  /\ hand[m] = "live" /\ rooms[m] # NoRoom
  /\ CanAct(m) \/ \E s \in Sockets : sessions[s].match = m
  /\ hand' = [hand EXCEPT ![m] = "over"]
  /\ \E x \in {None, rooms[m].turn} : rooms' = [rooms EXCEPT ![m].turn = x]
  /\ UNCHANGED <<sessions, stored, gone, joining, starting>>

Next ==
  \/ \E s \in Sockets :
       \/ \E m \in Matches : AskJoin(s, m) \/ \E k \in Kinds : Create(s, m, k)
       \/ FinishJoin(s) \/ LeaveMatch(s) \/ Disconnect(s)
       \/ \E x \in Moves : SelectSeat(s, x)
       \/ \E b \in BOOLEAN : SetReady(s, b) \/ ReadForStart(s, b)
       \/ CheckStart(s) \/ SaveStart(s) \/ BeginHand(s) \/ EndStart(s)
  \/ \E m \in Matches : PassTurn(m) \/ EndHand(m)

Spec == Init /\ [][Next]_vars

-----------------------------------------------------------------------------
(* What must hold *)

Entries == [token : Players \cup {None}, socket : Sockets \cup {None},
            ready : BOOLEAN, bot : BOOLEAN]

SessionsOf(m) == {Session(m, t, x, r, s) : t \in Players, x \in SeatsOf("2v2"),
                                           r \in BOOLEAN, s \in Sockets}

(* The types of the gateway's maps; a session's seat is one of its room.   *)
TypeOK ==
  /\ \A m \in Matches : rooms[m] # NoRoom =>
       LET room == rooms[m]
       IN  /\ room.mode \in {"1v1", "2v2"}
           /\ room.seats \in [SeatsOf(room.mode) -> Entries]
           /\ {room.turn, room.reserved} \subseteq SeatsOf(room.mode) \cup {None}
           /\ {room.begun, room.flexible} \subseteq BOOLEAN
           /\ \A t \in Players : stored[m][t] # NoSession =>
                                   stored[m][t].seat \in DOMAIN room.seats
  /\ \A s \in Sockets : sessions[s] # NoSession =>
       /\ sessions[s] \in UNION {SessionsOf(m) : m \in Matches}
       /\ sessions[s].token = PlayerOfSocket[s] /\ sessions[s].socket = s
  /\ \A m \in Matches, t \in Players :
       stored[m][t] \in SessionsOf(m) \cup {NoSession}
  /\ hand \in [Matches -> {"absent", "none", "live", "over"}]
  /\ gone \subseteq Sockets

(* A player plays a match through one socket at most, the one that joined  *)
(* last, and the two maps of sessions agree on its seat and readiness.     *)
OneSessionPerPlayer ==
  \A s \in Sockets : sessions[s] # NoSession =>
    stored[sessions[s].match][PlayerOfSocket[s]] = sessions[s]

\* Nobody else has, or will ask for, the seat a session of match m names: its
\* entry is the player's own, or a bot's that the absent player comes back to.
Agreed(m) ==
  \A t \in Players : stored[m][t] # NoSession =>
    /\ rooms[m] # NoRoom
    /\ LET mine == stored[m][t]
           e == rooms[m].seats[mine.seat]
       IN  /\ \/ e.token = t
              \/ e.bot /\ sessions[mine.socket] # mine
           /\ sessions[mine.socket] = mine => e.socket = mine.socket
           /\ \A u \in Players \ {t} : stored[m][u] # NoSession =>
                                        stored[m][u].seat # mine.seat

(* Sessions and seats come apart in two ways only: somebody is given the   *)
(* seat a bot keeps for a player who dropped out, or the last human leaves *)
(* and the room goes while others may still come back to it.               *)
AgreementLostOnlyTo ==
  [][\A m \in Matches : Agreed(m) /\ ~Agreed(m)' =>
       \/ rooms'[m] = NoRoom
       \/ \E t, u \in Players :
            /\ t # u /\ stored[m][t] # NoSession
            /\ rooms[m].seats[stored[m][t].seat].bot
            /\ rooms'[m].seats[stored[m][t].seat].token = u]_vars

(* As long as they agree, a table that has begun loses no seat: whoever    *)
(* drops out or leaves is replaced by a bot, so the turn can go round.     *)
AgreedTableKept ==
  [][\A m \in Matches :
       /\ Agreed(m) /\ rooms[m] # NoRoom /\ rooms'[m] # NoRoom
       /\ rooms[m].begun
       => Occupied(rooms[m]) \subseteq Occupied(rooms'[m])]_vars

(* A seat passes from one human to another only when the other one had it  *)
(* before and reconnects: newcomers, moves and reservations unseat nobody. *)
SeatPassesOnlyToReturning ==
  [][\A m \in Matches : rooms[m] # NoRoom /\ rooms'[m] # NoRoom =>
       \A x \in Humans(rooms[m]) \cap Humans(rooms'[m]) :
         LET t == rooms[m].seats[x].token
             u == rooms'[m].seats[x].token
         IN  t # u => stored[m][u] # NoSession /\ stored[m][u].seat = x]_vars
=============================================================================
