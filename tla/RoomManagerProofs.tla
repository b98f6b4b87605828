-------------------------- MODULE RoomManagerProofs --------------------------
(***************************************************************************)
(* What RoomManager guarantees for any matches, players and sockets: the   *)
(* types, one session per player and match, who a seat passes to, how      *)
(* sessions and seats come apart, and the seats of a table that has begun. *)
(***************************************************************************)
EXTENDS RoomManager, TLAPS

Modes == {"1v1", "2v2"}

AllSeats == {"T1A", "T2A", "T1B", "T2B"}

SeatEntries ==
  {Vacant}
  \cup [token : {None}, socket : {None}, ready : BOOLEAN, bot : {TRUE}]
  \cup [token : Players, socket : Sockets \cup {None}, ready : BOOLEAN, bot : {FALSE}]

RoomOf(mode) ==
  [mode : {mode}, seats : [SeatsOf(mode) -> SeatEntries],
   turn : SeatsOf(mode) \cup {None}, begun : BOOLEAN,
   reserved : SeatsOf(mode) \cup {None}, flexible : BOOLEAN]

Rooms == RoomOf("1v1") \cup RoomOf("2v2")

AllSessions == [match : Matches, token : Players, seat : AllSeats,
                ready : BOOLEAN, socket : Sockets]

JoinKinds == {"create", "human", "private", "flexible", "join"}

Joins == [match : Matches, kind : JoinKinds]

Starts == [match : Matches, seen : {"none", "live", "over"}, auto : BOOLEAN,
           step : {"read", "locked", "saved", "begun"}]

-----------------------------------------------------------------------------
(* Rooms *)

LEMMA SeatsAreSeats ==
  /\ SeatsOf("1v1") = {"T1A", "T2A"}
  /\ SeatsOf("2v2") = AllSeats
<1>1. SeatsOf("1v1") = {"T1A", "T2A"}
  <2>1. DOMAIN TurnOrder("1v1") = 1..2 BY DEF TurnOrder
  <2>2. TurnOrder("1v1")[1] = "T1A" /\ TurnOrder("1v1")[2] = "T2A" BY DEF TurnOrder
  <2> QED BY <2>1, <2>2 DEF SeatsOf
<1>2. SeatsOf("2v2") = AllSeats
  <2>1. DOMAIN TurnOrder("2v2") = 1..4 BY DEF TurnOrder
  <2>2. /\ TurnOrder("2v2")[1] = "T1A" /\ TurnOrder("2v2")[2] = "T2A"
        /\ TurnOrder("2v2")[3] = "T1B" /\ TurnOrder("2v2")[4] = "T2B"
    BY DEF TurnOrder
  <2> QED BY <2>1, <2>2 DEF SeatsOf, AllSeats
<1> QED BY <1>1, <1>2

LEMMA EntriesDiffer ==
  /\ Vacant # Bot /\ Vacant.token = None /\ ~Vacant.bot
  /\ Bot.token = None /\ Bot.bot
  /\ \A t \in Players, s \in Sockets \cup {None}, r \in BOOLEAN :
       LET e == Human(t, s, r)
       IN  /\ e.token = t /\ t # None /\ ~e.bot /\ e.ready = r /\ e.socket = s
           /\ e # Vacant /\ e # Bot
BY RoomAssumption DEF Vacant, Bot, Human, Entry

(* The first seat of a set of seats of the room is one of them.            *)
LEMMA FirstSeatIn ==
  ASSUME NEW mode \in Modes, NEW X \in SUBSET SeatsOf(mode), X # {}
  PROVE  FirstSeat(mode, X) \in X
<1> DEFINE P(i) == /\ i \in DOMAIN TurnOrder(mode) /\ TurnOrder(mode)[i] \in X
                   /\ \A j \in 1..(i - 1) : TurnOrder(mode)[j] \notin X
<1>1. \E i \in DOMAIN TurnOrder(mode) : P(i)
  <2>1. CASE mode = "1v1"
    <3>1. DOMAIN TurnOrder(mode) = 1..2 BY <2>1 DEF TurnOrder
    <3>2. TurnOrder(mode)[1] = "T1A" /\ TurnOrder(mode)[2] = "T2A" BY <2>1 DEF TurnOrder
    <3>3. X \subseteq {"T1A", "T2A"} BY <2>1, SeatsAreSeats
    <3>4. CASE "T1A" \in X BY <3>1, <3>2, <3>4
    <3>5. CASE "T1A" \notin X
      <4>1. "T2A" \in X BY <3>3, <3>5
      <4>2. P(2) BY <3>1, <3>2, <3>5, <4>1
      <4> QED BY <3>1, <4>2
    <3> QED BY <3>4, <3>5
  <2>2. CASE mode = "2v2"
    <3>1. DOMAIN TurnOrder(mode) = 1..4 BY <2>2 DEF TurnOrder
    <3>2. /\ TurnOrder(mode)[1] = "T1A" /\ TurnOrder(mode)[2] = "T2A"
          /\ TurnOrder(mode)[3] = "T1B" /\ TurnOrder(mode)[4] = "T2B"
      BY <2>2 DEF TurnOrder
    <3>3. X \subseteq AllSeats BY <2>2, SeatsAreSeats
    <3>4. CASE "T1A" \in X BY <3>1, <3>2, <3>4
    <3>5. CASE "T1A" \notin X /\ "T2A" \in X
      <4>1. P(2) BY <3>1, <3>2, <3>5
      <4> QED BY <3>1, <4>1
    <3>6. CASE "T1A" \notin X /\ "T2A" \notin X /\ "T1B" \in X
      <4>1. P(3) BY <3>1, <3>2, <3>6
      <4> QED BY <3>1, <4>1
    <3>7. CASE "T1A" \notin X /\ "T2A" \notin X /\ "T1B" \notin X
      <4>1. "T2B" \in X BY <3>3, <3>7 DEF AllSeats
      <4>2. P(4) BY <3>1, <3>2, <3>7, <4>1
      <4> QED BY <3>1, <4>2
    <3> QED BY <3>4, <3>5, <3>6, <3>7
  <2> QED BY <2>1, <2>2 DEF Modes
<1>2. FirstSeat(mode, X) = TurnOrder(mode)[CHOOSE i \in DOMAIN TurnOrder(mode) : P(i)]
  BY DEF FirstSeat
<1> QED BY <1>1, <1>2

(* A room with some of its seats changed.                                  *)
LEMMA SeatsChanged ==
  ASSUME NEW mode \in Modes, NEW room \in RoomOf(mode),
         NEW seats \in [SeatsOf(mode) -> SeatEntries]
  PROVE  /\ [room EXCEPT !.seats = seats] \in RoomOf(mode)
         /\ [room EXCEPT !.seats = seats].seats = seats
         /\ [room EXCEPT !.seats = seats].begun = room.begun
BY DEF RoomOf

LEMMA SeatChanged ==
  ASSUME NEW mode \in Modes, NEW room \in RoomOf(mode),
         NEW x, NEW e, x \in SeatsOf(mode) => e \in SeatEntries
  PROVE  /\ [room EXCEPT !.seats[x] = e] \in RoomOf(mode)
         /\ [room EXCEPT !.seats[x] = e].begun = room.begun
         /\ (x \in SeatsOf(mode) /\ room.seats[x] # Vacant => e # Vacant) =>
              Occupied(room) \subseteq Occupied([room EXCEPT !.seats[x] = e])
<1> DEFINE new == [room EXCEPT !.seats[x] = e]
           seats == [room.seats EXCEPT ![x] = e]
<1>1. /\ room.seats \in [SeatsOf(mode) -> SeatEntries]
      /\ new.seats = seats /\ new = [room EXCEPT !.seats = seats]
  BY DEF RoomOf
<1>2. /\ seats \in [SeatsOf(mode) -> SeatEntries]
      /\ \A y \in SeatsOf(mode) : seats[y] = IF y = x THEN e ELSE room.seats[y]
  BY <1>1
<1> HIDE DEF seats
<1>3. new \in RoomOf(mode) /\ new.begun = room.begun BY <1>1, <1>2 DEF RoomOf
<1>4. (x \in SeatsOf(mode) /\ room.seats[x] # Vacant => e # Vacant) =>
        Occupied(room) \subseteq Occupied(new)
  BY <1>1, <1>2 DEF Occupied
<1> QED BY <1>3, <1>4

(* What the entry of a seat may become.                                    *)
LEMMA EntryTypes ==
  /\ Vacant \in SeatEntries /\ Bot \in SeatEntries
  /\ \A t \in Players, s \in Sockets \cup {None}, r \in BOOLEAN :
       Human(t, s, r) \in SeatEntries
  /\ \A e \in SeatEntries :
       \/ e = Vacant
       \/ e.bot /\ e.token = None
       \/ /\ e.token \in Players /\ e.token # None /\ ~e.bot
          /\ Human(e.token, None, FALSE) \in SeatEntries
  /\ \A e \in SeatEntries, r \in BOOLEAN : e # Vacant =>
       /\ [e EXCEPT !.ready = r] \in SeatEntries
       /\ [e EXCEPT !.ready = r] # Vacant
<1> DEFINE kept == [token : {None}, socket : {None}, ready : BOOLEAN, bot : {TRUE}]
           taken == [token : Players, socket : Sockets \cup {None},
                     ready : BOOLEAN, bot : {FALSE}]
<1>1. /\ Vacant \in SeatEntries /\ Bot \in kept
      /\ \A t \in Players, s \in Sockets \cup {None}, r \in BOOLEAN :
           Human(t, s, r) \in taken
  BY DEF SeatEntries, Bot, Human, Entry
<1>2. SeatEntries = {Vacant} \cup kept \cup taken BY DEF SeatEntries
<1>3. ASSUME NEW e \in kept, NEW r \in BOOLEAN
      PROVE  /\ e.bot /\ e.token = None
             /\ [e EXCEPT !.ready = r] \in kept /\ [e EXCEPT !.ready = r] # Vacant
  <2>1. /\ e.bot /\ e.token = None /\ [e EXCEPT !.ready = r] \in kept OBVIOUS
  <2>2. Vacant \notin kept BY DEF Vacant, Entry
  <2> QED BY <2>1, <2>2
<1>4. ASSUME NEW e \in taken, NEW r \in BOOLEAN
      PROVE  /\ e.token \in Players /\ e.token # None /\ ~e.bot
             /\ Human(e.token, None, FALSE) \in SeatEntries
             /\ [e EXCEPT !.ready = r] \in taken /\ [e EXCEPT !.ready = r] # Vacant
  <2>1. /\ e.token \in Players /\ ~e.bot /\ [e EXCEPT !.ready = r] \in taken OBVIOUS
  <2>2. e.token # None BY <2>1, RoomAssumption
  <2>3. Vacant \notin taken BY RoomAssumption DEF Vacant, Entry
  <2>4. Human(e.token, None, FALSE) \in SeatEntries BY <1>1, <1>2, <2>1
  <2> QED BY <2>1, <2>2, <2>3, <2>4
<1> HIDE DEF kept, taken
<1> QED BY <1>1, <1>2, <1>3, <1>4

LEMMA NewRoomType ==
  ASSUME NEW mode \in Modes, NEW flexible \in BOOLEAN
  PROVE  NewRoom(mode, flexible) \in RoomOf(mode)
BY EntryTypes DEF NewRoom, RoomOf

(* Filling a room, and whatever else follows a join, frees no seat.        *)
LEMMA FilledType ==
  ASSUME NEW mode \in Modes, NEW room \in RoomOf(mode)
  PROVE  /\ Filled(room) \in RoomOf(mode)
         /\ Filled(room).begun = room.begun
         /\ Occupied(room) \subseteq Occupied(Filled(room))
<1> DEFINE seats == [x \in DOMAIN room.seats |->
                      IF room.seats[x] = Vacant THEN Bot ELSE room.seats[x]]
<1>1. room.seats \in [SeatsOf(mode) -> SeatEntries] BY DEF RoomOf
<1>2. seats \in [SeatsOf(mode) -> SeatEntries] BY <1>1, EntryTypes
<1>3. Filled(room) = [room EXCEPT !.seats = seats] BY DEF Filled
<1>4. /\ Filled(room) \in RoomOf(mode) /\ Filled(room).begun = room.begun
      /\ Filled(room).seats = seats
  <2> HIDE DEF seats
  <2> QED BY <1>2, <1>3, SeatsChanged
<1>5. Occupied(room) \subseteq Occupied(Filled(room))
  BY <1>4, EntriesDiffer DEF Occupied
<1> QED BY <1>4, <1>5

LEMMA AfterJoinType ==
  ASSUME NEW mode \in Modes, NEW room \in RoomOf(mode), NEW kind,
         NEW r \in AfterJoin(kind, room), kind = "private" => mode = "2v2"
  PROVE  /\ r \in RoomOf(mode) /\ r.begun = room.begun
         /\ Occupied(room) \subseteq Occupied(r)
<1>1. CASE r = room BY <1>1
<1>2. CASE r = Filled(room) BY <1>2, FilledType
<1>3. CASE mode = "2v2" /\ \E x \in {"T1B", "T2A"} : r = [room EXCEPT !.reserved = x]
  <2>1. r.seats = room.seats /\ r.begun = room.begun /\ r \in RoomOf(mode)
    BY <1>3, SeatsAreSeats DEF RoomOf, AllSeats
  <2> QED BY <2>1 DEF Occupied
<1>4. \/ r = room \/ r = Filled(room)
      \/ mode = "2v2" /\ \E x \in {"T1B", "T2A"} : r = [room EXCEPT !.reserved = x]
  <2>1. CASE kind = "create" BY <2>1 DEF AfterJoin
  <2>2. CASE kind = "private" BY <2>2 DEF AfterJoin
  <2>3. CASE kind = "join" BY <2>3 DEF AfterJoin
  <2>4. CASE kind \notin {"create", "private", "join"} BY <2>4 DEF AfterJoin
  <2> QED BY <2>1, <2>2, <2>3, <2>4
<1> QED BY <1>1, <1>2, <1>3, <1>4

(* Whoever joins anew gets a seat of the room without a human.             *)
LEMMA FreeSeatType ==
  ASSUME NEW mode \in Modes, NEW room \in RoomOf(mode)
  PROVE  FreeSeat(room) \in (SeatsOf(mode) \ Humans(room)) \cup {None}
<1> DEFINE free == DOMAIN room.seats \ Humans(room)
<1>1. DOMAIN room.seats = SeatsOf(mode) /\ room.mode = mode BY DEF RoomOf
<1>2. free # {} => FirstSeat(mode, free) \in free BY <1>1, FirstSeatIn
<1> QED BY <1>1, <1>2 DEF FreeSeat

(* After the first hand, leaving puts a bot where a human was.             *)
LEMMA LeftByType ==
  ASSUME NEW mode \in Modes, NEW room \in RoomOf(mode), NEW seat \in AllSeats
  PROVE  /\ LeftBy(room, seat) \in RoomOf(mode) \cup {NoRoom}
         /\ room.begun /\ LeftBy(room, seat) # NoRoom =>
              /\ LeftBy(room, seat).begun
              /\ Occupied(room) \subseteq Occupied(LeftBy(room, seat))
<1> DEFINE e == IF room.seats[seat].token # None THEN Bot ELSE room.seats[seat]
           live == [room EXCEPT !.seats[seat] = e]
           lobby == [room EXCEPT !.seats[seat] = Vacant,
                                 !.turn = IF @ = seat THEN None ELSE @]
           without == IF room.begun THEN live ELSE lobby
           left == [without EXCEPT !.reserved = IF @ = seat THEN None ELSE @]
<1>1. room.seats \in [SeatsOf(mode) -> SeatEntries] BY DEF RoomOf
<1>2. live \in RoomOf(mode) /\ live.begun = room.begun
      /\ Occupied(room) \subseteq Occupied(live)
  <2>1. seat \in SeatsOf(mode) => e \in SeatEntries BY <1>1, EntryTypes
  <2>2. seat \in SeatsOf(mode) /\ room.seats[seat] # Vacant => e # Vacant
    BY EntriesDiffer
  <2> HIDE DEF e
  <2> QED BY <2>1, <2>2, SeatChanged
<1>4. lobby \in RoomOf(mode)
  <2> DEFINE moved == [room EXCEPT !.seats[seat] = Vacant]
  <2>1. moved \in RoomOf(mode) BY EntryTypes, SeatChanged
  <2>2. lobby = [moved EXCEPT !.turn = IF @ = seat THEN None ELSE @] BY DEF RoomOf
  <2> HIDE DEF moved
  <2> QED BY <2>1, <2>2 DEF RoomOf
<1>5. without \in RoomOf(mode) BY <1>2, <1>4
<1>6. /\ left \in RoomOf(mode)
      /\ left.begun = without.begun /\ left.seats = without.seats
  <2> HIDE DEF without
  <2> QED BY <1>5 DEF RoomOf
<1>7. LeftBy(room, seat) = IF Humans(without) = {} THEN NoRoom ELSE left BY DEF LeftBy
<1>8. room.begun => without = live OBVIOUS
<1>9. room.begun => left.begun /\ Occupied(room) \subseteq Occupied(left)
  <2> HIDE DEF left, without, live
  <2> QED BY <1>2, <1>6, <1>8 DEF Occupied
<1> HIDE DEF left, without
<1> QED BY <1>6, <1>7, <1>9

(* A dropped player's seat stays taken, unless it was a bot's already.     *)
LEMMA DroppedByType ==
  ASSUME NEW mode \in Modes, NEW room \in RoomOf(mode), NEW seat \in AllSeats
  PROVE  /\ DroppedBy(room, seat) \in RoomOf(mode)
         /\ DroppedBy(room, seat).begun = room.begun
         /\ room.begun /\ room.seats[seat].token # None =>
              Occupied(room) \subseteq Occupied(DroppedBy(room, seat))
<1> DEFINE e == room.seats[seat]
           new == IF e.bot \/ e = Vacant THEN Vacant
                  ELSE IF room.begun THEN Bot ELSE Human(e.token, None, FALSE)
<1>1. room.seats \in [SeatsOf(mode) -> SeatEntries] BY DEF RoomOf
<1>2. DroppedBy(room, seat) = [room EXCEPT !.seats[seat] = new] BY DEF DroppedBy
<1>3. seat \in SeatsOf(mode) => e \in SeatEntries BY <1>1
<1> HIDE DEF e
<1>4. seat \in SeatsOf(mode) => new \in SeatEntries
  <2>1. CASE e = Vacant \/ e.bot
    <3>1. new = Vacant BY <2>1
    <3> QED BY <3>1, EntryTypes
  <2>2. CASE Human(e.token, None, FALSE) \in SeatEntries
    <3>1. new \in {Vacant, Bot, Human(e.token, None, FALSE)} OBVIOUS
    <3> QED BY <2>2, <3>1, EntryTypes
  <2> QED BY <1>3, <2>1, <2>2, EntryTypes
<1>5. room.begun /\ e.token # None /\ seat \in SeatsOf(mode) => new # Vacant
  BY <1>3, EntryTypes, EntriesDiffer DEF Human, Entry
<1>6. /\ DroppedBy(room, seat) \in RoomOf(mode)
      /\ DroppedBy(room, seat).begun = room.begun
      /\ (seat \in SeatsOf(mode) /\ room.seats[seat] # Vacant => new # Vacant) =>
           Occupied(room) \subseteq Occupied(DroppedBy(room, seat))
  <2> HIDE DEF new
  <2> QED BY <1>2, <1>4, SeatChanged
<1>7. e = room.seats[seat] BY DEF e
<1> QED BY <1>5, <1>6, <1>7

-----------------------------------------------------------------------------
(* The inductive invariant *)

Typed ==
  /\ rooms \in [Matches -> Rooms \cup {NoRoom}]
  /\ sessions \in [Sockets -> AllSessions \cup {NoSession}]
  /\ stored \in [Matches -> [Players -> AllSessions \cup {NoSession}]]
  /\ hand \in [Matches -> {"absent", "none", "live", "over"}]
  /\ gone \subseteq Sockets
  /\ joining \in [Sockets -> Joins \cup {Idle}]
  /\ starting \in [Sockets -> Starts \cup {Idle}]

\* The keys of the two maps of sessions are what their values say.
SessionsFit ==
  /\ \A s \in Sockets : sessions[s] # NoSession =>
       sessions[s].token = PlayerOfSocket[s] /\ sessions[s].socket = s
  /\ \A m \in Matches, t \in Players : stored[m][t] # NoSession =>
       stored[m][t].match = m /\ stored[m][t].token = t
  /\ OneSessionPerPlayer

\* Rooms and sessions are those of created matches, seats those of the room.
RoomsFit ==
  /\ \A m \in Matches : hand[m] = "absent" =>
       rooms[m] = NoRoom /\ \A t \in Players : stored[m][t] = NoSession
  /\ \A s \in Sockets : joining[s] # Idle =>
       /\ hand[joining[s].match] # "absent"
       /\ joining[s].kind = "private" /\ rooms[joining[s].match] # NoRoom =>
            rooms[joining[s].match].mode = "2v2"
  /\ \A m \in Matches, t \in Players :
       rooms[m] # NoRoom /\ stored[m][t] # NoSession =>
         stored[m][t].seat \in DOMAIN rooms[m].seats

IInv == Typed /\ SessionsFit /\ RoomsFit

\* What AgreedTableKept asks of one step.
TableKept ==
  \A m \in Matches :
    /\ Agreed(m) /\ rooms[m] # NoRoom /\ rooms'[m] # NoRoom
    /\ rooms[m].begun
    => Occupied(rooms[m]) \subseteq Occupied(rooms'[m])

LEMMA RoomTyped ==
  ASSUME NEW room \in Rooms
  PROVE  /\ room.mode \in Modes /\ room \in RoomOf(room.mode)
         /\ DOMAIN room.seats = SeatsOf(room.mode)
         /\ room.seats \in [SeatsOf(room.mode) -> SeatEntries]
BY DEF Rooms, RoomOf, Modes

LEMMA ModeRooms ==
  ASSUME NEW mode \in Modes, NEW room \in RoomOf(mode)
  PROVE  room \in Rooms /\ room.mode = mode
BY DEF Rooms, RoomOf, Modes

(* A step that neither creates nor moves anything out of place keeps       *)
(* RoomsFit.                                                               *)
LEMMA FitKept ==
  ASSUME Typed, Typed', RoomsFit,
         \A m \in Matches : rooms'[m] # NoRoom =>
           \/ rooms'[m].mode = "2v2" /\ hand[m] # "absent"
           \/ rooms[m] # NoRoom /\ rooms'[m].mode = rooms[m].mode,
         \A m \in Matches, t \in Players : stored'[m][t] # NoSession =>
           \/ stored[m][t] # NoSession /\ stored'[m][t].seat = stored[m][t].seat
           \/ rooms'[m] # NoRoom /\ stored'[m][t].seat \in DOMAIN rooms'[m].seats,
         \A m \in Matches : hand'[m] = "absent" => hand[m] = "absent",
         \A s \in Sockets : joining'[s] \in {Idle, joining[s]}
  PROVE  RoomsFit'
<1>1. ASSUME NEW m \in Matches, rooms'[m] # NoRoom, hand'[m] = "absent"
      PROVE  FALSE
  BY <1>1 DEF RoomsFit
<1>2. ASSUME NEW m \in Matches, NEW t \in Players, hand'[m] = "absent"
      PROVE  stored'[m][t] = NoSession
  BY <1>1, <1>2 DEF RoomsFit
<1>3. ASSUME NEW s \in Sockets, joining'[s] # Idle
      PROVE  /\ hand'[joining'[s].match] # "absent"
             /\ joining'[s].kind = "private" /\ rooms'[joining'[s].match] # NoRoom =>
                  rooms'[joining'[s].match].mode = "2v2"
  <2>1. joining'[s] = joining[s] /\ joining[s] # Idle BY <1>3
  <2>2. joining[s].match \in Matches BY <2>1 DEF Typed, Joins
  <2> QED BY <2>1, <2>2 DEF RoomsFit
<1>4. ASSUME NEW m \in Matches, NEW t \in Players,
             rooms'[m] # NoRoom, stored'[m][t] # NoSession
      PROVE  stored'[m][t].seat \in DOMAIN rooms'[m].seats
  <2>1. CASE stored[m][t] # NoSession /\ stored'[m][t].seat = stored[m][t].seat
    <3>1. rooms'[m] \in Rooms BY <1>4 DEF Typed
    <3>2. CASE rooms'[m].mode = "2v2"
      <4>1. stored'[m][t].seat \in AllSeats BY <1>4 DEF Typed, AllSessions
      <4> QED BY <3>1, <3>2, <4>1, RoomTyped, SeatsAreSeats
    <3>3. CASE rooms[m] # NoRoom /\ rooms'[m].mode = rooms[m].mode
      <4>1. rooms[m] \in Rooms BY <3>3 DEF Typed
      <4>2. DOMAIN rooms[m].seats = DOMAIN rooms'[m].seats BY <3>1, <3>3, <4>1, RoomTyped
      <4> QED BY <2>1, <3>3, <4>2 DEF RoomsFit
    <3> QED BY <1>4, <3>2, <3>3
  <2> QED BY <1>4, <2>1
<1> QED BY <1>1, <1>2, <1>3, <1>4 DEF RoomsFit

(* A seated socket's session and its stored copy change together.          *)
LEMMA OwnSessionChanged ==
  ASSUME Typed, SessionsFit, NEW s \in Sockets, sessions[s] # NoSession,
         NEW b \in AllSessions \cup {NoSession},
         b # NoSession => /\ b.match = sessions[s].match /\ b.socket = s
                          /\ b.token = sessions[s].token,
         NEW a \in {b, NoSession},
         sessions' = [sessions EXCEPT ![s] = a],
         stored' = [stored EXCEPT ![sessions[s].match][sessions[s].token] = b]
  PROVE  /\ sessions' \in [Sockets -> AllSessions \cup {NoSession}]
         /\ stored' \in [Matches -> [Players -> AllSessions \cup {NoSession}]]
         /\ SessionsFit'
<1> DEFINE m == sessions[s].match
           t == sessions[s].token
<1>1. m \in Matches /\ t \in Players BY DEF Typed, AllSessions
<1>2. t = PlayerOfSocket[s] /\ stored[m][t] = sessions[s] /\ sessions[s].socket = s
  BY <1>1 DEF SessionsFit, OneSessionPerPlayer
<1>3. /\ sessions' \in [Sockets -> AllSessions \cup {NoSession}]
      /\ \A q \in Sockets : sessions'[q] = IF q = s THEN a ELSE sessions[q]
  BY DEF Typed
<1>4. /\ stored' \in [Matches -> [Players -> AllSessions \cup {NoSession}]]
      /\ \A n \in Matches, u \in Players :
           stored'[n][u] = IF n = m /\ u = t THEN b ELSE stored[n][u]
  BY <1>1 DEF Typed
<1>5. ASSUME NEW q \in Sockets, sessions'[q] # NoSession
      PROVE  /\ sessions'[q].token = PlayerOfSocket[q] /\ sessions'[q].socket = q
             /\ stored'[sessions'[q].match][PlayerOfSocket[q]] = sessions'[q]
  <2>1. CASE q = s
    <3>1. sessions'[q] = b /\ b # NoSession BY <1>3, <1>5, <2>1
    <3> QED BY <1>1, <1>2, <1>4, <2>1, <3>1
  <2>2. CASE q # s
    <3>1. sessions'[q] = sessions[q] BY <1>3, <2>2
    <3>2. /\ sessions[q].token = PlayerOfSocket[q] /\ sessions[q].socket = q
          /\ stored[sessions[q].match][PlayerOfSocket[q]] = sessions[q]
      BY <1>5, <3>1 DEF SessionsFit, OneSessionPerPlayer
    <3>3. sessions[q].match \in Matches /\ PlayerOfSocket[q] \in Players
      BY <1>5, <3>1, <3>2 DEF Typed, AllSessions
    <3>4. ~(sessions[q].match = m /\ PlayerOfSocket[q] = t)
      BY <1>2, <2>2, <3>2
    <3> QED BY <1>4, <3>1, <3>2, <3>3, <3>4
  <2> QED BY <2>1, <2>2
<1>6. ASSUME NEW n \in Matches, NEW u \in Players, stored'[n][u] # NoSession
      PROVE  stored'[n][u].match = n /\ stored'[n][u].token = u
  BY <1>4, <1>6 DEF SessionsFit
<1> QED BY <1>3, <1>4, <1>5, <1>6 DEF SessionsFit, OneSessionPerPlayer

-----------------------------------------------------------------------------
(* Every action keeps the invariant, and the seats of an agreed table      *)

LEMMA Distinct ==
  /\ \A x \in AllSessions : x # NoSession
  /\ \A x \in Joins \cup Starts : x # Idle
  /\ \A x \in Rooms : x # NoRoom
<1>1. \A x \in AllSessions : x # NoSession BY RoomAssumption DEF AllSessions, NoSession
<1>2. \A x \in Joins \cup Starts : x # Idle BY RoomAssumption DEF Joins, Starts, Idle
<1>3. ASSUME NEW mode \in Modes, NEW x \in RoomOf(mode) PROVE x # NoRoom
  BY DEF RoomOf, NoRoom
<1>4. \A x \in Rooms : x # NoRoom BY <1>3 DEF Rooms, Modes
<1> QED BY <1>1, <1>2, <1>4

LEMMA RoomsKeptTable ==
  ASSUME UNCHANGED rooms PROVE TableKept
BY DEF TableKept

\* A seated socket of an agreed match has its own entry.
LEMMA OwnEntry ==
  ASSUME IInv, NEW s \in Sockets, sessions[s] # NoSession,
         Agreed(sessions[s].match)
  PROVE  /\ rooms[sessions[s].match] # NoRoom
         /\ rooms[sessions[s].match].seats[sessions[s].seat].token # None
<1> DEFINE m == sessions[s].match
           t == PlayerOfSocket[s]
<1>1. /\ m \in Matches /\ t \in Players
      /\ stored[m][t] = sessions[s] /\ sessions[s].socket = s
  BY RoomAssumption DEF IInv, Typed, SessionsFit, OneSessionPerPlayer, AllSessions
<1>2. stored[m][t] # NoSession BY <1>1
<1>3. Agreed(m) OBVIOUS
<1>4. /\ rooms[m] # NoRoom
      /\ \/ rooms[m].seats[stored[m][t].seat].token = t
         \/ sessions[stored[m][t].socket] # stored[m][t]
  <2> HIDE DEF m, t
  <2> QED BY <1>1, <1>2, <1>3 DEF Agreed
<1>5. rooms[m].seats[sessions[s].seat].token = t BY <1>1, <1>4
<1>6. t # None BY <1>1, RoomAssumption
<1> QED BY <1>4, <1>5, <1>6

LEMMA CreateKeeps ==
  ASSUME IInv, NEW s \in Sockets, NEW m \in Matches, NEW k \in Kinds, Create(s, m, k)
  PROVE  IInv' /\ TableKept
<1>1. /\ k.kind \in JoinKinds /\ k.mode \in Modes
      /\ k.kind = "private" => k.mode = "2v2"
  BY RoomAssumption DEF Create, JoinKinds, Modes
<1> DEFINE room == NewRoom(k.mode, k.kind = "flexible")
           join == [match |-> m, kind |-> k.kind]
<1>2. room \in Rooms /\ room.mode = k.mode /\ room \in RoomOf(k.mode)
  BY <1>1, NewRoomType, ModeRooms
<1>3. join \in Joins /\ join # Idle /\ join.match = m /\ join.kind = k.kind
  BY <1>1, Distinct DEF Joins
<1>4. /\ \A n \in Matches : rooms'[n] = IF n = m THEN room ELSE rooms[n]
      /\ \A n \in Matches : hand'[n] = IF n = m THEN "none" ELSE hand[n]
      /\ \A q \in Sockets : joining'[q] = IF q = s THEN join ELSE joining[q]
      /\ UNCHANGED <<sessions, stored, gone, starting>>
      /\ hand[m] = "absent"
  BY DEF Create, IInv, Typed
<1>5. Typed'
  <2>1. rooms' \in [Matches -> Rooms \cup {NoRoom}] BY <1>2 DEF Create, IInv, Typed
  <2>2. hand' \in [Matches -> {"absent", "none", "live", "over"}] BY DEF Create, IInv, Typed
  <2>3. joining' \in [Sockets -> Joins \cup {Idle}] BY <1>3 DEF Create, IInv, Typed
  <2> QED BY <1>4, <2>1, <2>2, <2>3 DEF IInv, Typed
<1>6. SessionsFit' BY <1>4 DEF IInv, SessionsFit, OneSessionPerPlayer
<1>7. rooms[m] = NoRoom /\ \A t \in Players : stored[m][t] = NoSession
  BY <1>4 DEF IInv, RoomsFit
<1>8. RoomsFit'
  <2> HIDE DEF room, join
  <2>1. ASSUME NEW n \in Matches, hand'[n] = "absent"
        PROVE  rooms'[n] = NoRoom /\ \A t \in Players : stored'[n][t] = NoSession
    BY <1>4, <2>1 DEF IInv, RoomsFit
  <2>2. ASSUME NEW q \in Sockets, joining'[q] # Idle
        PROVE  /\ hand'[joining'[q].match] # "absent"
               /\ joining'[q].kind = "private" /\ rooms'[joining'[q].match] # NoRoom =>
                    rooms'[joining'[q].match].mode = "2v2"
    <3>1. CASE q = s BY <1>1, <1>2, <1>3, <1>4, <3>1
    <3>2. CASE q # s
      <4>1. /\ joining'[q] = joining[q] /\ joining[q] # Idle
            /\ joining[q].match \in Matches
        BY <1>4, <2>2, <3>2 DEF IInv, Typed, Joins
      <4>2. joining[q].match # m BY <1>4, <4>1 DEF IInv, RoomsFit
      <4> QED BY <1>4, <4>1, <4>2 DEF IInv, RoomsFit
    <3> QED BY <3>1, <3>2
  <2>3. ASSUME NEW n \in Matches, NEW t \in Players,
               rooms'[n] # NoRoom, stored'[n][t] # NoSession
        PROVE  stored'[n][t].seat \in DOMAIN rooms'[n].seats
    BY <1>4, <1>7, <2>3 DEF IInv, RoomsFit
  <2> QED BY <2>1, <2>2, <2>3 DEF RoomsFit
<1>9. TableKept BY <1>4, <1>7 DEF TableKept
<1> QED BY <1>5, <1>6, <1>8, <1>9 DEF IInv

LEMMA AskJoinKeeps ==
  ASSUME IInv, NEW s \in Sockets, NEW m \in Matches, AskJoin(s, m)
  PROVE  IInv' /\ TableKept
<1>1. PICK kind \in {"join", "flexible"} :
        joining' = [joining EXCEPT ![s] = [match |-> m, kind |-> kind]]
  BY DEF AskJoin
<1> DEFINE join == [match |-> m, kind |-> kind]
<1>2. join \in Joins /\ join.match = m /\ join.kind # "private"
  BY DEF Joins, JoinKinds
<1>3. /\ \A q \in Sockets : joining'[q] = IF q = s THEN join ELSE joining[q]
      /\ joining' \in [Sockets -> Joins \cup {Idle}]
      /\ UNCHANGED <<rooms, sessions, stored, hand, gone, starting>>
      /\ hand[m] # "absent"
  BY <1>1, <1>2 DEF AskJoin, IInv, Typed
<1>4. Typed' /\ SessionsFit' BY <1>3 DEF IInv, Typed, SessionsFit, OneSessionPerPlayer
<1>5. RoomsFit'
  <2> HIDE DEF join
  <2> QED BY <1>2, <1>3 DEF IInv, RoomsFit
<1> QED BY <1>3, <1>4, <1>5, RoomsKeptTable DEF IInv

\* The room a join works on: the match's, or the one ensureRoom makes anew.
RoomFor(m) == IF rooms[m] = NoRoom THEN NewRoom("2v2", FALSE) ELSE rooms[m]

LEMMA RoomForType ==
  ASSUME IInv, NEW m \in Matches
  PROVE  /\ RoomFor(m) \in Rooms
         /\ rooms[m] # NoRoom => RoomFor(m) = rooms[m]
         /\ rooms[m] = NoRoom => RoomFor(m).mode = "2v2"
<1>1. NewRoom("2v2", FALSE) \in Rooms /\ NewRoom("2v2", FALSE).mode = "2v2"
  BY NewRoomType, ModeRooms DEF Modes
<1> QED BY <1>1 DEF RoomFor, IInv, Typed

\* What a join that seats its player has in common, however it finds the seat:
\* "new" is the session and "r" the room it leaves behind.
LEMMA JoinedKeeps ==
  ASSUME IInv, NEW s \in Sockets, joining[s] # Idle,
         NEW m, m = joining[s].match,
         NEW t, t = PlayerOfSocket[s],
         NEW new \in AllSessions, new.match = m, new.token = t, new.socket = s,
         NEW r \in Rooms, r.mode = RoomFor(m).mode, new.seat \in DOMAIN r.seats,
         NEW old, old = stored[m][t],
         sessions' = IF old = NoSession THEN [sessions EXCEPT ![s] = new]
                     ELSE [sessions EXCEPT ![old.socket] = NoSession, ![s] = new],
         stored' = [stored EXCEPT ![m][t] = new],
         rooms' = [rooms EXCEPT ![m] = r],
         joining' = [joining EXCEPT ![s] = Idle],
         UNCHANGED <<hand, gone, starting>>
  PROVE  IInv'
<1>1. /\ m \in Matches /\ t \in Players /\ hand[m] # "absent" /\ new # NoSession
      /\ old # NoSession => old \in AllSessions /\ old.socket \in Sockets
  BY RoomAssumption, Distinct DEF IInv, Typed, RoomsFit, Joins, AllSessions
<1>2. /\ sessions' \in [Sockets -> AllSessions \cup {NoSession}]
      /\ sessions'[s] = new
      /\ \A q \in Sockets \ {s} :
           /\ sessions'[q] \in {NoSession, sessions[q]}
           /\ old # NoSession /\ q = old.socket => sessions'[q] = NoSession
  <2>1. CASE old = NoSession BY <2>1 DEF IInv, Typed
  <2>2. CASE old # NoSession BY <1>1, <2>2 DEF IInv, Typed
  <2> QED BY <2>1, <2>2
<1>3. /\ stored' \in [Matches -> [Players -> AllSessions \cup {NoSession}]]
      /\ \A n \in Matches, u \in Players :
           stored'[n][u] = IF n = m /\ u = t THEN new ELSE stored[n][u]
  BY <1>1 DEF IInv, Typed
<1>4. /\ rooms' \in [Matches -> Rooms \cup {NoRoom}]
      /\ \A n \in Matches : rooms'[n] = IF n = m THEN r ELSE rooms[n]
  BY <1>1 DEF IInv, Typed
<1>5. /\ joining' \in [Sockets -> Joins \cup {Idle}]
      /\ \A q \in Sockets : joining'[q] \in {Idle, joining[q]}
  BY DEF IInv, Typed
<1>6. Typed' BY <1>2, <1>3, <1>4, <1>5 DEF IInv, Typed
<1>7. SessionsFit'
  <2>1. ASSUME NEW q \in Sockets, sessions'[q] # NoSession
        PROVE  /\ sessions'[q].token = PlayerOfSocket[q] /\ sessions'[q].socket = q
               /\ stored'[sessions'[q].match][PlayerOfSocket[q]] = sessions'[q]
    <3>1. CASE q = s
      <4>1. sessions'[q] = new BY <1>2, <3>1
      <4>2. stored'[m][t] = new BY <1>1, <1>3
      <4>3. stored'[sessions'[q].match][PlayerOfSocket[q]] = stored'[m][t]
        BY <3>1, <4>1
      <4> QED BY <3>1, <4>1, <4>2, <4>3
    <3>2. CASE q # s
      <4>1. /\ sessions'[q] = sessions[q] /\ sessions[q] # NoSession
            /\ old # NoSession => q # old.socket
        BY <1>2, <2>1, <3>2
      <4>2. /\ sessions[q].token = PlayerOfSocket[q] /\ sessions[q].socket = q
            /\ stored[sessions[q].match][PlayerOfSocket[q]] = sessions[q]
            /\ sessions[q].match \in Matches /\ PlayerOfSocket[q] \in Players
        BY <4>1, RoomAssumption DEF IInv, Typed, SessionsFit, OneSessionPerPlayer, AllSessions
      <4>3. ~(sessions[q].match = m /\ PlayerOfSocket[q] = t) BY <4>1, <4>2
      <4>4. stored'[sessions[q].match][PlayerOfSocket[q]] =
              stored[sessions[q].match][PlayerOfSocket[q]]
        BY <1>3, <4>2, <4>3
      <4> QED BY <4>1, <4>2, <4>4
    <3> QED BY <3>1, <3>2
  <2>2. ASSUME NEW n \in Matches, NEW u \in Players, stored'[n][u] # NoSession
        PROVE  stored'[n][u].match = n /\ stored'[n][u].token = u
    BY <1>3, <2>2 DEF IInv, SessionsFit
  <2> QED BY <2>1, <2>2 DEF SessionsFit, OneSessionPerPlayer
<1>8. RoomsFit'
  <2>1. ASSUME NEW n \in Matches, rooms'[n] # NoRoom
        PROVE  \/ rooms'[n].mode = "2v2" /\ hand[n] # "absent"
               \/ rooms[n] # NoRoom /\ rooms'[n].mode = rooms[n].mode
    <3>1. CASE n = m BY <1>1, <1>4, <3>1, RoomForType
    <3>2. CASE n # m BY <1>4, <2>1, <3>2
    <3> QED BY <3>1, <3>2
  <2>2. ASSUME NEW n \in Matches, NEW u \in Players, stored'[n][u] # NoSession
        PROVE  \/ stored[n][u] # NoSession /\ stored'[n][u].seat = stored[n][u].seat
               \/ rooms'[n] # NoRoom /\ stored'[n][u].seat \in DOMAIN rooms'[n].seats
    <3>1. CASE n = m /\ u = t BY <1>3, <1>4, <3>1, Distinct
    <3>2. CASE ~(n = m /\ u = t) BY <1>3, <2>2, <3>2
    <3> QED BY <3>1, <3>2
  <2>3. \A n \in Matches : hand'[n] = "absent" => hand[n] = "absent" OBVIOUS
  <2> QED BY <1>5, <1>6, <2>1, <2>2, <2>3, FitKept DEF IInv
<1> QED BY <1>6, <1>7, <1>8 DEF IInv

LEMMA RejoinKeeps ==
  ASSUME IInv, NEW s \in Sockets, joining[s] # Idle,
         Rejoin(s, joining[s].match, joining[s].kind),
         joining' = [joining EXCEPT ![s] = Idle],
         UNCHANGED <<hand, gone, starting>>
  PROVE  IInv' /\ TableKept
<1> DEFINE m == joining[s].match
           kind == joining[s].kind
           t == PlayerOfSocket[s]
           old == stored[m][t]
           room == RoomFor(m)
           ready == room.begun \/ old.ready
           new == Resumed(old, s, ready)
           back == IF room.seats[old.seat] = Vacant THEN room
                   ELSE [room EXCEPT !.seats[old.seat] = Human(t, s, ready)]
<1>1. /\ m \in Matches /\ t \in Players
      /\ room \in Rooms /\ room.mode \in Modes /\ room \in RoomOf(room.mode)
  BY RoomAssumption, RoomForType, RoomTyped DEF IInv, Typed, Joins
<1>2. /\ old # NoSession
      /\ sessions' = [sessions EXCEPT ![old.socket] = NoSession, ![s] = new]
      /\ stored' = [stored EXCEPT ![m][t] = new]
      /\ \E r \in AfterJoin(kind, back) : rooms' = [rooms EXCEPT ![m] = r]
  BY DEF Rejoin, RoomFor, SessionsAfter
<1>3. /\ old \in AllSessions /\ old.match = m /\ old.token = t
      /\ old.seat \in DOMAIN room.seats
  <2>1. old \in AllSessions /\ old.match = m /\ old.token = t
    <3>1. old # NoSession BY <1>2
    <3> HIDE DEF m, t
    <3> QED BY <1>1, <3>1 DEF IInv, Typed, SessionsFit
  <2>2. CASE rooms[m] # NoRoom
    <3>1. room = rooms[m] BY <1>1, <2>2, RoomForType
    <3>2. old # NoSession BY <1>2
    <3>3. old.seat \in DOMAIN rooms[m].seats
      <4> HIDE DEF m, t
      <4> QED BY <1>1, <2>2, <3>2 DEF IInv, RoomsFit
    <3> HIDE DEF m, t, old, room
    <3> QED BY <2>1, <3>1, <3>3
  <2>3. CASE rooms[m] = NoRoom
    <3>1. room.mode = "2v2" BY <1>1, <2>3, RoomForType
    <3>2. DOMAIN room.seats = AllSeats BY <1>1, <3>1, RoomTyped, SeatsAreSeats
    <3> HIDE DEF old, room
    <3> QED BY <2>1, <3>2 DEF AllSessions
  <2> HIDE DEF old, room, m, t
  <2> QED BY <2>1, <2>2, <2>3
<1>4. ready \in BOOLEAN BY <1>1, <1>3 DEF RoomOf, AllSessions
<1>5. /\ new \in AllSessions /\ new.match = m /\ new.token = t
      /\ new.socket = s /\ new.seat = old.seat
  <2> HIDE DEF ready, old
  <2> QED BY <1>3, <1>4 DEF Resumed, AllSessions
<1>6. /\ back \in RoomOf(room.mode) /\ back.begun = room.begun
      /\ Occupied(room) \subseteq Occupied(back)
  <2> DEFINE e == Human(t, s, ready)
  <2>1. e \in SeatEntries /\ e # Vacant
    <3> HIDE DEF t, ready
    <3> QED BY <1>1, <1>4, EntryTypes, EntriesDiffer
  <2>2. ASSUME NEW x
        PROVE  /\ [room EXCEPT !.seats[x] = e] \in RoomOf(room.mode)
               /\ [room EXCEPT !.seats[x] = e].begun = room.begun
               /\ Occupied(room) \subseteq Occupied([room EXCEPT !.seats[x] = e])
    <3> DEFINE mode == room.mode
    <3>1. mode \in Modes /\ room \in RoomOf(mode) BY <1>1
    <3>2. x \in SeatsOf(mode) => e \in SeatEntries BY <2>1
    <3> HIDE DEF e, room, mode
    <3>3. /\ [room EXCEPT !.seats[x] = e] \in RoomOf(mode)
          /\ [room EXCEPT !.seats[x] = e].begun = room.begun
          /\ Occupied(room) \subseteq Occupied([room EXCEPT !.seats[x] = e])
      BY <2>1, <3>1, <3>2, SeatChanged
    <3> QED BY <3>3 DEF mode
  <2> HIDE DEF e
  <2>3. back = IF room.seats[old.seat] = Vacant THEN room
               ELSE [room EXCEPT !.seats[old.seat] = e] BY DEF e
  <2> QED BY <1>1, <2>2, <2>3
<1>7. kind = "private" => room.mode = "2v2" BY <1>1, RoomForType DEF IInv, RoomsFit
<1>8. PICK r \in AfterJoin(kind, back) : rooms' = [rooms EXCEPT ![m] = r] BY <1>2
<1>9. /\ r \in RoomOf(room.mode) /\ r \in Rooms /\ r.mode = room.mode
      /\ DOMAIN r.seats = DOMAIN room.seats
      /\ Occupied(room) \subseteq Occupied(r)
  <2> HIDE DEF back, room, kind
  <2>1. r \in RoomOf(room.mode) /\ Occupied(room) \subseteq Occupied(r)
    BY <1>1, <1>6, <1>7, <1>8, AfterJoinType
  <2> QED BY <1>1, <2>1, ModeRooms, RoomTyped
<1>10. IInv'
  <2> HIDE DEF new, old, m, t
  <2>1. m = joining[s].match /\ t = PlayerOfSocket[s] /\ old = stored[m][t]
    BY DEF m, t, old
  <2> QED BY <1>2, <1>3, <1>5, <1>8, <1>9, <2>1, JoinedKeeps
<1>11. TableKept
  <2>1. \A n \in Matches : rooms'[n] = IF n = m THEN r ELSE rooms[n]
    BY <1>8 DEF IInv, Typed
  <2>2. rooms[m] # NoRoom => room = rooms[m] BY <1>1, RoomForType
  <2> HIDE DEF room, m
  <2> QED BY <1>9, <2>1, <2>2 DEF TableKept
<1> QED BY <1>10, <1>11

\* A step that changes one room, if any, and only adds to the seats taken there.
LEMMA OneRoomKeeps ==
  ASSUME IInv, NEW m \in Matches, NEW r \in Rooms,
         rooms' = [rooms EXCEPT ![m] = r],
         rooms[m] # NoRoom /\ rooms[m].begun => Occupied(rooms[m]) \subseteq Occupied(r)
  PROVE  TableKept
<1>1. \A n \in Matches : rooms'[n] = IF n = m THEN r ELSE rooms[n] BY DEF IInv, Typed
<1> QED BY <1>1 DEF TableKept

LEMMA JoinAnewKeeps ==
  ASSUME IInv, NEW s \in Sockets, joining[s] # Idle,
         JoinAnew(s, joining[s].match, joining[s].kind),
         joining' = [joining EXCEPT ![s] = Idle],
         UNCHANGED <<hand, gone, starting>>
  PROVE  IInv' /\ TableKept
<1> DEFINE m == joining[s].match
           kind == joining[s].kind
           t == PlayerOfSocket[s]
           room == RoomFor(m)
           mode == room.mode
           seat == FreeSeat(room)
           new == Session(m, t, seat, FALSE, s)
           seated == [room EXCEPT !.seats[seat] = Human(t, s, FALSE), !.reserved = None]
<1>1. /\ m \in Matches /\ t \in Players
      /\ room \in Rooms /\ mode \in Modes /\ room \in RoomOf(mode)
      /\ hand[m] # "absent"
  BY RoomAssumption, RoomForType, RoomTyped DEF IInv, Typed, RoomsFit, Joins
<1>2. /\ stored[m][t] = NoSession
      /\ IF seat = None
         THEN /\ rooms' = [rooms EXCEPT ![m] = [room EXCEPT !.reserved = None]]
              /\ UNCHANGED <<sessions, stored>>
         ELSE /\ sessions' = [sessions EXCEPT ![s] = new]
              /\ stored' = [stored EXCEPT ![m][t] = new]
              /\ \E r \in AfterJoin(kind, seated) : rooms' = [rooms EXCEPT ![m] = r]
  BY DEF JoinAnew, RoomFor
<1>3. rooms[m] # NoRoom => room = rooms[m] BY <1>1, RoomForType
<1>4. CASE seat = None
  <2> DEFINE r == [room EXCEPT !.reserved = None]
  <2>1. r \in RoomOf(mode) /\ r.seats = room.seats
    <3> HIDE DEF room, mode
    <3> QED BY <1>1 DEF RoomOf
  <2>2. r \in Rooms /\ r.mode = mode
    <3> HIDE DEF r, mode
    <3> QED BY <1>1, <2>1, ModeRooms
  <2>3. Occupied(room) \subseteq Occupied(r) BY <2>1 DEF Occupied
  <2>4. rooms' = [rooms EXCEPT ![m] = r] /\ UNCHANGED <<sessions, stored>> BY <1>2, <1>4
  <2> HIDE DEF r, seat
  <2>5. TableKept
    <3> HIDE DEF room, m
    <3> QED BY <1>1, <1>3, <2>2, <2>3, <2>4, OneRoomKeeps
  <2>6. \A n \in Matches : rooms'[n] = IF n = m THEN r ELSE rooms[n]
    BY <2>4 DEF IInv, Typed
  <2>7. /\ joining' \in [Sockets -> Joins \cup {Idle}]
        /\ \A q \in Sockets : joining'[q] \in {Idle, joining[q]}
    BY DEF IInv, Typed
  <2>8. Typed'
    <3>1. rooms' \in [Matches -> Rooms \cup {NoRoom}] BY <2>2, <2>4 DEF IInv, Typed
    <3> QED BY <2>4, <2>7, <3>1 DEF IInv, Typed
  <2>9. SessionsFit' BY <2>4 DEF IInv, SessionsFit, OneSessionPerPlayer
  <2>10. ASSUME NEW n \in Matches, rooms'[n] # NoRoom
         PROVE  \/ rooms'[n].mode = "2v2" /\ hand[n] # "absent"
                \/ rooms[n] # NoRoom /\ rooms'[n].mode = rooms[n].mode
    <3>1. CASE n = m
      <4>1. rooms'[n] = r BY <2>6, <3>1
      <4> QED BY <1>1, <2>2, <3>1, <4>1, RoomForType
    <3>2. CASE n # m BY <2>6, <2>10, <3>2
    <3> QED BY <3>1, <3>2
  <2>11. RoomsFit'
    <3> HIDE DEF m, room
    <3> QED BY <2>4, <2>7, <2>8, <2>10, FitKept DEF IInv
  <2> QED BY <2>5, <2>8, <2>9, <2>11 DEF IInv
<1>5. CASE seat # None
  <2>1. seat \in SeatsOf(mode)
    <3> HIDE DEF room, mode
    <3>1. FreeSeat(room) \in (SeatsOf(mode) \ Humans(room)) \cup {None}
      BY <1>1, FreeSeatType
    <3> QED BY <1>5, <3>1
  <2> HIDE DEF seat
  <2>2. seat \in AllSeats BY <1>1, <2>1, SeatsAreSeats DEF Modes, AllSeats
  <2>3. new \in AllSessions /\ new.match = m /\ new.token = t
        /\ new.socket = s /\ new.seat = seat
    <3> HIDE DEF m, t
    <3> QED BY <1>1, <2>2 DEF Session, AllSessions
  <2>4. /\ seated \in RoomOf(mode) /\ Occupied(room) \subseteq Occupied(seated)
    <3> DEFINE e == Human(t, s, FALSE)
               placed == [room EXCEPT !.seats[seat] = e]
    <3>1. e \in SeatEntries /\ e # Vacant
      <4> HIDE DEF t
      <4> QED BY <1>1, EntryTypes, EntriesDiffer
    <3> HIDE DEF e, room, mode
    <3>2. placed \in RoomOf(mode) /\ Occupied(room) \subseteq Occupied(placed)
      BY <1>1, <3>1, SeatChanged
    <3>3. seated = [placed EXCEPT !.reserved = None] BY <1>1 DEF RoomOf, e
    <3> HIDE DEF placed, seated
    <3>4. seated \in RoomOf(mode) /\ seated.seats = placed.seats
      BY <3>2, <3>3 DEF RoomOf
    <3> QED BY <3>2, <3>4 DEF Occupied
  <2>5. kind = "private" => mode = "2v2" BY <1>1, RoomForType DEF IInv, RoomsFit
  <2>6. PICK r \in AfterJoin(kind, seated) : rooms' = [rooms EXCEPT ![m] = r]
    BY <1>2, <1>5
  <2>7. /\ r \in Rooms /\ r.mode = mode /\ DOMAIN r.seats = SeatsOf(mode)
        /\ Occupied(room) \subseteq Occupied(r)
    <3> HIDE DEF seated, room, mode, kind
    <3>1. r \in RoomOf(mode) /\ Occupied(room) \subseteq Occupied(r)
      BY <1>1, <2>4, <2>5, <2>6, AfterJoinType
    <3> QED BY <1>1, <3>1, ModeRooms, RoomTyped
  <2>8. IInv'
    <3> DEFINE old == stored[m][t]
    <3>1. /\ old = NoSession /\ sessions' = [sessions EXCEPT ![s] = new]
          /\ stored' = [stored EXCEPT ![m][t] = new]
      BY <1>2, <1>5
    <3>2. m = joining[s].match /\ t = PlayerOfSocket[s] /\ mode = RoomFor(m).mode
      OBVIOUS
    <3> HIDE DEF new, old, m, t, mode
    <3>3. old = stored[m][t] BY DEF old
    <3>4. new.seat \in DOMAIN r.seats BY <2>1, <2>3, <2>7
    <3> QED BY <2>3, <2>6, <2>7, <3>1, <3>2, <3>3, <3>4, JoinedKeeps
  <2>9. TableKept
    <3> HIDE DEF room, m
    <3> QED BY <1>1, <1>3, <2>6, <2>7, OneRoomKeeps
  <2> QED BY <2>8, <2>9
<1> QED BY <1>4, <1>5

LEMMA FinishJoinKeeps ==
  ASSUME IInv, NEW s \in Sockets, FinishJoin(s)
  PROVE  IInv' /\ TableKept
BY RejoinKeeps, JoinAnewKeeps DEF FinishJoin

LEMMA SelectSeatKeeps ==
  ASSUME IInv, NEW s \in Sockets, NEW x \in Moves, SelectSeat(s, x)
  PROVE  IInv' /\ TableKept
<1> DEFINE me == sessions[s]
           m == me.match
           room == rooms[m]
           mode == room.mode
           new == [me EXCEPT !.seat = x, !.ready = FALSE]
           seats == [y \in DOMAIN room.seats |->
                      IF y = x THEN Human(me.token, s, FALSE)
                      ELSE IF room.seats[y].socket = s THEN Vacant ELSE room.seats[y]]
           r == [room EXCEPT !.seats = seats, !.reserved = IF @ = x THEN None ELSE @]
<1>1. /\ me # NoSession /\ me \in AllSessions
      /\ m \in Matches /\ me.token \in Players
      /\ room # NoRoom /\ room \in Rooms /\ mode \in Modes
      /\ room \in RoomOf(mode) /\ x \in SeatsOf(mode)
      /\ ~room.begun
  <2>1. me # NoSession /\ me \in AllSessions BY DEF SelectSeat, Seated, IInv, Typed
  <2>2. m \in Matches /\ me.token \in Players BY <2>1 DEF AllSessions
  <2>3. room # NoRoom /\ room \in Rooms BY <2>2 DEF SelectSeat, IInv, Typed
  <2>4. mode \in Modes /\ room \in RoomOf(mode) /\ DOMAIN room.seats = SeatsOf(mode)
    BY <2>3, RoomTyped
  <2>5. x \in DOMAIN room.seats /\ ~room.begun BY DEF SelectSeat, MayTake
  <2> QED BY <2>1, <2>2, <2>3, <2>4, <2>5
<1>2. /\ rooms' = [rooms EXCEPT
              ![m].seats = [y \in DOMAIN @ |->
                 IF y = x THEN Human(me.token, s, FALSE)
                 ELSE IF @[y].socket = s THEN Vacant ELSE @[y]],
              ![m].reserved = IF @ = x THEN None ELSE @]
      /\ sessions' = [sessions EXCEPT ![s] = new]
      /\ stored' = [stored EXCEPT ![m][me.token] = new]
      /\ UNCHANGED <<hand, gone, joining, starting>>
  BY DEF SelectSeat
<1>3. rooms' = [rooms EXCEPT ![m] = r] BY <1>1, <1>2 DEF IInv, Typed, Rooms, RoomOf
<1>4. /\ new \in AllSessions /\ new.match = m /\ new.token = me.token
      /\ new.socket = s /\ new.seat = x /\ new # NoSession
  <2>1. x \in AllSeats BY <1>1, SeatsAreSeats DEF Modes, AllSeats
  <2>2. me.socket = s BY <1>1 DEF IInv, SessionsFit
  <2>3. new \in AllSessions
    <3> HIDE DEF me
    <3> QED BY <1>1, <2>1 DEF AllSessions
  <2>4. new.match = m /\ new.token = me.token /\ new.socket = s /\ new.seat = x
    <3> HIDE DEF me
    <3> QED BY <1>1, <2>2 DEF AllSessions
  <2> QED BY <2>3, <2>4, Distinct
<1>5. seats \in [SeatsOf(mode) -> SeatEntries]
  <2>1. room.seats \in [SeatsOf(mode) -> SeatEntries] BY <1>1, RoomTyped
  <2>2. Human(me.token, s, FALSE) \in SeatEntries /\ Vacant \in SeatEntries
    <3> HIDE DEF me
    <3> QED BY <1>1, EntryTypes
  <2> HIDE DEF me, room
  <2> QED BY <2>1, <2>2
<1>6. r \in RoomOf(mode) /\ r \in Rooms /\ r.mode = mode /\ r # NoRoom
  <2> HIDE DEF seats, room, mode
  <2>1. r \in RoomOf(mode) BY <1>1, <1>5 DEF RoomOf
  <2> HIDE DEF r
  <2> QED BY <1>1, <2>1, ModeRooms, Distinct
<1>7. /\ sessions' \in [Sockets -> AllSessions \cup {NoSession}]
      /\ stored' \in [Matches -> [Players -> AllSessions \cup {NoSession}]]
      /\ SessionsFit'
  <2> HIDE DEF new
  <2> QED BY <1>1, <1>2, <1>4, OwnSessionChanged DEF IInv
<1>8. /\ rooms' \in [Matches -> Rooms \cup {NoRoom}]
      /\ \A n \in Matches : rooms'[n] = IF n = m THEN r ELSE rooms[n]
  <2> HIDE DEF r
  <2> QED BY <1>1, <1>3, <1>6 DEF IInv, Typed
<1>9. Typed' BY <1>2, <1>7, <1>8 DEF IInv, Typed
<1>10. RoomsFit'
  <2> HIDE DEF r, room, new, mode
  <2>1. \A n \in Matches : rooms'[n] # NoRoom =>
          rooms[n] # NoRoom /\ rooms'[n].mode = rooms[n].mode
    BY <1>1, <1>6, <1>8 DEF room, mode
  <2>2. \A n \in Matches, u \in Players : stored'[n][u] # NoSession =>
          \/ stored[n][u] # NoSession /\ stored'[n][u].seat = stored[n][u].seat
          \/ rooms'[n] # NoRoom /\ stored'[n][u].seat \in DOMAIN rooms'[n].seats
    <3>1. \A n \in Matches, u \in Players :
            stored'[n][u] = IF n = m /\ u = me.token THEN new ELSE stored[n][u]
      BY <1>1, <1>2 DEF IInv, Typed
    <3>2. new.seat \in DOMAIN r.seats BY <1>1, <1>4, <1>6, RoomTyped
    <3> QED BY <1>6, <1>8, <3>1, <3>2
  <2> QED BY <1>2, <1>9, <2>1, <2>2, FitKept DEF IInv
<1>11. TableKept
  <2> HIDE DEF r, m
  <2> QED BY <1>1, <1>3, <1>6, OneRoomKeeps
<1> QED BY <1>7, <1>9, <1>10, <1>11 DEF IInv

\* What a request of a seated socket that stays in, or gives up, its seat has in
\* common: "b" becomes of its stored session, "a" of its own, "r" of the room.
LEMMA OwnStepKeeps ==
  ASSUME IInv, NEW s \in Sockets, sessions[s] # NoSession,
         NEW m, m = sessions[s].match,
         NEW b \in AllSessions \cup {NoSession},
         b # NoSession => /\ b.match = m /\ b.socket = s
                          /\ b.token = sessions[s].token /\ b.seat = sessions[s].seat,
         NEW a \in {b, NoSession},
         sessions' = [sessions EXCEPT ![s] = a],
         stored' = [stored EXCEPT ![m][sessions[s].token] = b],
         NEW r \in Rooms \cup {NoRoom},
         r # NoRoom => rooms[m] # NoRoom /\ r.mode = rooms[m].mode,
         rooms' = [rooms EXCEPT ![m] = r],
         gone' \subseteq Sockets, UNCHANGED <<hand, joining, starting>>
  PROVE  IInv'
<1> DEFINE t == sessions[s].token
<1>1. /\ m \in Matches /\ t \in Players
      /\ stored[m][t] = sessions[s]
  BY DEF IInv, Typed, SessionsFit, OneSessionPerPlayer, AllSessions
<1>2. /\ sessions' \in [Sockets -> AllSessions \cup {NoSession}]
      /\ stored' \in [Matches -> [Players -> AllSessions \cup {NoSession}]]
      /\ SessionsFit'
  BY OwnSessionChanged DEF IInv
<1>3. /\ rooms' \in [Matches -> Rooms \cup {NoRoom}]
      /\ \A n \in Matches : rooms'[n] = IF n = m THEN r ELSE rooms[n]
  BY <1>1 DEF IInv, Typed
<1>4. Typed' BY <1>2, <1>3 DEF IInv, Typed
<1>5. \A n \in Matches, u \in Players :
        stored'[n][u] = IF n = m /\ u = t THEN b ELSE stored[n][u]
  BY <1>1 DEF IInv, Typed
<1>6. RoomsFit'
  <2>1. \A n \in Matches : rooms'[n] # NoRoom =>
          rooms[n] # NoRoom /\ rooms'[n].mode = rooms[n].mode
    BY <1>3
  <2>2. \A n \in Matches, u \in Players : stored'[n][u] # NoSession =>
          stored[n][u] # NoSession /\ stored'[n][u].seat = stored[n][u].seat
    BY <1>1, <1>5
  <2> QED BY <1>4, <2>1, <2>2, FitKept DEF IInv
<1> QED BY <1>2, <1>4, <1>6 DEF IInv

\* Who sits where, of a seated socket's own session.
LEMMA OwnSession ==
  ASSUME IInv, NEW s \in Sockets, sessions[s] # NoSession
  PROVE  LET me == sessions[s]
         IN  /\ me \in AllSessions /\ me.socket = s
             /\ me.match \in Matches /\ me.token \in Players /\ me.seat \in AllSeats
             /\ rooms[me.match] \in Rooms \cup {NoRoom}
             /\ rooms[me.match] # NoRoom =>
                  /\ rooms[me.match].mode \in Modes
                  /\ rooms[me.match] \in RoomOf(rooms[me.match].mode)
                  /\ me.seat \in SeatsOf(rooms[me.match].mode)
<1>1. /\ sessions[s] \in AllSessions /\ sessions[s].socket = s
      /\ sessions[s].token = PlayerOfSocket[s]
      /\ stored[sessions[s].match][sessions[s].token] = sessions[s]
  BY DEF IInv, Typed, SessionsFit, OneSessionPerPlayer
<1>2. /\ sessions[s].match \in Matches /\ sessions[s].token \in Players
      /\ sessions[s].seat \in AllSeats
  BY <1>1 DEF AllSessions
<1> DEFINE room == rooms[sessions[s].match]
<1>3. room \in Rooms \cup {NoRoom} BY <1>2 DEF IInv, Typed
<1>4. room # NoRoom => sessions[s].seat \in DOMAIN room.seats
  BY <1>1, <1>2 DEF IInv, RoomsFit
<1> HIDE DEF room
<1>5. room # NoRoom => /\ room.mode \in Modes /\ room \in RoomOf(room.mode)
                       /\ sessions[s].seat \in SeatsOf(room.mode)
  BY <1>3, <1>4, RoomTyped
<1> QED BY <1>1, <1>2, <1>3, <1>5 DEF room

LEMMA SetReadyKeeps ==
  ASSUME IInv, NEW s \in Sockets, NEW ready \in BOOLEAN, SetReady(s, ready)
  PROVE  IInv' /\ TableKept
<1> DEFINE me == sessions[s]
           m == me.match
           room == rooms[m]
           mode == room.mode
           e == [room.seats[me.seat] EXCEPT !.ready = ready]
           new == [me EXCEPT !.ready = ready]
           r == IF room.seats[me.seat] = Vacant THEN room
                ELSE [room EXCEPT !.seats[me.seat] = e]
<1>1. /\ me # NoSession /\ room # NoRoom
      /\ rooms' = IF room.seats[me.seat] = Vacant THEN rooms
                  ELSE [rooms EXCEPT ![m].seats[me.seat].ready = ready]
      /\ sessions' = [sessions EXCEPT ![s] = new]
      /\ stored' = [stored EXCEPT ![m][me.token] = new]
      /\ UNCHANGED <<hand, gone, joining, starting>>
  BY DEF SetReady, Seated
<1>2. /\ me \in AllSessions /\ me.socket = s /\ m \in Matches
      /\ room \in Rooms /\ mode \in Modes /\ room \in RoomOf(mode)
      /\ me.seat \in SeatsOf(mode)
  BY <1>1, OwnSession
<1>3. rooms' = [rooms EXCEPT ![m] = r] BY <1>1, <1>2 DEF IInv, Typed
<1>4. /\ new \in AllSessions /\ new.match = m /\ new.token = me.token
      /\ new.socket = s /\ new.seat = me.seat
  <2> HIDE DEF me
  <2> QED BY <1>2 DEF AllSessions, m
<1>5. /\ r \in RoomOf(mode) /\ Occupied(room) \subseteq Occupied(r)
  <2>1. CASE room.seats[me.seat] = Vacant BY <1>2, <2>1
  <2>2. CASE room.seats[me.seat] # Vacant
    <3> HIDE DEF room, mode, me
    <3>1. room.seats[me.seat] \in SeatEntries BY <1>2 DEF RoomOf
    <3>2. e \in SeatEntries /\ e # Vacant BY <2>2, <3>1, EntryTypes
    <3> DEFINE x == me.seat
               changed == [room EXCEPT !.seats[x] = e]
    <3>3. r = changed BY <2>2
    <3> HIDE DEF e, x, r
    <3>4. changed \in RoomOf(mode) /\ Occupied(room) \subseteq Occupied(changed)
      BY <1>2, <3>2, SeatChanged
    <3> QED BY <3>3, <3>4
  <2> QED BY <2>1, <2>2
<1>6. r \in Rooms /\ r.mode = mode
  <2> HIDE DEF r, mode
  <2> QED BY <1>2, <1>5, ModeRooms
<1>7. UNCHANGED <<hand, joining, starting>> /\ gone' \subseteq Sockets
  BY <1>1 DEF IInv, Typed
<1>8. IInv'
  <2>1. m = sessions[s].match /\ sessions[s] # NoSession BY <1>1
  <2>2. /\ new \in AllSessions \cup {NoSession} /\ new \in {new, NoSession}
        /\ r \in Rooms \cup {NoRoom}
        /\ r # NoRoom => rooms[m] # NoRoom /\ r.mode = rooms[m].mode
        /\ new.token = sessions[s].token /\ new.seat = sessions[s].seat
    BY <1>1, <1>4, <1>6
  <2>3. /\ sessions' = [sessions EXCEPT ![s] = new]
        /\ stored' = [stored EXCEPT ![m][sessions[s].token] = new]
    BY <1>1
  <2> HIDE DEF r, new, m
  <2> QED BY <1>3, <1>4, <1>7, <2>1, <2>2, <2>3, OwnStepKeeps
<1>9. TableKept
  <2> HIDE DEF m
  <2> QED BY <1>2, <1>3, <1>5, <1>6, OneRoomKeeps
<1> QED BY <1>8, <1>9

LEMMA LeaveMatchKeeps ==
  ASSUME IInv, NEW s \in Sockets, LeaveMatch(s)
  PROVE  IInv' /\ TableKept
<1> DEFINE me == sessions[s]
           m == me.match
           room == rooms[m]
           r == IF room = NoRoom THEN room ELSE LeftBy(room, me.seat)
<1>1. /\ me # NoSession
      /\ rooms' = IF room = NoRoom THEN rooms
                  ELSE [rooms EXCEPT ![m] = LeftBy(@, me.seat)]
      /\ sessions' = [sessions EXCEPT ![s] = NoSession]
      /\ stored' = [stored EXCEPT ![m][me.token] = NoSession]
      /\ UNCHANGED <<hand, gone, joining, starting>>
  BY DEF LeaveMatch, Seated
<1>2. /\ m \in Matches /\ room \in Rooms \cup {NoRoom} /\ me.seat \in AllSeats
      /\ room # NoRoom => room.mode \in Modes /\ room \in RoomOf(room.mode)
  BY <1>1, OwnSession
<1>3. rooms' = [rooms EXCEPT ![m] = r] BY <1>1, <1>2 DEF IInv, Typed
<1>4. /\ r \in Rooms \cup {NoRoom}
      /\ r # NoRoom => /\ room # NoRoom /\ r.mode = room.mode
                       /\ room.begun => Occupied(room) \subseteq Occupied(r)
  <2>1. CASE room = NoRoom BY <2>1
  <2>2. CASE room # NoRoom
    <3> DEFINE mode == room.mode
               x == me.seat
    <3>1. mode \in Modes /\ room \in RoomOf(mode) /\ x \in AllSeats BY <1>2, <2>2
    <3>2. r = LeftBy(room, x) BY <2>2
    <3> HIDE DEF room, mode, x, r
    <3>3. /\ LeftBy(room, x) \in RoomOf(mode) \cup {NoRoom}
          /\ room.begun /\ LeftBy(room, x) # NoRoom =>
               Occupied(room) \subseteq Occupied(LeftBy(room, x))
      BY <3>1, LeftByType
    <3>4. r # NoRoom => r \in Rooms /\ r.mode = mode BY <3>1, <3>2, <3>3, ModeRooms
    <3> QED BY <2>2, <3>2, <3>3, <3>4 DEF mode
  <2> QED BY <2>1, <2>2
<1>5. UNCHANGED <<hand, joining, starting>> /\ gone' \subseteq Sockets
  BY <1>1 DEF IInv, Typed
<1> HIDE DEF r
<1>6. IInv' BY <1>1, <1>3, <1>4, <1>5, OwnStepKeeps
<1>7. TableKept
  <2>1. \A n \in Matches : rooms'[n] = IF n = m THEN r ELSE rooms[n]
    BY <1>2, <1>3 DEF IInv, Typed
  <2> QED BY <1>4, <2>1 DEF TableKept
<1> QED BY <1>6, <1>7

LEMMA DisconnectKeeps ==
  ASSUME IInv, NEW s \in Sockets, Disconnect(s)
  PROVE  IInv' /\ TableKept
<1> DEFINE me == sessions[s]
           m == me.match
           room == rooms[m]
           b == [me EXCEPT !.ready = FALSE]
           r == IF room = NoRoom THEN room ELSE DroppedBy(room, me.seat)
<1>1. gone' \subseteq Sockets /\ UNCHANGED <<hand, joining, starting>>
  BY DEF Disconnect, IInv, Typed
<1>2. CASE me = NoSession
  <2>1. UNCHANGED <<rooms, sessions, stored>> BY <1>2 DEF Disconnect
  <2>2. Typed' BY <1>1, <2>1 DEF IInv, Typed
  <2>3. SessionsFit' BY <2>1 DEF IInv, SessionsFit, OneSessionPerPlayer
  <2>4. RoomsFit' BY <1>1, <2>1 DEF IInv, RoomsFit
  <2> QED BY <2>1, <2>2, <2>3, <2>4, RoomsKeptTable DEF IInv
<1>3. CASE me # NoSession
  <2>1. /\ rooms' = IF room = NoRoom THEN rooms
                    ELSE [rooms EXCEPT ![m] = DroppedBy(@, me.seat)]
        /\ sessions' = [sessions EXCEPT ![s] = NoSession]
        /\ stored' = [stored EXCEPT ![m][me.token] = b]
    BY <1>3 DEF Disconnect
  <2>2. /\ m \in Matches /\ room \in Rooms \cup {NoRoom} /\ me.seat \in AllSeats
        /\ room # NoRoom => room.mode \in Modes /\ room \in RoomOf(room.mode)
        /\ me \in AllSessions /\ me.socket = s
    BY <1>3, OwnSession
  <2>3. rooms' = [rooms EXCEPT ![m] = r] BY <2>1, <2>2 DEF IInv, Typed
  <2>4. /\ b \in AllSessions /\ b.match = m /\ b.token = me.token
        /\ b.socket = s /\ b.seat = me.seat
    <3> HIDE DEF me
    <3> QED BY <2>2 DEF AllSessions, m
  <2>5. /\ r \in Rooms \cup {NoRoom}
        /\ r # NoRoom =>
             /\ room # NoRoom /\ r.mode = room.mode
             /\ room.begun /\ room.seats[me.seat].token # None =>
                  Occupied(room) \subseteq Occupied(r)
    <3>1. CASE room = NoRoom BY <3>1
    <3>2. CASE room # NoRoom
      <4> DEFINE mode == room.mode
                 x == me.seat
      <4>1. mode \in Modes /\ room \in RoomOf(mode) /\ x \in AllSeats BY <2>2, <3>2
      <4>2. r = DroppedBy(room, x) BY <3>2
      <4> HIDE DEF room, mode, x, r
      <4>3. /\ DroppedBy(room, x) \in RoomOf(mode)
            /\ room.begun /\ room.seats[x].token # None =>
                 Occupied(room) \subseteq Occupied(DroppedBy(room, x))
        BY <4>1, DroppedByType
      <4>4. r \in Rooms /\ r.mode = mode BY <4>1, <4>2, <4>3, ModeRooms
      <4> QED BY <3>2, <4>2, <4>3, <4>4 DEF mode, x
    <3> QED BY <3>1, <3>2
  <2>6. TableKept
    <3>1. \A n \in Matches : rooms'[n] = IF n = m THEN r ELSE rooms[n]
      <4> HIDE DEF r
      <4> QED BY <2>2, <2>3 DEF IInv, Typed
    <3>2. Agreed(m) /\ room # NoRoom => room.seats[me.seat].token # None
      BY <1>3, OwnEntry
    <3> HIDE DEF r
    <3> QED BY <2>5, <3>1, <3>2 DEF TableKept
  <2>7. IInv'
    <3>1. m = sessions[s].match /\ sessions[s] # NoSession BY <1>3
    <3>2. /\ b \in AllSessions \cup {NoSession} /\ NoSession \in {b, NoSession}
          /\ r # NoRoom => rooms[m] # NoRoom /\ r.mode = rooms[m].mode
          /\ b.token = sessions[s].token /\ b.seat = sessions[s].seat
      BY <2>4, <2>5
    <3>3. /\ sessions' = [sessions EXCEPT ![s] = NoSession]
          /\ stored' = [stored EXCEPT ![m][sessions[s].token] = b]
      BY <2>1
    <3> HIDE DEF r, b, m
    <3> QED BY <1>1, <2>3, <2>4, <2>5, <3>1, <3>2, <3>3, OwnStepKeeps
  <2> QED BY <2>6, <2>7
<1> QED BY <1>2, <1>3

\* What a step that touches no session has in common: "r" becomes of the room.
LEMMA TableStepKeeps ==
  ASSUME IInv, NEW m \in Matches, NEW r \in Rooms \cup {NoRoom},
         r # NoRoom => rooms[m] # NoRoom /\ r.mode = rooms[m].mode,
         rooms' = [rooms EXCEPT ![m] = r],
         r # NoRoom => Occupied(rooms[m]) \subseteq Occupied(r),
         hand' \in [Matches -> {"absent", "none", "live", "over"}],
         \A n \in Matches : hand'[n] = "absent" => hand[n] = "absent",
         starting' \in [Sockets -> Starts \cup {Idle}],
         UNCHANGED <<sessions, stored, gone, joining>>
  PROVE  IInv' /\ TableKept
<1>1. /\ rooms' \in [Matches -> Rooms \cup {NoRoom}]
      /\ \A n \in Matches : rooms'[n] = IF n = m THEN r ELSE rooms[n]
  BY DEF IInv, Typed
<1>2. Typed' BY <1>1 DEF IInv, Typed
<1>3. SessionsFit' BY DEF IInv, SessionsFit, OneSessionPerPlayer
<1>4. RoomsFit'
  <2>1. \A n \in Matches : rooms'[n] # NoRoom =>
          rooms[n] # NoRoom /\ rooms'[n].mode = rooms[n].mode
    BY <1>1
  <2> QED BY <1>2, <2>1, FitKept DEF IInv
<1>5. TableKept BY <1>1 DEF TableKept
<1> QED BY <1>2, <1>3, <1>4, <1>5 DEF IInv

\* The same, when not even the rooms change.
LEMMA StartStepKeeps ==
  ASSUME IInv,
         hand' \in [Matches -> {"absent", "none", "live", "over"}],
         \A n \in Matches : hand'[n] = "absent" => hand[n] = "absent",
         starting' \in [Sockets -> Starts \cup {Idle}],
         UNCHANGED <<rooms, sessions, stored, gone, joining>>
  PROVE  IInv' /\ TableKept
<1>1. Typed' BY DEF IInv, Typed
<1>2. SessionsFit' BY DEF IInv, SessionsFit, OneSessionPerPlayer
<1>3. RoomsFit' BY <1>1, FitKept DEF IInv
<1> QED BY <1>1, <1>2, <1>3, RoomsKeptTable DEF IInv

LEMMA StartsKept ==
  ASSUME IInv, NEW s \in Sockets, NEW c \in Starts \cup {Idle},
         starting' = [starting EXCEPT ![s] = c]
  PROVE  starting' \in [Sockets -> Starts \cup {Idle}]
BY DEF IInv, Typed

LEMMA StartOf ==
  ASSUME IInv, NEW s \in Sockets, starting[s] # Idle
  PROVE  /\ starting[s] \in Starts /\ starting[s].match \in Matches
         /\ \A step \in {"read", "locked", "saved", "begun"} :
              [starting[s] EXCEPT !.step = step] \in Starts
<1>1. starting[s] \in Starts BY DEF IInv, Typed
<1> QED BY <1>1 DEF Starts

LEMMA ReadForStartKeeps ==
  ASSUME IInv, NEW s \in Sockets, NEW auto \in BOOLEAN, ReadForStart(s, auto)
  PROVE  IInv' /\ TableKept
<1> DEFINE m == sessions[s].match
           c == [match |-> m, seen |-> hand[m], auto |-> auto, step |-> "read"]
<1>1. sessions[s] # NoSession /\ starting' = [starting EXCEPT ![s] = c]
  BY DEF ReadForStart, Seated
<1>2. /\ m \in Matches /\ sessions[s].token \in Players
      /\ stored[m][sessions[s].token] # NoSession
  BY <1>1, OwnSession DEF IInv, SessionsFit, OneSessionPerPlayer
<1>3. hand[m] \in {"none", "live", "over"}
  <2> HIDE DEF m
  <2> QED BY <1>2 DEF IInv, Typed, RoomsFit
<1>4. c \in Starts
  <2> HIDE DEF m
  <2> QED BY <1>2, <1>3 DEF Starts
<1>5. starting' \in [Sockets -> Starts \cup {Idle}]
  <2> HIDE DEF c
  <2> QED BY <1>1, <1>4, StartsKept
<1>6. UNCHANGED <<rooms, sessions, stored, hand, gone, joining>> BY DEF ReadForStart
<1> QED BY <1>5, <1>6, StartStepKeeps DEF IInv, Typed

LEMMA CheckStartKeeps ==
  ASSUME IInv, NEW s \in Sockets, CheckStart(s)
  PROVE  IInv' /\ TableKept
<1> DEFINE c == starting[s]
           m == c.match
           room == rooms[m]
<1>1. c # Idle /\ UNCHANGED <<sessions, stored, hand, gone, joining>> BY DEF CheckStart
<1>2. c \in Starts /\ m \in Matches /\ [c EXCEPT !.step = "locked"] \in Starts
  BY <1>1, StartOf
<1>3. PICK r \in {Filled(room), room} :
        /\ rooms' = [rooms EXCEPT ![m] = r]
        /\ room = NoRoom => r = room
        /\ \/ starting' = [starting EXCEPT ![s] = [c EXCEPT !.step = "locked"]]
           \/ starting' = [starting EXCEPT ![s] = Idle]
  BY DEF CheckStart
<1>4. starting' \in [Sockets -> Starts \cup {Idle}]
  <2> DEFINE next == [c EXCEPT !.step = "locked"]
  <2> HIDE DEF c, next
  <2>1. CASE starting' = [starting EXCEPT ![s] = next] BY <1>2, <2>1, StartsKept DEF next
  <2>2. CASE starting' = [starting EXCEPT ![s] = Idle] BY <2>2, StartsKept
  <2> QED BY <1>3, <2>1, <2>2 DEF next
<1>5. /\ r \in Rooms \cup {NoRoom}
      /\ r # NoRoom => /\ room # NoRoom /\ r.mode = room.mode
                       /\ Occupied(room) \subseteq Occupied(r)
  <2>1. CASE r = room BY <1>2, <2>1 DEF IInv, Typed
  <2>2. CASE room # NoRoom /\ r = Filled(room)
    <3> DEFINE mode == room.mode
    <3>1. room \in Rooms BY <1>2, <2>2 DEF IInv, Typed
    <3>2. mode \in Modes /\ room \in RoomOf(mode) BY <3>1, RoomTyped
    <3> HIDE DEF room, mode
    <3>3. r \in RoomOf(mode) /\ Occupied(room) \subseteq Occupied(r)
      BY <2>2, <3>2, FilledType
    <3>4. r \in Rooms /\ r.mode = mode BY <3>2, <3>3, ModeRooms
    <3> QED BY <2>2, <3>3, <3>4 DEF mode
  <2> QED BY <1>3, <2>1, <2>2
<1>6. /\ hand' \in [Matches -> {"absent", "none", "live", "over"}]
      /\ \A n \in Matches : hand'[n] = "absent" => hand[n] = "absent"
  BY <1>1 DEF IInv, Typed
<1> HIDE DEF m
<1> QED BY <1>1, <1>2, <1>3, <1>4, <1>5, <1>6, TableStepKeeps

LEMMA SaveStartKeeps ==
  ASSUME IInv, NEW s \in Sockets, SaveStart(s)
  PROVE  IInv' /\ TableKept
<1> DEFINE m == starting[s].match
           next == [starting[s] EXCEPT !.step = "saved"]
<1>1. /\ starting[s] # Idle /\ hand' = [hand EXCEPT ![m] = "live"]
      /\ starting' = [starting EXCEPT ![s] = next]
      /\ UNCHANGED <<rooms, sessions, stored, gone, joining>>
  BY DEF SaveStart, IInv, Typed
<1>2. m \in Matches /\ next \in Starts BY <1>1, StartOf
<1>3. starting' \in [Sockets -> Starts \cup {Idle}]
  <2> HIDE DEF next
  <2> QED BY <1>1, <1>2, StartsKept
<1>4. /\ hand' \in [Matches -> {"absent", "none", "live", "over"}]
      /\ \A n \in Matches : hand'[n] = "absent" => hand[n] = "absent"
  BY <1>1, <1>2 DEF IInv, Typed
<1> QED BY <1>1, <1>3, <1>4, StartStepKeeps

\* A room whose turn, or that it has begun, is set.
LEMMA TurnSet ==
  ASSUME IInv, NEW m \in Matches, rooms[m] # NoRoom,
         NEW begun \in BOOLEAN, NEW x \in SeatsOf(rooms[m].mode) \cup {None}
  PROVE  LET r == [rooms[m] EXCEPT !.begun = begun, !.turn = x]
         IN  /\ r \in Rooms /\ r.mode = rooms[m].mode
             /\ Occupied(rooms[m]) \subseteq Occupied(r)
<1> DEFINE room == rooms[m]
           mode == room.mode
           r == [room EXCEPT !.begun = begun, !.turn = x]
<1>1. room \in Rooms BY DEF IInv, Typed
<1>2. mode \in Modes /\ room \in RoomOf(mode) BY <1>1, RoomTyped
<1>3. x \in SeatsOf(mode) \cup {None} OBVIOUS
<1> HIDE DEF room, mode
<1>4. r \in RoomOf(mode) /\ r.seats = room.seats BY <1>2, <1>3 DEF RoomOf
<1>5. r \in Rooms /\ r.mode = mode
  <2> HIDE DEF r
  <2> QED BY <1>2, <1>4, ModeRooms
<1>6. Occupied(room) = Occupied(r) BY <1>4 DEF Occupied
<1> QED BY <1>5, <1>6 DEF room, mode

\* The seat of a room's turn, and those taken, are among its seats.
LEMMA TurnType ==
  ASSUME IInv, NEW m \in Matches, rooms[m] # NoRoom
  PROVE  /\ rooms[m].turn \in SeatsOf(rooms[m].mode) \cup {None}
         /\ rooms[m].begun \in BOOLEAN
         /\ Occupied(rooms[m]) \subseteq SeatsOf(rooms[m].mode)
<1> DEFINE room == rooms[m]
           mode == room.mode
<1>1. room \in Rooms BY DEF IInv, Typed
<1>2. mode \in Modes /\ room \in RoomOf(mode) BY <1>1, RoomTyped
<1> HIDE DEF room, mode
<1>3. /\ room.turn \in SeatsOf(mode) \cup {None} /\ room.begun \in BOOLEAN
      /\ Occupied(room) \subseteq SeatsOf(mode)
  BY <1>2 DEF RoomOf, Occupied
<1> QED BY <1>3 DEF room, mode

LEMMA BeginHandKeeps ==
  ASSUME IInv, NEW s \in Sockets, BeginHand(s)
  PROVE  IInv' /\ TableKept
<1> DEFINE c == starting[s]
           m == c.match
           room == rooms[m]
           next == [c EXCEPT !.step = "begun"]
<1>1. c # Idle /\ UNCHANGED <<sessions, stored, hand, gone, joining>> BY DEF BeginHand
<1>2. m \in Matches /\ next \in Starts BY <1>1, StartOf
<1>3. /\ hand' \in [Matches -> {"absent", "none", "live", "over"}]
      /\ \A n \in Matches : hand'[n] = "absent" => hand[n] = "absent"
  BY <1>1 DEF IInv, Typed
<1>4. CASE room = NoRoom
  <2>1. starting' = [starting EXCEPT ![s] = Idle] /\ UNCHANGED rooms
    BY <1>4 DEF BeginHand
  <2>2. starting' \in [Sockets -> Starts \cup {Idle}] BY <2>1, StartsKept
  <2> QED BY <1>1, <1>3, <2>1, <2>2, StartStepKeeps
<1>5. CASE room # NoRoom
  <2>1. PICK x \in Openers(c, room) :
          LET ok == x \in Occupied(room) \cup {None}
          IN  /\ rooms' = [rooms EXCEPT ![m].begun = TRUE,
                                        ![m].turn = IF ok THEN x ELSE @]
              /\ starting' = [starting EXCEPT ![s] = IF ok THEN next ELSE Idle]
    BY <1>5 DEF BeginHand
  <2> DEFINE y == IF x \in Occupied(room) \cup {None} THEN x ELSE room.turn
             r == [room EXCEPT !.begun = TRUE, !.turn = y]
  <2>2. y \in SeatsOf(room.mode) \cup {None} BY <1>2, <1>5, TurnType
  <2>3. rooms' = [rooms EXCEPT ![m] = r] BY <1>2, <2>1 DEF IInv, Typed, Rooms, RoomOf
  <2>4. starting' \in [Sockets -> Starts \cup {Idle}]
    <3>1. starting' = [starting EXCEPT ![s] = next] \/ starting' = [starting EXCEPT ![s] = Idle]
      BY <2>1
    <3> HIDE DEF next
    <3>2. CASE starting' = [starting EXCEPT ![s] = next] BY <1>2, <3>2, StartsKept
    <3>3. CASE starting' = [starting EXCEPT ![s] = Idle] BY <3>3, StartsKept
    <3> QED BY <3>1, <3>2, <3>3
  <2>5. /\ r \in Rooms /\ r.mode = room.mode /\ Occupied(room) \subseteq Occupied(r)
    <3> HIDE DEF y, m
    <3> QED BY <1>2, <1>5, <2>2, TurnSet
  <2> HIDE DEF r, m
  <2> QED BY <1>1, <1>2, <1>3, <1>5, <2>3, <2>4, <2>5, TableStepKeeps
<1> QED BY <1>4, <1>5

LEMMA EndStartKeeps ==
  ASSUME IInv, NEW s \in Sockets, EndStart(s)
  PROVE  IInv' /\ TableKept
<1>1. starting' = [starting EXCEPT ![s] = Idle] BY DEF EndStart
<1>2. starting' \in [Sockets -> Starts \cup {Idle}] BY <1>1, StartsKept
<1>3. UNCHANGED <<rooms, sessions, stored, hand, gone, joining>> BY DEF EndStart
<1> QED BY <1>2, <1>3, StartStepKeeps DEF IInv, Typed

\* A turn that moves, or is cleared, at a table that plays.
LEMMA TurnMoved ==
  ASSUME IInv, NEW m \in Matches, rooms[m] # NoRoom,
         NEW x \in SeatsOf(rooms[m].mode) \cup {None},
         rooms' = [rooms EXCEPT ![m].turn = x],
         hand' = hand \/ hand' = [hand EXCEPT ![m] = "over"],
         UNCHANGED <<sessions, stored, gone, joining, starting>>
  PROVE  IInv' /\ TableKept
<1> DEFINE room == rooms[m]
           r == [room EXCEPT !.begun = room.begun, !.turn = x]
<1>1. room \in Rooms BY DEF IInv, Typed
<1>2. room = [room EXCEPT !.begun = room.begun] BY <1>1 DEF Rooms, RoomOf
<1>3. rooms' = [rooms EXCEPT ![m] = r] BY <1>1 DEF IInv, Typed, Rooms, RoomOf
<1>4. /\ r \in Rooms /\ r.mode = room.mode /\ Occupied(room) \subseteq Occupied(r)
  BY TurnType, TurnSet
<1>5. /\ hand' \in [Matches -> {"absent", "none", "live", "over"}]
      /\ \A n \in Matches : hand'[n] = "absent" => hand[n] = "absent"
  BY DEF IInv, Typed
<1>6. starting' \in [Sockets -> Starts \cup {Idle}] BY DEF IInv, Typed
<1> HIDE DEF r
<1> QED BY <1>3, <1>4, <1>5, <1>6, TableStepKeeps

LEMMA PassTurnKeeps ==
  ASSUME IInv, NEW m \in Matches, PassTurn(m)
  PROVE  IInv' /\ TableKept
<1>1. rooms[m] # NoRoom BY DEF PassTurn, CanAct
<1>2. PICK x \in Occupied(rooms[m]) : rooms' = [rooms EXCEPT ![m].turn = x]
  BY DEF PassTurn
<1>3. x \in SeatsOf(rooms[m].mode) \cup {None} BY <1>1, <1>2, TurnType
<1>4. UNCHANGED <<sessions, stored, hand, gone, joining, starting>> BY DEF PassTurn
<1> QED BY <1>1, <1>2, <1>3, <1>4, TurnMoved

LEMMA EndHandKeeps ==
  ASSUME IInv, NEW m \in Matches, EndHand(m)
  PROVE  IInv' /\ TableKept
<1>1. /\ rooms[m] # NoRoom /\ hand' = [hand EXCEPT ![m] = "over"]
      /\ UNCHANGED <<sessions, stored, gone, joining, starting>>
  BY DEF EndHand
<1>2. PICK x \in {None, rooms[m].turn} : rooms' = [rooms EXCEPT ![m].turn = x]
  BY DEF EndHand
<1>3. x \in SeatsOf(rooms[m].mode) \cup {None} BY <1>1, <1>2, TurnType
<1> QED BY <1>1, <1>2, <1>3, TurnMoved

-----------------------------------------------------------------------------
(* Who a seat passes to, and how sessions and seats come apart             *)

\* A socket plays for its own player only, at a seat and in a session.
TokensFit ==
  /\ \A m \in Matches : rooms[m] # NoRoom =>
       \A x \in DOMAIN rooms[m].seats :
         rooms[m].seats[x].socket # None =>
           rooms[m].seats[x].token = PlayerOfSocket[rooms[m].seats[x].socket]
  /\ \A m \in Matches, t \in Players : stored[m][t] # NoSession =>
       PlayerOfSocket[stored[m][t].socket] = t

SInv == IInv /\ TokensFit

\* What SeatPassesOnlyToReturning and AgreementLostOnlyTo ask of one step.
SeatPassed ==
  \A m \in Matches : rooms[m] # NoRoom /\ rooms'[m] # NoRoom =>
    \A x \in Humans(rooms[m]) \cap Humans(rooms'[m]) :
      LET t == rooms[m].seats[x].token
          u == rooms'[m].seats[x].token
      IN  t # u => stored[m][u] # NoSession /\ stored[m][u].seat = x

AgreementKept ==
  \A m \in Matches : Agreed(m) /\ ~Agreed(m)' =>
    \/ rooms'[m] = NoRoom
    \/ \E t, u \in Players :
         /\ t # u /\ stored[m][t] # NoSession
         /\ rooms[m].seats[stored[m][t].seat].bot
         /\ rooms'[m].seats[stored[m][t].seat].token = u

SeatsKept == TokensFit' /\ SeatPassed /\ AgreementKept

\* Seats that only bots fill.
Fills(room, r) ==
  /\ DOMAIN r.seats = DOMAIN room.seats
  /\ \A x \in DOMAIN room.seats :
       \/ r.seats[x] = room.seats[x]
       \/ room.seats[x] = Vacant /\ r.seats[x] = Bot

LEMMA FilledFills ==
  ASSUME NEW mode \in Modes, NEW room \in RoomOf(mode)
  PROVE  Fills(room, Filled(room)) /\ Fills(room, room)
<1> DEFINE seats == [x \in DOMAIN room.seats |->
                      IF room.seats[x] = Vacant THEN Bot ELSE room.seats[x]]
<1>1. "seats" \in DOMAIN room BY DEF RoomOf
<1>2. Filled(room).seats = seats BY <1>1 DEF Filled
<1> QED BY <1>2 DEF Fills

LEMMA AfterJoinFills ==
  ASSUME NEW mode \in Modes, NEW room \in RoomOf(mode), NEW kind,
         NEW r \in AfterJoin(kind, room)
  PROVE  Fills(room, r)
<1>1. CASE r = room BY <1>1 DEF Fills
<1>2. CASE r = Filled(room) BY <1>2, FilledFills
<1>3. ASSUME NEW x, r = [room EXCEPT !.reserved = x] PROVE Fills(room, r)
  <2>1. r.seats = room.seats BY <1>3 DEF RoomOf
  <2> QED BY <2>1 DEF Fills
<1>4. r = room \/ r = Filled(room) \/ \E x : r = [room EXCEPT !.reserved = x]
  <2>1. CASE kind = "create" BY <2>1 DEF AfterJoin
  <2>2. CASE kind = "private" BY <2>2 DEF AfterJoin
  <2>3. CASE kind = "join" BY <2>3 DEF AfterJoin
  <2>4. CASE kind \notin {"create", "private", "join"} BY <2>4 DEF AfterJoin
  <2> QED BY <2>1, <2>2, <2>3, <2>4
<1> QED BY <1>1, <1>2, <1>3, <1>4

\* Where the entry "e" of a seat may come from: it is nobody's, it is the
\* seat's human's as before, or a socket's own that the seat may pass to.
EntryFrom(m, x, e) ==
  \/ e.token = None /\ e.socket = None
  \/ /\ rooms[m] # NoRoom /\ x \in DOMAIN rooms[m].seats
     /\ e.token = rooms[m].seats[x].token
     /\ e.socket \in {None, rooms[m].seats[x].socket}
  \/ /\ e.token = PlayerOfSocket[e.socket]
     /\ \/ rooms[m] = NoRoom
        \/ rooms[m].seats[x].token \in {None, e.token}
        \/ stored[m][e.token] # NoSession /\ stored[m][e.token].seat = x

LEMMA SeatStep ==
  ASSUME SInv, NEW m \in Matches, NEW r \in Rooms \cup {NoRoom},
         rooms' = [rooms EXCEPT ![m] = r],
         r # NoRoom => \A x \in DOMAIN r.seats : EntryFrom(m, x, r.seats[x]),
         \A n \in Matches, t \in Players : stored'[n][t] # NoSession =>
           PlayerOfSocket[stored'[n][t].socket] = t
  PROVE  TokensFit' /\ SeatPassed
<1>1. \A n \in Matches : rooms'[n] = IF n = m THEN r ELSE rooms[n]
  BY DEF SInv, IInv, Typed
<1>2. ASSUME NEW n \in Matches, rooms'[n] # NoRoom,
             NEW x \in DOMAIN rooms'[n].seats, rooms'[n].seats[x].socket # None
      PROVE  rooms'[n].seats[x].token = PlayerOfSocket[rooms'[n].seats[x].socket]
  <2>1. CASE n # m BY <1>1, <1>2, <2>1 DEF SInv, TokensFit
  <2>2. CASE n = m
    <3>1. rooms'[n] = r /\ EntryFrom(m, x, r.seats[x]) BY <1>1, <1>2, <2>2
    <3> DEFINE e == r.seats[x]
    <3>2. CASE e.token = None /\ e.socket = None BY <1>2, <3>1, <3>2
    <3>3. CASE /\ rooms[m] # NoRoom /\ x \in DOMAIN rooms[m].seats
               /\ e.token = rooms[m].seats[x].token
               /\ e.socket \in {None, rooms[m].seats[x].socket}
      BY <1>2, <3>1, <3>3 DEF SInv, TokensFit
    <3>4. CASE e.token = PlayerOfSocket[e.socket] BY <3>1, <3>4
    <3> QED BY <3>1, <3>2, <3>3, <3>4 DEF EntryFrom
  <2> QED BY <2>1, <2>2
<1>3. TokensFit' BY <1>2 DEF TokensFit
<1>4. ASSUME NEW n \in Matches, rooms[n] # NoRoom, rooms'[n] # NoRoom,
             NEW x \in Humans(rooms[n]) \cap Humans(rooms'[n]),
             rooms[n].seats[x].token # rooms'[n].seats[x].token
      PROVE  /\ stored[n][rooms'[n].seats[x].token] # NoSession
             /\ stored[n][rooms'[n].seats[x].token].seat = x
  <2>1. n = m /\ rooms'[n] = r BY <1>1, <1>4
  <2>2. /\ x \in DOMAIN r.seats /\ r.seats[x].token # None
        /\ rooms[n].seats[x].token # None
    BY <1>4, <2>1 DEF Humans
  <2>3. EntryFrom(m, x, r.seats[x]) BY <1>4, <2>1, <2>2
  <2> QED BY <1>4, <2>1, <2>2, <2>3 DEF EntryFrom
<1> QED BY <1>3, <1>4 DEF SeatPassed

\* Nothing changes for the sessions of the players of m, but perhaps those of
\* "t", which is seated where nobody else is.
AgreedButFor(m, t) ==
  /\ \A q \in Sockets : sessions'[q] # NoSession /\ sessions'[q].match = m
                          /\ sessions'[q] # sessions[q] => sessions'[q].token = t
  /\ \A u \in Players \ {t} : stored'[m][u] # NoSession =>
       /\ stored'[m][u] = stored[m][u] /\ rooms'[m] # NoRoom
       /\ LET e == rooms[m].seats[stored[m][u].seat]
              f == rooms'[m].seats[stored[m][u].seat]
          IN  f.token = e.token /\ f.bot = e.bot /\ f.socket = e.socket
  /\ t \in Players /\ stored'[m][t] # NoSession =>
       LET mine == stored'[m][t]
           f == rooms'[m].seats[mine.seat]
       IN  /\ rooms'[m] # NoRoom
           /\ f.token = t \/ (f.bot /\ sessions'[mine.socket] # mine)
           /\ sessions'[mine.socket] = mine => f.socket = mine.socket
           /\ \A u \in Players \ {t} : stored'[m][u] # NoSession =>
                                         stored'[m][u].seat # mine.seat

LEMMA AgreedStep ==
  ASSUME SInv, NEW m \in Matches, Agreed(m), NEW t, AgreedButFor(m, t)
  PROVE  Agreed(m)'
<1>1. ASSUME NEW u \in Players \ {t}, stored'[m][u] # NoSession
      PROVE  LET mine == stored'[m][u]
                 f == rooms'[m].seats[mine.seat]
             IN  /\ rooms'[m] # NoRoom
                 /\ f.token = u \/ (f.bot /\ sessions'[mine.socket] # mine)
                 /\ sessions'[mine.socket] = mine => f.socket = mine.socket
                 /\ \A v \in Players \ {u} : stored'[m][v] # NoSession =>
                                               stored'[m][v].seat # mine.seat
  <2> DEFINE mine == stored[m][u]
             e == rooms[m].seats[mine.seat]
             f == rooms'[m].seats[mine.seat]
  <2>1. /\ stored'[m][u] = mine /\ mine # NoSession /\ rooms'[m] # NoRoom
        /\ f.token = e.token /\ f.bot = e.bot /\ f.socket = e.socket
    BY <1>1 DEF AgreedButFor
  <2>2. /\ mine.match = m /\ mine.token = u /\ mine.socket \in Sockets
    <3>1. mine \in AllSessions
      <4>1. stored \in [Matches -> [Players -> AllSessions \cup {NoSession}]]
        BY DEF SInv, IInv, Typed
      <4>2. stored[m][u] \in AllSessions \cup {NoSession} BY <4>1
      <4> QED BY <2>1, <4>2
    <3>2. mine.match = m /\ mine.token = u BY <2>1 DEF SInv, IInv, SessionsFit
    <3> QED BY <3>1, <3>2 DEF AllSessions
  <2>3. sessions'[mine.socket] = mine => sessions[mine.socket] = mine
    <3> SUFFICES ASSUME sessions'[mine.socket] = mine, sessions[mine.socket] # mine
                 PROVE  FALSE
      OBVIOUS
    <3> DEFINE q == mine.socket
    <3>1. /\ q \in Sockets /\ sessions'[q] # NoSession /\ sessions'[q].match = m
          /\ sessions'[q] # sessions[q] /\ sessions'[q].token = u
      BY <2>1, <2>2 DEF AgreedButFor
    <3> HIDE DEF q, mine
    <3>2. \A p \in Sockets : sessions'[p] # NoSession /\ sessions'[p].match = m
             /\ sessions'[p] # sessions[p] => sessions'[p].token = t
      BY DEF AgreedButFor
    <3> QED BY ONLY <3>1, <3>2, u # t
  <2>4. /\ e.token = u \/ (e.bot /\ sessions[mine.socket] # mine)
        /\ sessions[mine.socket] = mine => e.socket = mine.socket
        /\ \A v \in Players \ {u} : stored[m][v] # NoSession =>
                                      stored[m][v].seat # mine.seat
    BY <2>1 DEF Agreed
  <2>5. ASSUME NEW v \in Players \ {u}, stored'[m][v] # NoSession
        PROVE  stored'[m][v].seat # mine.seat
    <3>1. CASE v = t
      <4>1. stored'[m][u].seat # stored'[m][t].seat BY <1>1, <2>5, <3>1 DEF AgreedButFor
      <4> QED BY <2>1, <3>1, <4>1
    <3>2. CASE v # t
      <4>1. stored'[m][v] = stored[m][v] BY <2>5, <3>2 DEF AgreedButFor
      <4>2. stored[m][v] # NoSession BY <2>5, <4>1
      <4> HIDE DEF mine
      <4> QED BY <2>4, <4>1, <4>2
    <3> QED BY <3>1, <3>2
  <2> HIDE DEF mine, e, f
  <2>6. f = rooms'[m].seats[stored'[m][u].seat] BY <2>1 DEF f
  <2> QED BY <2>1, <2>3, <2>4, <2>5, <2>6
<1> QED BY <1>1 DEF Agreed, AgreedButFor

\* A step about match m leaves the others, and their sessions, alone.
OnlyTouches(m) ==
  /\ \A n \in Matches \ {m} : rooms'[n] = rooms[n] /\ stored'[n] = stored[n]
  /\ \A q \in Sockets : \/ sessions'[q] \in {NoSession, sessions[q]}
                        \/ sessions'[q].match = m

\* What AgreementKept asks of match m.
AgreedStays(m) ==
  Agreed(m) /\ ~Agreed(m)' =>
    \/ rooms'[m] = NoRoom
    \/ \E t, u \in Players :
         /\ t # u /\ stored[m][t] # NoSession
         /\ rooms[m].seats[stored[m][t].seat].bot
         /\ rooms'[m].seats[stored[m][t].seat].token = u

LEMMA OthersAgreed ==
  ASSUME SInv, NEW m, OnlyTouches(m), NEW n \in Matches \ {m}, Agreed(n)
  PROVE  Agreed(n)'
<1>1. \A q \in Sockets : sessions'[q] # NoSession /\ sessions'[q].match = n
                           => sessions'[q] = sessions[q]
  BY DEF OnlyTouches
<1>2. \A u \in Players : stored'[n][u] # NoSession =>
        stored'[n][u] = stored[n][u] /\ rooms'[n] # NoRoom /\ rooms'[n] = rooms[n]
  BY DEF Agreed, OnlyTouches
<1>3. None \notin Players BY RoomAssumption
<1>4. AgreedButFor(n, None) BY <1>1, <1>2, <1>3 DEF AgreedButFor
<1> QED BY <1>4, AgreedStep

LEMMA OneMatchAgreed ==
  ASSUME SInv, NEW m \in Matches, OnlyTouches(m), AgreedStays(m)
  PROVE  AgreementKept
<1>1. ASSUME NEW n \in Matches \ {m}, Agreed(n) PROVE Agreed(n)'
  BY <1>1, OthersAgreed
<1> QED BY <1>1 DEF AgreementKept, AgreedStays

LEMMA SameKept ==
  ASSUME SInv, UNCHANGED <<rooms, sessions, stored>>
  PROVE  SeatsKept
<1>1. TokensFit' BY DEF SInv, TokensFit
<1>2. SeatPassed BY DEF SeatPassed
<1>3. \A m \in Matches : Agreed(m)' <=> Agreed(m) BY DEF Agreed
<1> QED BY <1>1, <1>2, <1>3 DEF SeatsKept, AgreementKept

\* The entry of an agreed session.
LEMMA AgreedEntry ==
  ASSUME SInv, NEW m \in Matches, Agreed(m), NEW u \in Players, stored[m][u] # NoSession
  PROVE  LET e == rooms[m].seats[stored[m][u].seat]
         IN  /\ rooms[m] # NoRoom /\ stored[m][u].seat \in DOMAIN rooms[m].seats
             /\ e # Vacant /\ (e.token = u \/ e.bot) /\ u # None
             /\ \A v \in Players \ {u} : stored[m][v] # NoSession =>
                                           stored[m][v].seat # stored[m][u].seat
<1> DEFINE x == stored[m][u].seat
           e == rooms[m].seats[x]
<1>1. /\ rooms[m] # NoRoom
      /\ e.token = u \/ e.bot
      /\ \A v \in Players \ {u} : stored[m][v] # NoSession => stored[m][v].seat # x
  BY DEF Agreed
<1>2. rooms[m] # NoRoom BY DEF Agreed
<1>3. x \in DOMAIN rooms[m].seats BY <1>2 DEF SInv, IInv, RoomsFit
<1>4. u # None BY RoomAssumption
<1> HIDE DEF e, x
<1>5. e # Vacant BY <1>1, <1>4, EntriesDiffer
<1> QED BY <1>1, <1>2, <1>3, <1>4, <1>5 DEF e, x

\* A step of the table alone, in which bots at most take free seats.
LEMMA FillKept ==
  ASSUME SInv, NEW m \in Matches, NEW r \in Rooms \cup {NoRoom},
         rooms' = [rooms EXCEPT ![m] = r],
         r # NoRoom => rooms[m] # NoRoom /\ Fills(rooms[m], r),
         UNCHANGED <<sessions, stored>>
  PROVE  SeatsKept
<1>1. \A n \in Matches : rooms'[n] = IF n = m THEN r ELSE rooms[n]
  BY DEF SInv, IInv, Typed
<1>2. ASSUME r # NoRoom, NEW x \in DOMAIN r.seats
      PROVE  EntryFrom(m, x, r.seats[x])
  <2>1. Bot.token = None /\ Bot.socket = None BY DEF Bot, Entry
  <2> QED BY <1>2, <2>1 DEF EntryFrom, Fills
<1>3. TokensFit' /\ SeatPassed
  BY <1>2, SeatStep DEF SInv, TokensFit
<1>4. ASSUME Agreed(m), r # NoRoom PROVE Agreed(m)'
  <2>1. None \notin Players BY RoomAssumption
  <2>2. ASSUME NEW u \in Players, stored'[m][u] # NoSession
        PROVE  /\ stored'[m][u] = stored[m][u] /\ rooms'[m] # NoRoom
               /\ rooms'[m].seats[stored[m][u].seat] = rooms[m].seats[stored[m][u].seat]
    <3>1. stored[m][u] # NoSession /\ stored'[m][u] = stored[m][u] BY <2>2
    <3>2. /\ stored[m][u].seat \in DOMAIN rooms[m].seats
          /\ rooms[m].seats[stored[m][u].seat] # Vacant
      BY <1>4, <3>1, AgreedEntry
    <3> QED BY <1>1, <1>4, <3>1, <3>2 DEF Fills
  <2>3. AgreedButFor(m, None) BY <2>1, <2>2 DEF AgreedButFor
  <2> QED BY <1>4, <2>3, AgreedStep
<1>5. AgreementKept
  <2>1. \A n \in Matches \ {m} : rooms'[n] = rooms[n] /\ stored'[n] = stored[n]
    BY <1>1
  <2>2. \A q \in Sockets : sessions'[q] \in {NoSession, sessions[q]} OBVIOUS
  <2>3. Agreed(m) /\ ~Agreed(m)' => rooms'[m] = NoRoom BY <1>1, <1>4
  <2> QED BY <2>1, <2>2, <2>3, OneMatchAgreed DEF OnlyTouches, AgreedStays
<1> QED BY <1>3, <1>5 DEF SeatsKept

LEMMA CreateSeats ==
  ASSUME SInv, NEW s \in Sockets, NEW m \in Matches, NEW k \in Kinds, Create(s, m, k)
  PROVE  SeatsKept
<1> DEFINE r == NewRoom(k.mode, k.kind = "flexible")
<1>1. k.mode \in Modes BY RoomAssumption DEF Modes
<1>2. r \in Rooms /\ \A x \in DOMAIN r.seats : r.seats[x] = Vacant
  <2>1. r \in Rooms BY <1>1, NewRoomType, ModeRooms
  <2> QED BY <2>1 DEF NewRoom
<1> HIDE DEF r
<1>3. /\ rooms' = [rooms EXCEPT ![m] = r] /\ hand[m] = "absent"
      /\ UNCHANGED <<sessions, stored>>
  BY DEF Create, r
<1>4. rooms[m] = NoRoom /\ \A t \in Players : stored[m][t] = NoSession
  BY <1>3 DEF SInv, IInv, RoomsFit
<1>5. Vacant.token = None /\ Vacant.socket = None BY DEF Vacant, Entry
<1>6. TokensFit' /\ SeatPassed
  BY <1>2, <1>3, <1>5, SeatStep DEF SInv, TokensFit, EntryFrom
<1>7. Agreed(m)' BY <1>3, <1>4 DEF Agreed
<1>8. \A n \in Matches \ {m} : rooms'[n] = rooms[n] /\ stored'[n] = stored[n]
  BY <1>3 DEF SInv, IInv, Typed
<1>9. AgreementKept BY <1>3, <1>7, <1>8, OneMatchAgreed DEF OnlyTouches, AgreedStays
<1> QED BY <1>6, <1>9 DEF SeatsKept

\* What a request of a seated socket that stays in, or gives up, its seat does:
\* "b" becomes of its stored session, "a" of its own, "r" of the room, where
\* only the seat's own entry may change.
OwnSeatStep(s, b, a, r) ==
  LET m == sessions[s].match
      t == sessions[s].token
      x == sessions[s].seat
      e == rooms[m].seats[x]
      f == r.seats[x]
  IN  /\ sessions[s] # NoSession
      /\ b \in AllSessions \cup {NoSession} /\ a \in {b, NoSession}
      /\ b # NoSession => b.match = m /\ b.socket = s /\ b.token = t /\ b.seat = x
      /\ sessions' = [sessions EXCEPT ![s] = a]
      /\ stored' = [stored EXCEPT ![m][t] = b]
      /\ r \in Rooms \cup {NoRoom}
      /\ rooms' = [rooms EXCEPT ![m] = r]
      /\ r # NoRoom =>
           /\ rooms[m] # NoRoom /\ DOMAIN r.seats = DOMAIN rooms[m].seats
           /\ \A y \in DOMAIN r.seats \ {x} : r.seats[y] = rooms[m].seats[y]
      /\ r # NoRoom => \/ f.token = None /\ f.socket = None
                       \/ f.token = e.token /\ f.socket \in {None, e.socket}
      /\ r # NoRoom /\ b # NoSession /\ e.token = t =>
           IF a = b THEN f.token = t /\ f.socket = e.socket ELSE f.token = t \/ f.bot

LEMMA OwnSeatKept ==
  ASSUME SInv, NEW s \in Sockets, NEW b, NEW a, NEW r, OwnSeatStep(s, b, a, r)
  PROVE  SeatsKept
<1>0. PICK m, x, t, e, f :
        /\ b # NoSession => b.match = m /\ b.socket = s /\ b.token = t /\ b.seat = x
        /\ sessions[s] # NoSession
        /\ b \in AllSessions \cup {NoSession} /\ a \in {b, NoSession}
        /\ sessions' = [sessions EXCEPT ![s] = a]
        /\ stored' = [stored EXCEPT ![m][t] = b]
        /\ r \in Rooms \cup {NoRoom} /\ rooms' = [rooms EXCEPT ![m] = r]
        /\ m = sessions[s].match /\ x = sessions[s].seat /\ t = sessions[s].token
        /\ e = rooms[m].seats[x] /\ f = r.seats[x]
        /\ r # NoRoom =>
             /\ rooms[m] # NoRoom /\ DOMAIN r.seats = DOMAIN rooms[m].seats
             /\ \A y \in DOMAIN r.seats \ {x} : r.seats[y] = rooms[m].seats[y]
        /\ r # NoRoom => \/ f.token = None /\ f.socket = None
                         \/ f.token = e.token /\ f.socket \in {None, e.socket}
        /\ r # NoRoom /\ b # NoSession /\ e.token = t =>
             IF a = b THEN f.token = t /\ f.socket = e.socket ELSE f.token = t \/ f.bot
  BY DEF OwnSeatStep
<1>1. /\ m \in Matches /\ t \in Players /\ t = PlayerOfSocket[s]
      /\ sessions[s] \in AllSessions /\ stored[m][t] = sessions[s]
      /\ sessions[s].socket = s
      /\ rooms[m] # NoRoom => x \in DOMAIN rooms[m].seats
  <2>1. /\ sessions[s] \in AllSessions /\ m \in Matches /\ t \in Players
        /\ sessions[s].socket = s
    BY <1>0, OwnSession DEF SInv
  <2>2. t = PlayerOfSocket[s] /\ stored[m][t] = sessions[s]
    BY <1>0 DEF SInv, IInv, SessionsFit, OneSessionPerPlayer
  <2>3. rooms[m] # NoRoom => x \in DOMAIN rooms[m].seats
    BY <1>0, <2>1, <2>2 DEF SInv, IInv, RoomsFit
  <2> QED BY <2>1, <2>2, <2>3
<1>2. \A n \in Matches : rooms'[n] = IF n = m THEN r ELSE rooms[n]
  BY <1>0, <1>1 DEF SInv, IInv, Typed
<1>3. \A q \in Sockets : sessions'[q] = IF q = s THEN a ELSE sessions[q]
  BY <1>0 DEF SInv, IInv, Typed
<1>4. /\ \A n \in Matches, u \in Players :
           stored'[n][u] = IF n = m /\ u = t THEN b ELSE stored[n][u]
      /\ \A n \in Matches \ {m} : stored'[n] = stored[n]
  <2>1. stored \in [Matches -> [Players -> AllSessions \cup {NoSession}]]
    BY DEF SInv, IInv, Typed
  <2>2. stored' = [stored EXCEPT ![m][t] = b] /\ m \in Matches /\ t \in Players
    BY <1>0, <1>1
  <2> QED BY ONLY <2>1, <2>2
<1>5. \A n \in Matches, u \in Players : stored'[n][u] # NoSession =>
        PlayerOfSocket[stored'[n][u].socket] = u
  <2>1. \A n \in Matches, u \in Players : stored[n][u] # NoSession =>
          PlayerOfSocket[stored[n][u].socket] = u
    BY DEF SInv, TokensFit
  <2>2. b # NoSession => b.socket = s BY <1>0
  <2>3. t = PlayerOfSocket[s] BY <1>1
  <2> QED BY ONLY <1>4, <2>1, <2>2, <2>3
<1>6. ASSUME r # NoRoom, NEW y \in DOMAIN r.seats PROVE EntryFrom(m, y, r.seats[y])
  <2>1. CASE y = x BY <1>0, <1>1, <1>6, <2>1 DEF EntryFrom
  <2>2. CASE y # x BY <1>0, <1>6, <2>2 DEF EntryFrom
  <2> QED BY <2>1, <2>2
<1>7. TokensFit' /\ SeatPassed BY <1>0, <1>1, <1>5, <1>6, SeatStep
<1>8. ASSUME Agreed(m), r # NoRoom PROVE Agreed(m)'
  <2>1. \A q \in Sockets : sessions'[q] # NoSession /\ sessions'[q].match = m
                             /\ sessions'[q] # sessions[q] => sessions'[q].token = t
    BY <1>0, <1>3
  <2>2. ASSUME NEW u \in Players \ {t}, stored'[m][u] # NoSession
        PROVE  /\ stored'[m][u] = stored[m][u] /\ rooms'[m] # NoRoom
               /\ rooms'[m].seats[stored[m][u].seat] = rooms[m].seats[stored[m][u].seat]
               /\ stored[m][u].seat # x
    <3>0. m \in Matches /\ u \in Players /\ u # t BY <1>1
    <3>1. stored'[m][u] = stored[m][u] /\ stored[m][u] # NoSession
      BY ONLY <1>4, <2>2, <3>0
    <3>2. stored[m][u].seat \in DOMAIN rooms[m].seats /\ rooms[m] # NoRoom
      BY ONLY <1>8, <3>0, <3>1, AgreedEntry, SInv
    <3>3. stored[m][u].seat # x
      <4>1. stored[m][t] # NoSession /\ stored[m][t].seat = x BY <1>0, <1>1
      <4>2. \A v \in Players \ {t} : stored[m][v] # NoSession => stored[m][v].seat # x
        BY ONLY <1>1, <1>8, <4>1, AgreedEntry, SInv
      <4> QED BY <3>1, <4>2
    <3>4. rooms'[m] = r /\ r.seats[stored[m][u].seat] = rooms[m].seats[stored[m][u].seat]
      <4>1. /\ DOMAIN r.seats = DOMAIN rooms[m].seats
            /\ \A y \in DOMAIN r.seats \ {x} : r.seats[y] = rooms[m].seats[y]
        BY <1>0, <1>8
      <4> QED BY ONLY <1>2, <3>0, <3>2, <3>3, <4>1
    <3> QED BY ONLY <1>8, <3>1, <3>3, <3>4
  <2>3. /\ e.token = t /\ e.socket = s
    <3>1. sessions[stored[m][t].socket] = stored[m][t] /\ stored[m][t] # NoSession
      <4>1. stored[m][t] = sessions[s] /\ sessions[s].socket = s /\ sessions[s] # NoSession
        BY <1>0, <1>1
      <4> QED BY ONLY <4>1
    <3>2. e = rooms[m].seats[stored[m][t].seat] BY <1>0, <1>1
    <3>3. t # None BY <1>1, RoomAssumption
    <3>4. Agreed(m) /\ t \in Players BY <1>1, <1>8
    <3>5. (e.token = t \/ (e.bot /\ sessions[stored[m][t].socket] # stored[m][t]))
          /\ (sessions[stored[m][t].socket] = stored[m][t] => e.socket = stored[m][t].socket)
      BY ONLY <3>1, <3>2, <3>4 DEF Agreed
    <3> QED BY ONLY <1>1, <3>1, <3>5
  <2>4. ASSUME stored'[m][t] # NoSession
        PROVE  LET mine == stored'[m][t]
                   g == rooms'[m].seats[mine.seat]
               IN  /\ rooms'[m] # NoRoom
                   /\ g.token = t \/ (g.bot /\ sessions'[mine.socket] # mine)
                   /\ sessions'[mine.socket] = mine => g.socket = mine.socket
                   /\ \A u \in Players \ {t} : stored'[m][u] # NoSession =>
                                                 stored'[m][u].seat # mine.seat
    <3>1. stored'[m][t] = b /\ b # NoSession /\ rooms'[m] = r
      <4>1. m \in Matches /\ t \in Players BY <1>1
      <4> QED BY ONLY <1>2, <1>4, <2>4, <4>1
    <3>2. b.seat = x /\ b.socket = s /\ sessions'[s] = a BY ONLY <1>0, <1>3, <3>1, s \in Sockets
    <3>3. \A u \in Players \ {t} : stored'[m][u] # NoSession => stored'[m][u].seat # x
      BY <2>2
    <3>4. IF a = b THEN f.token = t /\ f.socket = s ELSE f.token = t \/ f.bot
      BY <1>0, <1>8, <2>3, <3>1
    <3>5. f = r.seats[x] /\ a \in {b, NoSession} BY <1>0
    <3> QED BY ONLY <1>8, <3>1, <3>2, <3>3, <3>4, <3>5
  <2>5. m \in Matches /\ t \in Players /\ Agreed(m) BY <1>1, <1>8
  <2>6. \A u \in Players \ {t} : stored'[m][u] # NoSession =>
           /\ stored'[m][u] = stored[m][u] /\ rooms'[m] # NoRoom
           /\ LET g == rooms[m].seats[stored[m][u].seat]
                  h == rooms'[m].seats[stored[m][u].seat]
              IN  h.token = g.token /\ h.bot = g.bot /\ h.socket = g.socket
    <3>1. ASSUME NEW u \in Players \ {t}, stored'[m][u] # NoSession
          PROVE  /\ stored'[m][u] = stored[m][u] /\ rooms'[m] # NoRoom
                 /\ rooms'[m].seats[stored[m][u].seat] = rooms[m].seats[stored[m][u].seat]
      BY <2>2, <3>1
    <3> QED BY <3>1
  <2>7. t \in Players /\ stored'[m][t] # NoSession =>
           LET mine == stored'[m][t]
               g == rooms'[m].seats[mine.seat]
           IN  /\ rooms'[m] # NoRoom
               /\ g.token = t \/ (g.bot /\ sessions'[mine.socket] # mine)
               /\ sessions'[mine.socket] = mine => g.socket = mine.socket
               /\ \A u \in Players \ {t} : stored'[m][u] # NoSession =>
                                             stored'[m][u].seat # mine.seat
    BY <2>4
  <2>8. AgreedButFor(m, t) BY ONLY <2>1, <2>6, <2>7 DEF AgreedButFor
  <2> HIDE DEF OwnSeatStep
  <2> QED BY ONLY <1>8, <2>5, <2>8, AgreedStep, SInv
<1>9. AgreementKept
  <2>1. \A n \in Matches \ {m} : rooms'[n] = rooms[n] /\ stored'[n] = stored[n]
    BY <1>2, <1>4
  <2>2. \A q \in Sockets : sessions'[q] \in {NoSession, sessions[q]} \/ sessions'[q].match = m
    BY ONLY <1>0, <1>3
  <2>3. Agreed(m) /\ ~Agreed(m)' => rooms'[m] = NoRoom BY <1>1, <1>2, <1>8
  <2>4. m \in Matches BY <1>1
  <2>5. OnlyTouches(m) BY ONLY <2>1, <2>2 DEF OnlyTouches
  <2>6. AgreedStays(m) BY ONLY <2>3 DEF AgreedStays
  <2> QED BY ONLY <2>4, <2>5, <2>6, OneMatchAgreed, SInv
<1> QED BY <1>7, <1>9 DEF SeatsKept

LEMMA LeftByEntries ==
  ASSUME NEW mode \in Modes, NEW room \in RoomOf(mode), NEW x, NEW r,
         r = LeftBy(room, x), r # NoRoom
  PROVE  /\ DOMAIN r.seats = DOMAIN room.seats
         /\ \A y \in DOMAIN room.seats \ {x} : r.seats[y] = room.seats[y]
         /\ x \in DOMAIN room.seats => r.seats[x] \in {Vacant, Bot, room.seats[x]}
<1> DEFINE e == IF room.seats[x].token # None THEN Bot ELSE room.seats[x]
           live == [room EXCEPT !.seats[x] = e]
           lobby == [room EXCEPT !.seats[x] = Vacant,
                                 !.turn = IF @ = x THEN None ELSE @]
           without == IF room.begun THEN live ELSE lobby
           left == [without EXCEPT !.reserved = IF @ = x THEN None ELSE @]
<1>1. "seats" \in DOMAIN room /\ room.seats \in [SeatsOf(mode) -> SeatEntries]
  BY DEF RoomOf
<1>2. LeftBy(room, x) = IF Humans(without) = {} THEN NoRoom ELSE left BY DEF LeftBy
<1>3. r = left BY <1>2
<1>4. live.seats = [room.seats EXCEPT ![x] = e] /\ "seats" \in DOMAIN live
  BY <1>1
<1>5. lobby.seats = [room.seats EXCEPT ![x] = Vacant] /\ "seats" \in DOMAIN lobby
  BY <1>1
<1>6. left.seats = without.seats
  <2>1. "seats" \in DOMAIN without BY <1>4, <1>5
  <2> HIDE DEF without
  <2> QED BY <2>1
<1>7. r.seats = [room.seats EXCEPT ![x] = e] \/ r.seats = [room.seats EXCEPT ![x] = Vacant]
  BY <1>3, <1>4, <1>5, <1>6
<1>8. e \in {Bot, room.seats[x]} OBVIOUS
<1> HIDE DEF e
<1> QED BY <1>1, <1>7, <1>8

LEMMA DroppedByEntries ==
  ASSUME NEW mode \in Modes, NEW room \in RoomOf(mode), NEW x
  PROVE  LET r == DroppedBy(room, x)
         IN  /\ DOMAIN r.seats = DOMAIN room.seats
             /\ \A y \in DOMAIN room.seats \ {x} : r.seats[y] = room.seats[y]
             /\ x \in DOMAIN room.seats =>
                  \/ /\ r.seats[x] = Vacant
                     /\ room.seats[x].bot \/ room.seats[x] = Vacant
                  \/ r.seats[x] = Bot
                  \/ r.seats[x] = Human(room.seats[x].token, None, FALSE)
<1> DEFINE r == DroppedBy(room, x)
<1> DEFINE e == room.seats[x]
           f == IF e.bot \/ e = Vacant THEN Vacant
                ELSE IF room.begun THEN Bot ELSE Human(e.token, None, FALSE)
<1>1. "seats" \in DOMAIN room /\ room.seats \in [SeatsOf(mode) -> SeatEntries]
  BY DEF RoomOf
<1>2. r.seats = [room.seats EXCEPT ![x] = f] BY <1>1 DEF DroppedBy
<1>3. \/ f = Vacant /\ (e.bot \/ e = Vacant)
      \/ f = Bot \/ f = Human(e.token, None, FALSE)
  OBVIOUS
<1> HIDE DEF f, r
<1>4. r = DroppedBy(room, x) BY DEF r
<1> QED BY <1>1, <1>2, <1>3, <1>4

LEMMA SetReadySeats ==
  ASSUME SInv, NEW s \in Sockets, NEW ready \in BOOLEAN, SetReady(s, ready)
  PROVE  SeatsKept
<1> DEFINE me == sessions[s]
           m == me.match
           x == me.seat
           t == me.token
           room == rooms[m]
           e == room.seats[x]
           new == [me EXCEPT !.ready = ready]
           r == IF e = Vacant THEN room ELSE [room EXCEPT !.seats[x].ready = ready]
           f == r.seats[x]
<1>1. /\ me # NoSession /\ room # NoRoom
      /\ rooms' = IF e = Vacant THEN rooms ELSE [rooms EXCEPT ![m].seats[x].ready = ready]
      /\ sessions' = [sessions EXCEPT ![s] = new]
      /\ stored' = [stored EXCEPT ![m][t] = new]
  BY DEF SetReady, Seated
<1>2. /\ me \in AllSessions /\ me.socket = s /\ m \in Matches
      /\ room \in Rooms /\ room.mode \in Modes /\ room \in RoomOf(room.mode)
      /\ x \in SeatsOf(room.mode)
  BY <1>1, OwnSession DEF SInv
<1>3. rooms' = [rooms EXCEPT ![m] = r] BY <1>1, <1>2 DEF SInv, IInv, Typed
<1>4. /\ new \in AllSessions /\ new.match = m /\ new.token = t
      /\ new.socket = s /\ new.seat = x
  <2> HIDE DEF me
  <2> QED BY <1>2 DEF AllSessions, m, t, x
<1>5. /\ r \in Rooms /\ DOMAIN r.seats = DOMAIN room.seats
      /\ \A y \in DOMAIN r.seats \ {x} : r.seats[y] = room.seats[y]
      /\ f.token = e.token /\ f.socket = e.socket
  <2>1. CASE e = Vacant BY <1>2, <2>1
  <2>2. CASE e # Vacant
    <3> DEFINE mode == room.mode
               g == [e EXCEPT !.ready = ready]
    <3>1. /\ mode \in Modes /\ room \in RoomOf(mode) /\ x \in SeatsOf(mode)
          /\ room.seats \in [SeatsOf(mode) -> SeatEntries]
      BY <1>2, RoomTyped
    <3>2. r = [room EXCEPT !.seats[x] = g] BY <2>2
    <3>3. e \in SeatEntries BY <3>1
    <3>4. g \in SeatEntries /\ g.token = e.token /\ g.socket = e.socket
      <4> HIDE DEF e
      <4>1. g \in SeatEntries BY <2>2, <3>3, EntryTypes
      <4>2. "token" \in DOMAIN e /\ "socket" \in DOMAIN e
        BY <3>3 DEF SeatEntries, Vacant, Entry
      <4>3. g.token = e.token /\ g.socket = e.socket BY <4>2
      <4> QED BY <4>1, <4>3
    <3> HIDE DEF g, x, mode, room, r
    <3>5. r \in RoomOf(mode) BY <3>1, <3>2, <3>4, SeatChanged
    <3>6. r.seats = [room.seats EXCEPT ![x] = g] BY <3>1, <3>2 DEF RoomOf
    <3>7. r \in Rooms BY <3>1, <3>5, ModeRooms
    <3> QED BY <3>1, <3>4, <3>6, <3>7 DEF f
  <2> QED BY <2>1, <2>2
<1> HIDE DEF e, f, r, new, room, m, x, t
<1>6. /\ m = sessions[s].match /\ x = sessions[s].seat /\ t = sessions[s].token
      /\ e = rooms[m].seats[x] /\ f = r.seats[x] /\ sessions[s] # NoSession
      /\ rooms[m] # NoRoom /\ DOMAIN r.seats = DOMAIN rooms[m].seats
      /\ \A y \in DOMAIN r.seats \ {x} : r.seats[y] = rooms[m].seats[y]
  BY <1>1, <1>5 DEF m, x, t, e, f, room
<1>7. /\ new \in AllSessions \cup {NoSession} /\ new \in {new, NoSession}
      /\ r \in Rooms \cup {NoRoom}
  BY <1>4, <1>5
<1>9. sessions' = [sessions EXCEPT ![s] = new] /\ stored' = [stored EXCEPT ![m][t] = new]
  BY <1>1
<1>8. OwnSeatStep(s, new, new, r)
  BY ONLY <1>3, <1>4, <1>5, <1>6, <1>7, <1>9 DEF OwnSeatStep
<1> QED BY <1>8, OwnSeatKept

LEMMA LeaveMatchSeats ==
  ASSUME SInv, NEW s \in Sockets, LeaveMatch(s)
  PROVE  SeatsKept
<1>1. PICK me, m, x, room, r :
        /\ me = sessions[s] /\ m = me.match /\ x = me.seat /\ room = rooms[m]
        /\ r = IF room = NoRoom THEN NoRoom ELSE LeftBy(room, x)
  OBVIOUS
<1>2. /\ me # NoSession
      /\ sessions' = [sessions EXCEPT ![s] = NoSession]
      /\ stored' = [stored EXCEPT ![m][me.token] = NoSession]
      /\ rooms' = IF room = NoRoom THEN rooms ELSE [rooms EXCEPT ![m] = LeftBy(@, x)]
  BY <1>1 DEF LeaveMatch, Seated
<1>3. /\ m \in Matches /\ x \in AllSeats /\ room \in Rooms \cup {NoRoom}
      /\ room # NoRoom => room.mode \in Modes /\ room \in RoomOf(room.mode)
  BY <1>1, <1>2, OwnSession DEF SInv
<1>4. rooms' = [rooms EXCEPT ![m] = r]
  BY <1>1, <1>2, <1>3 DEF SInv, IInv, Typed
<1>5. r \in Rooms \cup {NoRoom}
  <2>1. room # NoRoom => r \in RoomOf(room.mode) \cup {NoRoom}
    BY <1>1, <1>3, LeftByType
  <2> QED BY <1>1, <1>3, <2>1, ModeRooms
<1>6. r # NoRoom =>
        /\ room # NoRoom /\ DOMAIN r.seats = DOMAIN room.seats
        /\ \A y \in DOMAIN r.seats \ {x} : r.seats[y] = room.seats[y]
        /\ x \in DOMAIN room.seats => r.seats[x] \in {Vacant, Bot, room.seats[x]}
  BY <1>1, <1>3, LeftByEntries
<1>7. room # NoRoom => x \in DOMAIN room.seats
  BY <1>1, <1>2, <1>3, OwnSession, RoomTyped DEF SInv
<1>8. r # NoRoom =>
        \/ r.seats[x].token = None /\ r.seats[x].socket = None
        \/ /\ r.seats[x].token = room.seats[x].token
           /\ r.seats[x].socket \in {None, room.seats[x].socket}
  BY <1>6, <1>7 DEF Vacant, Bot, Entry
<1>9. OwnSeatStep(s, NoSession, NoSession, r)
  BY ONLY <1>1, <1>2, <1>4, <1>5, <1>6, <1>8 DEF OwnSeatStep
<1> QED BY <1>9, OwnSeatKept

LEMMA DisconnectSeats ==
  ASSUME SInv, NEW s \in Sockets, Disconnect(s)
  PROVE  SeatsKept
<1>1. PICK me, m, x, room, r, b :
        /\ me = sessions[s] /\ m = me.match /\ x = me.seat /\ room = rooms[m]
        /\ r = IF room = NoRoom THEN NoRoom ELSE DroppedBy(room, x)
        /\ b = [me EXCEPT !.ready = FALSE]
  OBVIOUS
<1>2. CASE me = NoSession
  BY <1>1, <1>2, SameKept DEF Disconnect
<1>3. CASE me # NoSession
  <2>1. /\ sessions' = [sessions EXCEPT ![s] = NoSession]
        /\ stored' = [stored EXCEPT ![m][me.token] = b]
        /\ rooms' = IF room = NoRoom THEN rooms ELSE [rooms EXCEPT ![m] = DroppedBy(@, x)]
    BY <1>1, <1>3 DEF Disconnect
  <2>2. /\ me \in AllSessions /\ me.socket = s
        /\ m \in Matches /\ x \in AllSeats /\ room \in Rooms \cup {NoRoom}
        /\ room # NoRoom => /\ room.mode \in Modes /\ room \in RoomOf(room.mode)
                            /\ x \in DOMAIN room.seats
    BY <1>1, <1>3, OwnSession, RoomTyped DEF SInv
  <2>3. rooms' = [rooms EXCEPT ![m] = r]
    BY <1>1, <2>1, <2>2 DEF SInv, IInv, Typed
  <2>4. r \in Rooms \cup {NoRoom}
    <3>1. room # NoRoom => r \in RoomOf(room.mode)
      BY <1>1, <2>2, DroppedByType
    <3> QED BY <1>1, <2>2, <3>1, ModeRooms
  <2>5. b \in AllSessions /\ b.match = m /\ b.socket = s /\ b.token = me.token /\ b.seat = x
    BY <1>1, <2>2 DEF AllSessions
  <2>6. r # NoRoom =>
          /\ room # NoRoom /\ DOMAIN r.seats = DOMAIN room.seats
          /\ \A y \in DOMAIN r.seats \ {x} : r.seats[y] = room.seats[y]
          /\ \/ /\ r.seats[x] = Vacant
                /\ room.seats[x].bot \/ room.seats[x] = Vacant
             \/ r.seats[x] = Bot
             \/ r.seats[x] = Human(room.seats[x].token, None, FALSE)
    <3>1. ASSUME r # NoRoom
          PROVE  /\ room # NoRoom /\ room.mode \in Modes /\ room \in RoomOf(room.mode)
                 /\ x \in DOMAIN room.seats /\ r = DroppedBy(room, x)
      BY <1>1, <2>2, <3>1
    <3>2. ASSUME r # NoRoom
          PROVE  /\ DOMAIN r.seats = DOMAIN room.seats
                 /\ \A y \in DOMAIN room.seats \ {x} : r.seats[y] = room.seats[y]
                 /\ \/ /\ r.seats[x] = Vacant
                       /\ room.seats[x].bot \/ room.seats[x] = Vacant
                    \/ r.seats[x] = Bot
                    \/ r.seats[x] = Human(room.seats[x].token, None, FALSE)
      <4>1. PICK mode \in Modes : room \in RoomOf(mode) BY <3>1, <3>2
      <4>2. r = DroppedBy(room, x) /\ x \in DOMAIN room.seats BY <3>1, <3>2
      <4>3. /\ DOMAIN r.seats = DOMAIN room.seats
            /\ \A y \in DOMAIN room.seats \ {x} : r.seats[y] = room.seats[y]
            /\ x \in DOMAIN room.seats =>
                 \/ /\ r.seats[x] = Vacant
                    /\ room.seats[x].bot \/ room.seats[x] = Vacant
                 \/ r.seats[x] = Bot
                 \/ r.seats[x] = Human(room.seats[x].token, None, FALSE)
        <5> DEFINE d == DroppedBy(room, x)
        <5>1. /\ DOMAIN d.seats = DOMAIN room.seats
              /\ \A y \in DOMAIN room.seats \ {x} : d.seats[y] = room.seats[y]
              /\ x \in DOMAIN room.seats =>
                   \/ /\ d.seats[x] = Vacant
                      /\ room.seats[x].bot \/ room.seats[x] = Vacant
                   \/ d.seats[x] = Bot
                   \/ d.seats[x] = Human(room.seats[x].token, None, FALSE)
          BY ONLY <4>1, DroppedByEntries, Zenon
        <5>2. d = r BY <4>2
        <5> HIDE DEF d
        <5> QED BY ONLY <5>1, <5>2
      <4> QED BY ONLY <4>2, <4>3
    <3> QED BY ONLY <3>1, <3>2
  <2>7. room # NoRoom => room.seats[x] \in SeatEntries BY <2>2, RoomTyped
  <2>8. /\ Vacant.token = None /\ Vacant.socket = None
        /\ Bot.token = None /\ Bot.socket = None /\ Bot.bot
        /\ \A t : Human(t, None, FALSE).token = t /\ Human(t, None, FALSE).socket = None
    BY DEF Vacant, Bot, Human, Entry
  <2>9. r # NoRoom => \/ r.seats[x].token = None /\ r.seats[x].socket = None
                      \/ /\ r.seats[x].token = room.seats[x].token
                         /\ r.seats[x].socket \in {None, room.seats[x].socket}
    BY <2>6, <2>8
  <2>10. r # NoRoom /\ room.seats[x].token = me.token =>
           r.seats[x].token = me.token \/ r.seats[x].bot
    <3>1. me.token \in Players /\ me.token # None
      BY <2>2, RoomAssumption DEF AllSessions
    <3>2. r # NoRoom /\ room.seats[x].token = me.token =>
            ~room.seats[x].bot /\ room.seats[x] # Vacant
      BY <2>6, <2>7, <2>8, <3>1, EntryTypes
    <3> QED BY <2>6, <2>8, <3>2
  <2>11. b # NoSession BY <2>5, Distinct
  <2>12. OwnSeatStep(s, b, NoSession, r)
    <3>1. r # NoRoom /\ b # NoSession /\ room.seats[x].token = me.token =>
            IF NoSession = b
            THEN r.seats[x].token = me.token /\ r.seats[x].socket = room.seats[x].socket
            ELSE r.seats[x].token = me.token \/ r.seats[x].bot
      BY <2>10, <2>11
    <3>2. r # NoRoom =>
            /\ room # NoRoom /\ DOMAIN r.seats = DOMAIN room.seats
            /\ \A y \in DOMAIN r.seats \ {x} : r.seats[y] = room.seats[y]
      BY <2>6
    <3>3. NoSession \in {b, NoSession} /\ b \in AllSessions \cup {NoSession}
      BY <2>5
    <3> QED BY ONLY <1>1, <1>3, <2>1, <2>3, <2>4, <2>5, <2>9, <3>1, <3>2, <3>3
            DEF OwnSeatStep
  <2> QED BY <2>12, OwnSeatKept
<1> QED BY <1>2, <1>3

\* What a join and a move to another seat have in common: socket s has seat x,
\* its session is "b", and "r" is the room it leaves behind.
Seats(s, m, x, b, r) ==
  LET t == PlayerOfSocket[s]
      room == rooms[m]
  IN  /\ m \in Matches /\ r \in Rooms /\ x \in DOMAIN r.seats
      /\ b \in AllSessions /\ b.match = m /\ b.token = t /\ b.socket = s /\ b.seat = x
      /\ stored' = [stored EXCEPT ![m][t] = b]
      /\ rooms' = [rooms EXCEPT ![m] = r]
      /\ sessions'[s] = b
      /\ \A q \in Sockets \ {s} : sessions'[q] \in {NoSession, sessions[q]}
      /\ \/ r.seats[x] \in {Vacant, Bot} /\ ~Agreed(m)
         \/ r.seats[x].token = t /\ r.seats[x].socket = s
      /\ \/ room = NoRoom
         \/ room.seats[x].token \in {None, t}
         \/ stored[m][t] # NoSession /\ stored[m][t].seat = x
      /\ \A y \in DOMAIN r.seats \ {x} :
           \/ r.seats[y] \in {Vacant, Bot}
           \/ room # NoRoom /\ y \in DOMAIN room.seats /\ r.seats[y] = room.seats[y]
      /\ room # NoRoom => \A y \in DOMAIN room.seats \ {x} :
           room.seats[y] # Vacant /\ room.seats[y].socket # s => r.seats[y] = room.seats[y]

LEMMA SeatedKept ==
  ASSUME SInv, NEW s \in Sockets, NEW m, NEW x, NEW b, NEW r, Seats(s, m, x, b, r)
  PROVE  SeatsKept
<1>1. PICK t, room : t = PlayerOfSocket[s] /\ room = rooms[m] OBVIOUS
<1>2. /\ m \in Matches /\ r \in Rooms /\ x \in DOMAIN r.seats
      /\ b \in AllSessions /\ b.match = m /\ b.token = t /\ b.socket = s /\ b.seat = x
      /\ stored' = [stored EXCEPT ![m][t] = b]
      /\ rooms' = [rooms EXCEPT ![m] = r]
      /\ sessions'[s] = b
      /\ \A q \in Sockets \ {s} : sessions'[q] \in {NoSession, sessions[q]}
  BY <1>1 DEF Seats
<1>3. \/ r.seats[x] \in {Vacant, Bot} /\ ~Agreed(m)
      \/ r.seats[x].token = t /\ r.seats[x].socket = s
  BY <1>1 DEF Seats
<1>4. \/ room = NoRoom
      \/ room.seats[x].token \in {None, t}
      \/ stored[m][t] # NoSession /\ stored[m][t].seat = x
  BY <1>1 DEF Seats
<1>5. \A y \in DOMAIN r.seats \ {x} :
        \/ r.seats[y] \in {Vacant, Bot}
        \/ room # NoRoom /\ y \in DOMAIN room.seats /\ r.seats[y] = room.seats[y]
  BY <1>1 DEF Seats
<1>6. room # NoRoom => \A y \in DOMAIN room.seats \ {x} :
        room.seats[y] # Vacant /\ room.seats[y].socket # s => r.seats[y] = room.seats[y]
  BY <1>1 DEF Seats
<1>7. t \in Players /\ t # None /\ b # NoSession /\ r # NoRoom
  BY <1>1, <1>2, RoomAssumption, Distinct
<1>8. \A n \in Matches : rooms'[n] = IF n = m THEN r ELSE rooms[n]
  BY <1>2 DEF SInv, IInv, Typed
<1>9. /\ \A n \in Matches, u \in Players :
           stored'[n][u] = IF n = m /\ u = t THEN b ELSE stored[n][u]
      /\ \A n \in Matches \ {m} : stored'[n] = stored[n]
  <2>1. stored \in [Matches -> [Players -> AllSessions \cup {NoSession}]]
    BY DEF SInv, IInv, Typed
  <2> QED BY ONLY <1>2, <1>7, <2>1
<1>10. \A n \in Matches, u \in Players : stored'[n][u] # NoSession =>
         PlayerOfSocket[stored'[n][u].socket] = u
  <2>1. \A n \in Matches, u \in Players : stored[n][u] # NoSession =>
          PlayerOfSocket[stored[n][u].socket] = u
    BY DEF SInv, TokensFit
  <2>2. b.socket = s /\ PlayerOfSocket[s] = t BY <1>1, <1>2
  <2> QED BY ONLY <1>9, <2>1, <2>2
<1>11. /\ Vacant.token = None /\ Vacant.socket = None
       /\ Bot.token = None /\ Bot.socket = None
  BY DEF Vacant, Bot, Entry
<1>12. ASSUME NEW y \in DOMAIN r.seats PROVE EntryFrom(m, y, r.seats[y])
  <2>1. CASE r.seats[y] \in {Vacant, Bot} BY <1>11, <2>1 DEF EntryFrom
  <2>2. CASE y = x /\ r.seats[x].token = t /\ r.seats[x].socket = s
    BY <1>1, <1>4, <2>2 DEF EntryFrom
  <2>3. CASE room # NoRoom /\ y \in DOMAIN room.seats /\ r.seats[y] = room.seats[y]
    BY <1>1, <2>3 DEF EntryFrom
  <2> QED BY <1>3, <1>5, <2>1, <2>2, <2>3
<1>13. TokensFit' /\ SeatPassed BY ONLY SInv, <1>2, <1>10, <1>12, SeatStep
<1>14. OnlyTouches(m)
  <2>1. \A n \in Matches \ {m} : rooms'[n] = rooms[n] /\ stored'[n] = stored[n]
    BY <1>8, <1>9
  <2>2. \A q \in Sockets : \/ sessions'[q] \in {NoSession, sessions[q]}
                          \/ sessions'[q].match = m
    BY <1>2
  <2> QED BY <2>1, <2>2 DEF OnlyTouches
<1>15. ASSUME Agreed(m),
              NEW u \in Players \ {t}, stored[m][u] # NoSession, stored[m][u].seat = x
       PROVE  rooms[m].seats[x].bot
  <2>1. /\ room # NoRoom
        /\ room.seats[x].token = u \/ room.seats[x].bot
        /\ stored[m][t] # NoSession => stored[m][t].seat # x
        /\ u # None
    BY ONLY <1>1, <1>2, <1>7, <1>15, SInv, AgreedEntry
  <2> QED BY <1>1, <1>4, <2>1
<1>16. ASSUME Agreed(m),
              \A u \in Players \ {t} : stored[m][u] # NoSession => stored[m][u].seat # x
       PROVE  Agreed(m)'
  <2>1. \A q \in Sockets : sessions'[q] # NoSession /\ sessions'[q].match = m
                             /\ sessions'[q] # sessions[q] => sessions'[q].token = t
    BY ONLY <1>2
  <2>2. ASSUME NEW u \in Players \ {t}, stored'[m][u] # NoSession
        PROVE  /\ stored'[m][u] = stored[m][u] /\ rooms'[m] # NoRoom
               /\ rooms'[m].seats[stored[m][u].seat] = rooms[m].seats[stored[m][u].seat]
               /\ stored[m][u].seat # x
    <3>1. u \in Players /\ u # t /\ stored'[m][u] = stored[m][u] /\ stored[m][u] # NoSession
      BY ONLY <1>2, <1>9, <2>2
    <3>2. PICK y : y = stored[m][u].seat OBVIOUS
    <3>3. /\ room # NoRoom /\ y \in DOMAIN room.seats /\ y # x
          /\ room.seats[y] # Vacant
          /\ room.seats[y].token = u \/ room.seats[y].bot
      BY ONLY <1>1, <1>2, <1>16, <3>1, <3>2, SInv, AgreedEntry
    <3>4. room.seats[y].socket # s
      <4> SUFFICES ASSUME room.seats[y].socket = s PROVE FALSE OBVIOUS
      <4>1. s # None BY RoomAssumption
      <4>2. room.seats[y].token = t
        BY <1>1, <1>2, <3>3, <4>1 DEF SInv, TokensFit
      <4>3. room \in Rooms BY <1>1, <1>2, <3>3 DEF SInv, IInv, Typed
      <4>4. room.seats[y] \in SeatEntries BY <3>3, <4>3, RoomTyped
      <4>5. ~room.seats[y].bot BY <1>7, <3>3, <4>2, <4>4, EntryTypes
      <4> QED BY <3>1, <3>3, <4>2, <4>5
    <3>5. rooms'[m] = r /\ r.seats[y] = room.seats[y] BY <1>2, <1>6, <1>8, <3>3, <3>4
    <3> QED BY ONLY <1>1, <1>7, <3>1, <3>2, <3>3, <3>5
  <2>3. stored'[m][t] = b /\ rooms'[m] = r BY <1>2, <1>7, <1>8, <1>9
  <2>4. r.seats[x].token = t /\ r.seats[x].socket = s BY <1>3, <1>16
  <2>5. \A u \in Players \ {t} : stored'[m][u] # NoSession =>
           /\ stored'[m][u] = stored[m][u] /\ rooms'[m] # NoRoom
           /\ LET g == rooms[m].seats[stored[m][u].seat]
                  h == rooms'[m].seats[stored[m][u].seat]
              IN  h.token = g.token /\ h.bot = g.bot /\ h.socket = g.socket
    <3>1. ASSUME NEW u \in Players \ {t}, stored'[m][u] # NoSession
          PROVE  /\ stored'[m][u] = stored[m][u] /\ rooms'[m] # NoRoom
                 /\ rooms'[m].seats[stored[m][u].seat] = rooms[m].seats[stored[m][u].seat]
      BY <2>2, <3>1
    <3> QED BY ONLY <3>1
  <2>6. \A u \in Players \ {t} : stored'[m][u] # NoSession => stored'[m][u].seat # x
    BY <2>2
  <2>7. t \in Players /\ stored'[m][t] # NoSession =>
           LET mine == stored'[m][t]
               g == rooms'[m].seats[mine.seat]
           IN  /\ rooms'[m] # NoRoom
               /\ g.token = t \/ (g.bot /\ sessions'[mine.socket] # mine)
               /\ sessions'[mine.socket] = mine => g.socket = mine.socket
               /\ \A u \in Players \ {t} : stored'[m][u] # NoSession =>
                                             stored'[m][u].seat # mine.seat
    BY ONLY <1>2, <1>7, <2>3, <2>4, <2>6
  <2>8. AgreedButFor(m, t) BY ONLY <2>1, <2>5, <2>7 DEF AgreedButFor
  <2> QED BY ONLY <1>2, <1>16, <2>8, AgreedStep, SInv
<1>17. AgreedStays(m)
  <2>1. ASSUME Agreed(m), ~Agreed(m)'
        PROVE  \E v, u \in Players :
                 /\ v # u /\ stored[m][v] # NoSession
                 /\ rooms[m].seats[stored[m][v].seat].bot
                 /\ rooms'[m].seats[stored[m][v].seat].token = u
    <3>1. PICK v \in Players \ {t} : stored[m][v] # NoSession /\ stored[m][v].seat = x
      BY <1>16, <2>1
    <3>2. rooms[m].seats[x].bot BY <1>15, <2>1, <3>1
    <3>3. rooms'[m].seats[x].token = t BY <1>2, <1>3, <1>8, <2>1
    <3> QED BY <1>7, <3>1, <3>2, <3>3
  <2> QED BY <2>1 DEF AgreedStays
<1> QED BY <1>2, <1>13, <1>14, <1>17, OneMatchAgreed DEF SeatsKept

LEMMA SelectSeatSeats ==
  ASSUME SInv, NEW s \in Sockets, NEW x \in Moves, SelectSeat(s, x)
  PROVE  SeatsKept
<1>1. PICK me, m, t, room, mode, new, e, seats, r :
        /\ me = sessions[s] /\ m = me.match /\ t = me.token /\ room = rooms[m]
        /\ mode = room.mode /\ new = [me EXCEPT !.seat = x, !.ready = FALSE]
        /\ e = Human(t, s, FALSE)
        /\ seats = [y \in DOMAIN room.seats |->
                      IF y = x THEN e
                      ELSE IF room.seats[y].socket = s THEN Vacant ELSE room.seats[y]]
        /\ r = [room EXCEPT !.seats = seats, !.reserved = IF @ = x THEN None ELSE @]
  OBVIOUS
<1>2. /\ me # NoSession /\ room # NoRoom /\ MayTake(room, x, s)
      /\ rooms' = [rooms EXCEPT
              ![m].seats = [y \in DOMAIN @ |->
                 IF y = x THEN Human(t, s, FALSE)
                 ELSE IF @[y].socket = s THEN Vacant ELSE @[y]],
              ![m].reserved = IF @ = x THEN None ELSE @]
      /\ sessions' = [sessions EXCEPT ![s] = new]
      /\ stored' = [stored EXCEPT ![m][t] = new]
  BY <1>1 DEF SelectSeat, Seated
<1>3. /\ me \in AllSessions /\ me.socket = s /\ m \in Matches /\ t \in Players
      /\ room \in Rooms /\ mode \in Modes /\ room \in RoomOf(mode)
      /\ t = PlayerOfSocket[s]
  BY <1>1, <1>2, OwnSession DEF SInv, IInv, SessionsFit
<1>4. /\ DOMAIN room.seats = SeatsOf(mode)
      /\ room.seats \in [SeatsOf(mode) -> SeatEntries]
  BY <1>1, <1>3, RoomTyped
<1>5. x \in SeatsOf(mode) /\ (room.seats[x].token = None \/ room.seats[x].socket = s)
  BY <1>2, <1>4 DEF MayTake
<1>6. rooms' = [rooms EXCEPT ![m] = r]
  BY <1>1, <1>2, <1>3 DEF SInv, IInv, Typed, Rooms, RoomOf
<1>7. /\ new \in AllSessions /\ new.match = m /\ new.token = t
      /\ new.socket = s /\ new.seat = x
  <2>1. x \in AllSeats BY <1>3, <1>5, SeatsAreSeats DEF Modes, AllSeats
  <2> QED BY <1>1, <1>3, <2>1 DEF AllSessions
<1>8. e \in SeatEntries /\ e.token = t /\ e.socket = s
  <2>1. e = Human(t, s, FALSE) /\ t \in Players BY <1>1, <1>3
  <2>2. e \in SeatEntries BY ONLY <2>1, s \in Sockets, EntryTypes
  <2> QED BY <2>1, <2>2 DEF Human, Entry
<1>9. /\ seats \in [SeatsOf(mode) -> SeatEntries]
      /\ seats[x] = e
      /\ \A y \in SeatsOf(mode) \ {x} :
           seats[y] = IF room.seats[y].socket = s THEN Vacant ELSE room.seats[y]
  BY <1>1, <1>4, <1>5, <1>8, EntryTypes
<1>10. r \in RoomOf(mode) /\ r.seats = seats BY <1>1, <1>3, <1>9 DEF RoomOf
<1>11. r \in Rooms BY <1>3, <1>10, ModeRooms
<1>12. room.seats[x].token \in {None, t}
  <2>1. CASE room.seats[x].token = None BY <2>1
  <2>2. CASE room.seats[x].socket = s
    <3>1. s # None BY RoomAssumption
    <3>2. \A y \in DOMAIN rooms[m].seats : rooms[m].seats[y].socket # None =>
            rooms[m].seats[y].token = PlayerOfSocket[rooms[m].seats[y].socket]
      BY <1>1, <1>2, <1>3 DEF SInv, TokensFit
    <3> QED BY <1>1, <1>3, <1>4, <1>5, <2>2, <3>1, <3>2
  <2> QED BY <1>5, <2>1, <2>2
<1>13. sessions'[s] = new /\ \A q \in Sockets \ {s} : sessions'[q] \in {NoSession, sessions[q]}
  BY <1>2 DEF SInv, IInv, Typed
<1>14. DOMAIN r.seats = SeatsOf(mode) BY <1>9, <1>10
<1>16. r.seats[x].token = t /\ r.seats[x].socket = s BY <1>8, <1>9, <1>10
<1>17. \A y \in DOMAIN r.seats \ {x} :
         \/ r.seats[y] \in {Vacant, Bot}
         \/ room # NoRoom /\ y \in DOMAIN room.seats /\ r.seats[y] = room.seats[y]
  BY <1>2, <1>4, <1>9, <1>10, <1>14
<1>18. \A y \in DOMAIN room.seats \ {x} :
         room.seats[y] # Vacant /\ room.seats[y].socket # s => r.seats[y] = room.seats[y]
  BY <1>4, <1>9, <1>10
<1>19. x \in DOMAIN r.seats /\ room = rooms[m] /\ t = PlayerOfSocket[s]
       /\ stored' = [stored EXCEPT ![m][t] = new]
  BY <1>1, <1>2, <1>3, <1>5, <1>14
<1>15. Seats(s, m, x, new, r)
  BY ONLY <1>3, <1>6, <1>7, <1>11, <1>12, <1>13, <1>16, <1>17, <1>18, <1>19 DEF Seats
<1> QED BY <1>15, SeatedKept

LEMMA RejoinSeats ==
  ASSUME SInv, NEW s \in Sockets, joining[s] # Idle,
         Rejoin(s, joining[s].match, joining[s].kind)
  PROVE  SeatsKept
<1>1. PICK m, kind, t, old, room, mode, ready, new, e, back :
        /\ m = joining[s].match /\ kind = joining[s].kind /\ t = PlayerOfSocket[s]
        /\ old = stored[m][t] /\ room = RoomFor(m) /\ mode = room.mode
        /\ ready = (room.begun \/ old.ready) /\ new = Resumed(old, s, ready)
        /\ e = Human(t, s, ready)
        /\ back = IF room.seats[old.seat] = Vacant THEN room
                  ELSE [room EXCEPT !.seats[old.seat] = e]
  OBVIOUS
<1>2. /\ old # NoSession
      /\ sessions' = [sessions EXCEPT ![old.socket] = NoSession, ![s] = new]
      /\ stored' = [stored EXCEPT ![m][t] = new]
      /\ \E r \in AfterJoin(kind, back) : rooms' = [rooms EXCEPT ![m] = r]
  BY <1>1 DEF Rejoin, RoomFor, SessionsAfter
<1>3. PICK r \in AfterJoin(kind, back) : rooms' = [rooms EXCEPT ![m] = r] BY <1>2
<1>4. /\ m \in Matches /\ t \in Players /\ room \in Rooms
      /\ rooms[m] # NoRoom => room = rooms[m]
      /\ rooms[m] = NoRoom => mode = "2v2"
  <2>1. m \in Matches /\ t \in Players
    BY <1>1, RoomAssumption DEF SInv, IInv, Typed, Joins
  <2> QED BY <1>1, <2>1, RoomForType DEF SInv
<1>5. /\ mode \in Modes /\ room \in RoomOf(mode)
      /\ DOMAIN room.seats = SeatsOf(mode)
      /\ room.seats \in [SeatsOf(mode) -> SeatEntries]
  BY <1>1, <1>4, RoomTyped
<1>6. /\ old \in AllSessions /\ old.match = m /\ old.token = t
      /\ old.seat \in DOMAIN room.seats
  <2>1. old \in AllSessions /\ old.match = m /\ old.token = t
    <3>1. stored \in [Matches -> [Players -> AllSessions \cup {NoSession}]]
      BY DEF SInv, IInv, Typed
    <3>2. old \in AllSessions
      <4>1. stored[m] \in [Players -> AllSessions \cup {NoSession}] BY ONLY <1>4, <3>1
      <4>2. stored[m][t] \in AllSessions \cup {NoSession} BY ONLY <1>4, <4>1
      <4> QED BY <1>1, <1>2, <4>2
    <3>3. old.match = m /\ old.token = t
      BY <1>1, <1>2, <1>4 DEF SInv, IInv, SessionsFit
    <3> QED BY <3>2, <3>3
  <2>2. CASE rooms[m] # NoRoom
    <3>1. old.seat \in DOMAIN rooms[m].seats
      BY <1>1, <1>2, <1>4, <2>2 DEF SInv, IInv, RoomsFit
    <3> QED BY ONLY <1>4, <2>1, <2>2, <3>1
  <2>3. CASE rooms[m] = NoRoom
    <3>1. SeatsOf(mode) = AllSeats BY <1>4, <2>3, SeatsAreSeats
    <3> QED BY <1>5, <2>1, <3>1 DEF AllSessions
  <2> QED BY ONLY <2>1, <2>2, <2>3
<1>7. PICK x : x = old.seat OBVIOUS
<1>8. ready \in BOOLEAN
  BY <1>1, <1>5, <1>6 DEF RoomOf, AllSessions
<1>9. /\ new \in AllSessions /\ new.match = m /\ new.token = t
      /\ new.socket = s /\ new.seat = x
  BY <1>1, <1>6, <1>7, <1>8 DEF Resumed, AllSessions
<1>10. e \in SeatEntries /\ e # Vacant /\ e.token = t /\ e.socket = s
  <2>1. e = Human(t, s, ready) /\ t \in Players /\ t # None
    BY <1>1, <1>4, RoomAssumption
  <2>2. e \in SeatEntries BY ONLY <1>8, <2>1, s \in Sockets, EntryTypes
  <2>3. e.token = t /\ e.socket = s BY <2>1 DEF Human, Entry
  <2> QED BY <2>1, <2>2, <2>3, EntriesDiffer
<1>11. /\ back \in RoomOf(mode) /\ DOMAIN back.seats = SeatsOf(mode)
       /\ back.seats[x] = IF room.seats[x] = Vacant THEN Vacant ELSE e
       /\ \A y \in SeatsOf(mode) \ {x} : back.seats[y] = room.seats[y]
  <2>1. CASE room.seats[x] = Vacant BY <1>1, <1>5, <1>7, <2>1
  <2>2. CASE room.seats[x] # Vacant
    <3>1. back = [room EXCEPT !.seats[x] = e] BY <1>1, <1>7, <2>2
    <3>2. back \in RoomOf(mode) BY <1>5, <1>10, <3>1, SeatChanged
    <3>3. back.seats = [room.seats EXCEPT ![x] = e] BY <1>5, <3>1 DEF RoomOf
    <3> QED BY <1>5, <1>6, <1>7, <2>2, <3>2, <3>3
  <2> QED BY <2>1, <2>2
<1>12. kind = "private" => mode = "2v2"
  BY <1>1, <1>4, RoomForType DEF SInv, IInv, RoomsFit
<1>13. r \in RoomOf(mode) /\ Fills(back, r)
  BY <1>3, <1>5, <1>11, <1>12, AfterJoinType, AfterJoinFills
<1>14. r \in Rooms BY <1>5, <1>13, ModeRooms
<1>15. /\ DOMAIN r.seats = SeatsOf(mode)
       /\ \A y \in SeatsOf(mode) :
            \/ r.seats[y] = back.seats[y]
            \/ back.seats[y] = Vacant /\ r.seats[y] = Bot
  BY <1>11, <1>13 DEF Fills
<1>16. \/ r.seats[x] \in {Vacant, Bot} /\ ~Agreed(m)
       \/ r.seats[x].token = t /\ r.seats[x].socket = s
  <2>1. CASE room.seats[x] = Vacant
    <3>1. ~Agreed(m) BY <1>1, <1>2, <1>4, <1>7, <2>1, AgreedEntry
    <3> QED BY <1>6, <1>7, <1>5, <1>11, <1>15, <2>1, <3>1
  <2>2. CASE room.seats[x] # Vacant
    BY <1>5, <1>6, <1>7, <1>10, <1>11, <1>15, <2>2
  <2> QED BY <2>1, <2>2
<1>17. \A y \in SeatsOf(mode) \ {x} :
         \/ r.seats[y] \in {Vacant, Bot}
         \/ rooms[m] # NoRoom /\ y \in DOMAIN rooms[m].seats /\ r.seats[y] = rooms[m].seats[y]
  <2>1. CASE rooms[m] # NoRoom BY <1>4, <1>5, <1>11, <1>15, <2>1
  <2>2. CASE rooms[m] = NoRoom
    <3>1. room = NewRoom("2v2", FALSE) BY <1>1, <2>2 DEF RoomFor
    <3>2. \A y \in DOMAIN room.seats : room.seats[y] = Vacant BY <3>1 DEF NewRoom
    <3> QED BY <1>5, <1>11, <1>15, <3>2
  <2> QED BY <2>1, <2>2
<1>18. rooms[m] # NoRoom => \A y \in DOMAIN rooms[m].seats \ {x} :
         rooms[m].seats[y] # Vacant => r.seats[y] = rooms[m].seats[y]
  BY <1>4, <1>5, <1>11, <1>15
<1>19. sessions'[s] = new /\ \A q \in Sockets \ {s} : sessions'[q] \in {NoSession, sessions[q]}
  BY <1>2 DEF SInv, IInv, Typed
<1>20. stored[m][t] # NoSession /\ stored[m][t].seat = x BY <1>1, <1>2, <1>7
<1>22. /\ \A y \in DOMAIN r.seats \ {x} :
            \/ r.seats[y] \in {Vacant, Bot}
            \/ /\ rooms[m] # NoRoom /\ y \in DOMAIN rooms[m].seats
               /\ r.seats[y] = rooms[m].seats[y]
       /\ x \in DOMAIN r.seats
  BY <1>5, <1>6, <1>7, <1>15, <1>17
<1>23. t = PlayerOfSocket[s] /\ m \in Matches /\ stored' = [stored EXCEPT ![m][t] = new]
  BY <1>1, <1>2, <1>4
<1>21. Seats(s, m, x, new, r)
  BY ONLY <1>3, <1>9, <1>14, <1>16, <1>18, <1>19, <1>20, <1>22, <1>23 DEF Seats
<1> QED BY <1>21, SeatedKept

LEMMA JoinAnewSeats ==
  ASSUME SInv, NEW s \in Sockets, joining[s] # Idle,
         JoinAnew(s, joining[s].match, joining[s].kind)
  PROVE  SeatsKept
<1>1. PICK m, kind, t, room, mode, x, e, new, seated :
        /\ m = joining[s].match /\ kind = joining[s].kind /\ t = PlayerOfSocket[s]
        /\ room = RoomFor(m) /\ mode = room.mode /\ x = FreeSeat(room)
        /\ e = Human(t, s, FALSE) /\ new = Session(m, t, x, FALSE, s)
        /\ seated = [room EXCEPT !.seats[x] = e, !.reserved = None]
  OBVIOUS
<1>2. /\ stored[m][t] = NoSession
      /\ IF x = None
         THEN /\ rooms' = [rooms EXCEPT ![m] = [room EXCEPT !.reserved = None]]
              /\ UNCHANGED <<sessions, stored>>
         ELSE /\ sessions' = [sessions EXCEPT ![s] = new]
              /\ stored' = [stored EXCEPT ![m][t] = new]
              /\ \E r \in AfterJoin(kind, seated) : rooms' = [rooms EXCEPT ![m] = r]
  BY <1>1 DEF JoinAnew, RoomFor
<1>3. /\ m \in Matches /\ t \in Players /\ room \in Rooms
      /\ rooms[m] # NoRoom => room = rooms[m]
      /\ rooms[m] = NoRoom => mode = "2v2"
  <2>1. m \in Matches /\ t \in Players
    BY <1>1, RoomAssumption DEF SInv, IInv, Typed, Joins
  <2> QED BY <1>1, <2>1, RoomForType DEF SInv
<1>4. /\ mode \in Modes /\ room \in RoomOf(mode)
      /\ DOMAIN room.seats = SeatsOf(mode)
      /\ room.seats \in [SeatsOf(mode) -> SeatEntries]
  BY <1>1, <1>3, RoomTyped
<1>5. x \in (SeatsOf(mode) \ Humans(room)) \cup {None} BY <1>1, <1>4, FreeSeatType
<1>6. rooms[m] = NoRoom =>
        x # None /\ \A y \in SeatsOf(mode) : room.seats[y] = Vacant
  <2> SUFFICES ASSUME rooms[m] = NoRoom
               PROVE  x # None /\ \A y \in SeatsOf(mode) : room.seats[y] = Vacant
    OBVIOUS
  <2>1. room = NewRoom("2v2", FALSE) BY <1>1 DEF RoomFor
  <2>2. \A y \in SeatsOf(mode) : room.seats[y] = Vacant BY <1>4, <2>1 DEF NewRoom
  <2>3. PICK free : free = DOMAIN room.seats \ Humans(room) OBVIOUS
  <2>4. free = AllSeats /\ mode = "2v2"
    BY <1>3, <1>4, <2>2, <2>3, EntriesDiffer, SeatsAreSeats DEF Humans
  <2>5. FirstSeat(mode, free) \in free BY <1>4, <2>4, FirstSeatIn, SeatsAreSeats DEF AllSeats
  <2>6. x \in free \cup {room.reserved} /\ (x = room.reserved => x \in free)
    BY <1>1, <2>3, <2>4, <2>5 DEF FreeSeat, AllSeats
  <2>7. None \notin AllSeats BY RoomAssumption DEF AllSeats
  <2> QED BY <2>2, <2>4, <2>6, <2>7
<1>7. CASE x = None
  <2>1. PICK r : r = [room EXCEPT !.reserved = None] OBVIOUS
  <2>2. r \in RoomOf(mode) /\ r.seats = room.seats BY <1>4, <2>1 DEF RoomOf
  <2>3. r \in Rooms /\ rooms[m] # NoRoom /\ Fills(rooms[m], r)
    BY <1>3, <1>4, <1>6, <1>7, <2>2, ModeRooms DEF Fills
  <2>4. rooms' = [rooms EXCEPT ![m] = r] /\ UNCHANGED <<sessions, stored>>
    BY <1>2, <1>7, <2>1
  <2> QED BY <1>3, <2>3, <2>4, FillKept
<1>8. CASE x # None
  <2>1. PICK r \in AfterJoin(kind, seated) : rooms' = [rooms EXCEPT ![m] = r]
    BY <1>2, <1>8
  <2>2. x \in SeatsOf(mode) /\ room.seats[x].token = None
    BY <1>4, <1>5, <1>8 DEF Humans
  <2>3. e \in SeatEntries /\ e # Vacant /\ e.token = t /\ e.socket = s
    <3>1. e = Human(t, s, FALSE) /\ t \in Players /\ t # None
      BY <1>1, <1>3, RoomAssumption
    <3>2. e \in SeatEntries BY ONLY <3>1, s \in Sockets, EntryTypes
    <3>3. e.token = t /\ e.socket = s BY <3>1 DEF Human, Entry
    <3> QED BY <3>1, <3>2, <3>3, EntriesDiffer
  <2>4. /\ seated \in RoomOf(mode) /\ seated.seats = [room.seats EXCEPT ![x] = e]
    <3>1. PICK placed : placed = [room EXCEPT !.seats[x] = e] OBVIOUS
    <3>2. placed \in RoomOf(mode) BY <1>4, <2>3, <3>1, SeatChanged
    <3>3. seated = [placed EXCEPT !.reserved = None] BY <1>1, <1>4, <3>1 DEF RoomOf
    <3>4. placed.seats = [room.seats EXCEPT ![x] = e] BY <1>4, <3>1 DEF RoomOf
    <3> QED BY <3>2, <3>3, <3>4 DEF RoomOf
  <2>5. /\ DOMAIN seated.seats = SeatsOf(mode) /\ seated.seats[x] = e
        /\ \A y \in SeatsOf(mode) \ {x} : seated.seats[y] = room.seats[y]
    BY <1>4, <2>2, <2>4
  <2>6. kind = "private" => mode = "2v2"
    BY <1>1, <1>3, RoomForType DEF SInv, IInv, RoomsFit
  <2>7. r \in RoomOf(mode) /\ Fills(seated, r)
    BY <1>4, <2>1, <2>4, <2>6, AfterJoinType, AfterJoinFills
  <2>8. r \in Rooms BY <1>4, <2>7, ModeRooms
  <2>9. /\ DOMAIN r.seats = SeatsOf(mode)
        /\ \A y \in SeatsOf(mode) :
             \/ r.seats[y] = seated.seats[y]
             \/ seated.seats[y] = Vacant /\ r.seats[y] = Bot
    BY <2>5, <2>7 DEF Fills
  <2>10. r.seats[x].token = t /\ r.seats[x].socket = s BY <2>2, <2>3, <2>5, <2>9
  <2>11. \A y \in DOMAIN r.seats \ {x} :
           \/ r.seats[y] \in {Vacant, Bot}
           \/ /\ rooms[m] # NoRoom /\ y \in DOMAIN rooms[m].seats
              /\ r.seats[y] = rooms[m].seats[y]
    BY <1>3, <1>4, <1>6, <2>5, <2>9
  <2>12. rooms[m] # NoRoom => \A y \in DOMAIN rooms[m].seats \ {x} :
           rooms[m].seats[y] # Vacant => r.seats[y] = rooms[m].seats[y]
    BY <1>3, <1>4, <2>5, <2>9
  <2>13. rooms[m] = NoRoom \/ rooms[m].seats[x].token = None BY <1>3, <2>2
  <2>14. sessions'[s] = new
         /\ \A q \in Sockets \ {s} : sessions'[q] \in {NoSession, sessions[q]}
    BY <1>2, <1>8 DEF SInv, IInv, Typed
  <2>15. /\ new \in AllSessions /\ new.match = m /\ new.token = t
         /\ new.socket = s /\ new.seat = x
    <3>1. x \in AllSeats BY <1>4, <2>2, SeatsAreSeats DEF Modes, AllSeats
    <3> QED BY <1>1, <1>3, <3>1 DEF Session, AllSessions
  <2>16. /\ t = PlayerOfSocket[s] /\ stored' = [stored EXCEPT ![m][t] = new]
         /\ x \in DOMAIN r.seats
    BY <1>1, <1>2, <1>8, <2>2, <2>9
  <2>17. Seats(s, m, x, new, r)
    BY ONLY <1>3, <2>1, <2>8, <2>10, <2>11, <2>12, <2>13, <2>14, <2>15, <2>16 DEF Seats
  <2> QED BY <2>17, SeatedKept
<1> QED BY <1>7, <1>8

\* A turn that is set or cleared changes no seat.
LEMMA TurnSeats ==
  ASSUME SInv, NEW m \in Matches, rooms[m] # NoRoom,
         NEW begun \in BOOLEAN, NEW x \in SeatsOf(rooms[m].mode) \cup {None},
         rooms' = [rooms EXCEPT ![m] = [rooms[m] EXCEPT !.begun = begun, !.turn = x]],
         UNCHANGED <<sessions, stored>>
  PROVE  SeatsKept
<1>1. PICK room, r : /\ room = rooms[m] /\ room # NoRoom
                     /\ r = [room EXCEPT !.begun = begun, !.turn = x]
  OBVIOUS
<1>2. r \in Rooms BY <1>1, TurnSet DEF SInv
<1>3. room \in Rooms BY <1>1 DEF SInv, IInv, Typed
<1>4. r.seats = room.seats BY <1>1, <1>3 DEF Rooms, RoomOf
<1>5. Fills(room, r) BY <1>4 DEF Fills
<1>6. rooms' = [rooms EXCEPT ![m] = r] BY <1>1
<1> QED BY <1>1, <1>2, <1>5, <1>6, FillKept

LEMMA CheckStartSeats ==
  ASSUME SInv, NEW s \in Sockets, CheckStart(s)
  PROVE  SeatsKept
<1>1. PICK m, room : m = starting[s].match /\ room = rooms[m] OBVIOUS
<1>2. m \in Matches BY <1>1, StartOf DEF SInv, CheckStart
<1>3. PICK r \in {Filled(room), room} :
        /\ rooms' = [rooms EXCEPT ![m] = r] /\ (room = NoRoom => r = room)
        /\ UNCHANGED <<sessions, stored>>
  BY <1>1 DEF CheckStart
<1>4. r \in Rooms \cup {NoRoom} /\ (r # NoRoom => room # NoRoom /\ Fills(room, r))
  <2>1. CASE room = NoRoom BY <1>3, <2>1
  <2>2. CASE room # NoRoom
    <3>1. room \in Rooms BY <1>1, <1>2, <2>2 DEF SInv, IInv, Typed
    <3>2. room.mode \in Modes /\ room \in RoomOf(room.mode) BY <3>1, RoomTyped
    <3>3. Filled(room) \in Rooms BY <3>2, FilledType, ModeRooms
    <3> QED BY <1>3, <2>2, <3>1, <3>2, <3>3, FilledFills
  <2> QED BY <2>1, <2>2
<1> QED BY <1>1, <1>2, <1>3, <1>4, FillKept

LEMMA BeginHandSeats ==
  ASSUME SInv, NEW s \in Sockets, BeginHand(s)
  PROVE  SeatsKept
<1>1. PICK c, m, room : c = starting[s] /\ m = c.match /\ room = rooms[m] OBVIOUS
<1>2. m \in Matches BY <1>1, StartOf DEF SInv, BeginHand
<1>3. UNCHANGED <<sessions, stored>> BY DEF BeginHand
<1>4. CASE room = NoRoom
  <2>1. UNCHANGED rooms BY <1>1, <1>4 DEF BeginHand
  <2> QED BY <1>3, <2>1, SameKept
<1>5. CASE room # NoRoom
  <2>1. PICK x : rooms' = [rooms EXCEPT ![m].begun = TRUE,
                             ![m].turn = IF x \in Occupied(room) \cup {None} THEN x ELSE @]
    BY <1>1, <1>5 DEF BeginHand
  <2>2. PICK y : y = IF x \in Occupied(room) \cup {None} THEN x ELSE room.turn OBVIOUS
  <2>3. y \in SeatsOf(room.mode) \cup {None}
    BY <1>1, <1>2, <1>5, <2>2, TurnType DEF SInv
  <2>4. rooms' = [rooms EXCEPT ![m] = [rooms[m] EXCEPT !.begun = TRUE, !.turn = y]]
    BY <1>1, <1>2, <1>5, <2>1, <2>2 DEF SInv, IInv, Typed, Rooms, RoomOf
  <2> QED BY <1>1, <1>2, <1>3, <1>5, <2>3, <2>4, TurnSeats
<1> QED BY <1>4, <1>5

LEMMA TurnMovedSeats ==
  ASSUME SInv, NEW m \in Matches, rooms[m] # NoRoom,
         NEW x \in SeatsOf(rooms[m].mode) \cup {None},
         rooms' = [rooms EXCEPT ![m].turn = x], UNCHANGED <<sessions, stored>>
  PROVE  SeatsKept
<1>1. rooms[m] \in Rooms BY DEF SInv, IInv, Typed
<1>2. rooms[m] = [rooms[m] EXCEPT !.begun = rooms[m].begun] /\ rooms[m].begun \in BOOLEAN
  BY <1>1 DEF Rooms, RoomOf
<1>3. rooms' = [rooms EXCEPT ![m] = [rooms[m] EXCEPT !.begun = rooms[m].begun, !.turn = x]]
  BY <1>1 DEF SInv, IInv, Typed, Rooms, RoomOf
<1> QED BY <1>2, <1>3, TurnSeats

LEMMA HandSeats ==
  ASSUME SInv, NEW m \in Matches, PassTurn(m) \/ EndHand(m)
  PROVE  SeatsKept
<1>1. rooms[m] # NoRoom /\ UNCHANGED <<sessions, stored>>
  BY DEF PassTurn, EndHand, CanAct
<1>2. PICK x \in Occupied(rooms[m]) \cup {None, rooms[m].turn} :
        rooms' = [rooms EXCEPT ![m].turn = x]
  BY DEF PassTurn, EndHand
<1>3. x \in SeatsOf(rooms[m].mode) \cup {None}
  BY <1>1, <1>2, TurnType DEF SInv
<1> QED BY <1>1, <1>2, <1>3, TurnMovedSeats

-----------------------------------------------------------------------------
(* The theorems *)

LEMMA InitInv == Init => IInv
<1> SUFFICES ASSUME Init PROVE IInv OBVIOUS
<1>1. Typed BY DEF Init, Typed
<1>2. SessionsFit BY DEF Init, SessionsFit, OneSessionPerPlayer
<1>3. RoomsFit BY DEF Init, RoomsFit
<1> QED BY <1>1, <1>2, <1>3 DEF IInv

LEMMA StepInv == IInv /\ [Next]_vars => IInv' /\ (TableKept \/ UNCHANGED vars)
<1> SUFFICES ASSUME IInv, [Next]_vars PROVE IInv' /\ (TableKept \/ UNCHANGED vars)
  OBVIOUS
<1>1. CASE UNCHANGED vars
  BY <1>1 DEF vars, IInv, Typed, SessionsFit, RoomsFit, OneSessionPerPlayer
<1>2. CASE \E s \in Sockets, m \in Matches : AskJoin(s, m) BY <1>2, AskJoinKeeps
<1>3. CASE \E s \in Sockets, m \in Matches, k \in Kinds : Create(s, m, k)
  BY <1>3, CreateKeeps
<1>4. CASE \E s \in Sockets : FinishJoin(s) BY <1>4, FinishJoinKeeps
<1>5. CASE \E s \in Sockets : LeaveMatch(s) BY <1>5, LeaveMatchKeeps
<1>6. CASE \E s \in Sockets : Disconnect(s) BY <1>6, DisconnectKeeps
<1>7. CASE \E s \in Sockets, x \in Moves : SelectSeat(s, x) BY <1>7, SelectSeatKeeps
<1>8. CASE \E s \in Sockets, b \in BOOLEAN : SetReady(s, b) BY <1>8, SetReadyKeeps
<1>9. CASE \E s \in Sockets, b \in BOOLEAN : ReadForStart(s, b)
  BY <1>9, ReadForStartKeeps
<1>10. CASE \E s \in Sockets : CheckStart(s) BY <1>10, CheckStartKeeps
<1>11. CASE \E s \in Sockets : SaveStart(s) BY <1>11, SaveStartKeeps
<1>12. CASE \E s \in Sockets : BeginHand(s) BY <1>12, BeginHandKeeps
<1>13. CASE \E s \in Sockets : EndStart(s) BY <1>13, EndStartKeeps
<1>14. CASE \E m \in Matches : PassTurn(m) BY <1>14, PassTurnKeeps
<1>15. CASE \E m \in Matches : EndHand(m) BY <1>15, EndHandKeeps
<1> QED BY <1>1, <1>2, <1>3, <1>4, <1>5, <1>6, <1>7, <1>8, <1>9, <1>10, <1>11,
           <1>12, <1>13, <1>14, <1>15 DEF Next

LEMMA Invariant == Spec => []IInv
<1>1. IInv /\ [Next]_vars => IInv' BY StepInv
<1> QED BY InitInv, <1>1, PTL DEF Spec

LEMMA StepSeats == SInv /\ [Next]_vars => SeatsKept
<1> SUFFICES ASSUME SInv, [Next]_vars PROVE SeatsKept OBVIOUS
<1>1. CASE UNCHANGED vars BY <1>1, SameKept DEF vars
<1>2. CASE \E s \in Sockets, m \in Matches : AskJoin(s, m)
  BY <1>2, SameKept DEF AskJoin
<1>3. CASE \E s \in Sockets, m \in Matches, k \in Kinds : Create(s, m, k)
  BY <1>3, CreateSeats
<1>4. CASE \E s \in Sockets : FinishJoin(s)
  BY <1>4, RejoinSeats, JoinAnewSeats DEF FinishJoin
<1>5. CASE \E s \in Sockets : LeaveMatch(s) BY <1>5, LeaveMatchSeats
<1>6. CASE \E s \in Sockets : Disconnect(s) BY <1>6, DisconnectSeats
<1>7. CASE \E s \in Sockets, x \in Moves : SelectSeat(s, x) BY <1>7, SelectSeatSeats
<1>8. CASE \E s \in Sockets, b \in BOOLEAN : SetReady(s, b) BY <1>8, SetReadySeats
<1>9. CASE \E s \in Sockets, b \in BOOLEAN : ReadForStart(s, b)
  BY <1>9, SameKept DEF ReadForStart
<1>10. CASE \E s \in Sockets : CheckStart(s) BY <1>10, CheckStartSeats
<1>11. CASE \E s \in Sockets : SaveStart(s) BY <1>11, SameKept DEF SaveStart
<1>12. CASE \E s \in Sockets : BeginHand(s) BY <1>12, BeginHandSeats
<1>13. CASE \E s \in Sockets : EndStart(s) BY <1>13, SameKept DEF EndStart
<1>14. CASE \E m \in Matches : PassTurn(m) \/ EndHand(m) BY <1>14, HandSeats
<1> QED BY <1>1, <1>2, <1>3, <1>4, <1>5, <1>6, <1>7, <1>8, <1>9, <1>10, <1>11,
           <1>12, <1>13, <1>14 DEF Next

LEMMA SeatsInvariance == Spec => []SInv
<1>1. Init => SInv
  <2>1. Init => TokensFit BY DEF Init, TokensFit
  <2> QED BY <2>1, InitInv DEF SInv
<1>2. SInv /\ [Next]_vars => SInv' BY StepInv, StepSeats DEF SInv, SeatsKept
<1> QED BY <1>1, <1>2, PTL DEF Spec

LEMMA SessionTyped ==
  ASSUME NEW x \in AllSessions
  PROVE  x \in SessionsOf(x.match)
<1>1. x = Session(x.match, x.token, x.seat, x.ready, x.socket) BY DEF AllSessions, Session
<1>2. /\ x.token \in Players /\ x.seat \in SeatsOf("2v2")
      /\ x.ready \in BOOLEAN /\ x.socket \in Sockets
  BY SeatsAreSeats DEF AllSessions
<1> QED BY <1>1, <1>2 DEF SessionsOf

(* The maps of the gateway keep their types, and a session the seat of its *)
(* room, whatever requests, closed sockets and starts come in what order.  *)
THEOREM TypeCorrect == Spec => []TypeOK
<1>1. ASSUME IInv PROVE TypeOK
  <2>1. ASSUME NEW m \in Matches, rooms[m] # NoRoom
        PROVE  LET room == rooms[m]
               IN  /\ room.mode \in {"1v1", "2v2"}
                   /\ room.seats \in [SeatsOf(room.mode) -> Entries]
                   /\ {room.turn, room.reserved} \subseteq SeatsOf(room.mode) \cup {None}
                   /\ {room.begun, room.flexible} \subseteq BOOLEAN
                   /\ \A t \in Players : stored[m][t] # NoSession =>
                                           stored[m][t].seat \in DOMAIN room.seats
    <3> DEFINE room == rooms[m]
    <3>1. room \in Rooms BY <1>1, <2>1 DEF IInv, Typed
    <3>2. \A t \in Players : stored[m][t] # NoSession =>
                                stored[m][t].seat \in DOMAIN room.seats
      BY <1>1, <2>1 DEF IInv, RoomsFit
    <3> HIDE DEF room
    <3>3. SeatEntries \subseteq Entries
      <4>1. Vacant \in Entries BY DEF Entries, Vacant, Entry
      <4>2. /\ [token : {None}, socket : {None}, ready : BOOLEAN, bot : {TRUE}]
                  \subseteq Entries
            /\ [token : Players, socket : Sockets \cup {None}, ready : BOOLEAN,
                bot : {FALSE}] \subseteq Entries
        BY DEF Entries
      <4> QED BY <4>1, <4>2 DEF SeatEntries
    <3>4. /\ room.mode \in {"1v1", "2v2"}
          /\ room.seats \in [SeatsOf(room.mode) -> Entries]
      BY <3>1, <3>3, RoomTyped DEF Modes
    <3>5. /\ {room.turn, room.reserved} \subseteq SeatsOf(room.mode) \cup {None}
          /\ {room.begun, room.flexible} \subseteq BOOLEAN
      BY <3>1 DEF Rooms, RoomOf
    <3> QED BY <3>2, <3>4, <3>5 DEF room
  <2>2. ASSUME NEW s \in Sockets, sessions[s] # NoSession
        PROVE  /\ sessions[s] \in UNION {SessionsOf(m) : m \in Matches}
               /\ sessions[s].token = PlayerOfSocket[s] /\ sessions[s].socket = s
    <3>1. sessions[s] \in AllSessions /\ sessions[s].match \in Matches
      BY <1>1, <2>2, OwnSession
    <3>2. sessions[s] \in SessionsOf(sessions[s].match) BY <3>1, SessionTyped
    <3> QED BY <1>1, <2>2, <3>1, <3>2 DEF IInv, SessionsFit
  <2>3. ASSUME NEW m \in Matches, NEW t \in Players
        PROVE  stored[m][t] \in SessionsOf(m) \cup {NoSession}
    <3>1. stored[m][t] # NoSession => stored[m][t] \in AllSessions /\ stored[m][t].match = m
      BY <1>1 DEF IInv, Typed, SessionsFit
    <3> QED BY <3>1, SessionTyped
  <2>4. hand \in [Matches -> {"absent", "none", "live", "over"}] /\ gone \subseteq Sockets
    BY <1>1 DEF IInv, Typed
  <2> QED BY <2>1, <2>2, <2>3, <2>4 DEF TypeOK
<1> QED BY <1>1, Invariant, PTL

(* However often a player joins, reconnects, moves or leaves, its match is *)
(* played through one socket, the last that joined, and the gateway's two  *)
(* maps of sessions agree on it.                                           *)
THEOREM SessionsAgree == Spec => []OneSessionPerPlayer
<1>1. IInv => OneSessionPerPlayer BY DEF IInv, SessionsFit
<1> QED BY <1>1, Invariant, PTL

(* While the sessions of a match agree with its room, no request and no    *)
(* closed socket empties a seat of a table that has begun.                 *)
THEOREM TableKeptWhileAgreed == Spec => AgreedTableKept
<1>1. IInv /\ [Next]_vars => [TableKept]_vars BY StepInv
<1>2. [TableKept]_vars => [\A m \in Matches :
         /\ Agreed(m) /\ rooms[m] # NoRoom /\ rooms'[m] # NoRoom
         /\ rooms[m].begun
         => Occupied(rooms[m]) \subseteq Occupied(rooms'[m])]_vars
  BY DEF TableKept
<1> QED BY <1>1, <1>2, Invariant, PTL DEF Spec, AgreedTableKept

(* Whoever takes a seat another human has, had it before and reconnects:   *)
(* no newcomer, move or reservation unseats anybody, in any order of joins *)
(* that wait for a profile, closed sockets and starts.                     *)
THEOREM SeatsPassToReturning == Spec => SeatPassesOnlyToReturning
<1>1. SInv /\ [Next]_vars => [SeatPassed]_vars BY StepSeats DEF SeatsKept
<1>2. [SeatPassed]_vars => [\A m \in Matches : rooms[m] # NoRoom /\ rooms'[m] # NoRoom =>
         \A x \in Humans(rooms[m]) \cap Humans(rooms'[m]) :
           LET t == rooms[m].seats[x].token
               u == rooms'[m].seats[x].token
           IN  t # u => stored[m][u] # NoSession /\ stored[m][u].seat = x]_vars
  BY DEF SeatPassed
<1> QED BY <1>1, <1>2, SeatsInvariance, PTL DEF Spec, SeatPassesOnlyToReturning

(* Sessions and seats come apart only when a bot's seat is given away that *)
(* an absent player still comes back to, or with the room of a match that  *)
(* its last human left.                                                    *)
THEOREM AgreementIsKept == Spec => AgreementLostOnlyTo
<1>1. SInv /\ [Next]_vars => [AgreementKept]_vars BY StepSeats DEF SeatsKept
<1>2. [AgreementKept]_vars => [\A m \in Matches : Agreed(m) /\ ~Agreed(m)' =>
         \/ rooms'[m] = NoRoom
         \/ \E t, u \in Players :
              /\ t # u /\ stored[m][t] # NoSession
              /\ rooms[m].seats[stored[m][t].seat].bot
              /\ rooms'[m].seats[stored[m][t].seat].token = u]_vars
  BY DEF AgreementKept
<1> QED BY <1>1, <1>2, SeatsInvariance, PTL DEF Spec, AgreementLostOnlyTo
=============================================================================
