----------------------------- MODULE TableProofs -----------------------------
(* The types of a table's state, where the turn rests between its          *)
(* operations, and what wakes the bots: for both kinds of table, any       *)
(* people on its seats, and any interleaving of requests, bots and timers. *)
EXTENDS Table, FiniteSetTheorems, TLAPS

-----------------------------------------------------------------------------
(* The table *)

LEMMA SeatsAre ==
  ASSUME TableAssumption
  PROVE  /\ \/ Len(TurnOrder) = 2 /\ Seats = {"T1A", "T2A"}
               /\ TurnOrder[1] = "T1A" /\ TurnOrder[2] = "T2A"
            \/ Len(TurnOrder) = 4 /\ Seats = {"T1A", "T2A", "T1B", "T2B"}
               /\ TurnOrder[1] = "T1A" /\ TurnOrder[2] = "T2A"
               /\ TurnOrder[3] = "T1B" /\ TurnOrder[4] = "T2B"
         /\ DOMAIN TurnOrder = 1..Len(TurnOrder)
<1>1. CASE TurnOrder = <<"T1A", "T2A">>
  <2>1. Len(TurnOrder) = 2 /\ DOMAIN TurnOrder = 1..2 /\ 1..2 = {1, 2}
    BY <1>1
  <2>2. Seats = {TurnOrder[1], TurnOrder[2]} BY <2>1 DEF Seats
  <2> QED BY <1>1, <2>1, <2>2
<1>2. CASE TurnOrder = <<"T1A", "T2A", "T1B", "T2B">>
  <2>1. Len(TurnOrder) = 4 /\ DOMAIN TurnOrder = 1..4 /\ 1..4 = {1, 2, 3, 4}
    BY <1>2
  <2>2. Seats = {TurnOrder[1], TurnOrder[2], TurnOrder[3], TurnOrder[4]}
    BY <2>1 DEF Seats
  <2> QED BY <1>2, <2>1, <2>2
<1> QED BY <1>1, <1>2 DEF TableAssumption

\* A seat's place in the order of play.
Place(seat) == CHOOSE p \in DOMAIN TurnOrder : TurnOrder[p] = seat

LEMMA PlaceIs ==
  ASSUME TableAssumption
  PROVE  /\ \A p \in 1..Len(TurnOrder) : TurnOrder[p] \in Seats /\ Place(TurnOrder[p]) = p
         /\ \A s \in Seats : Place(s) \in 1..Len(TurnOrder) /\ TurnOrder[Place(s)] = s
<1>1. \A p, q \in 1..Len(TurnOrder) : TurnOrder[p] = TurnOrder[q] => p = q
  BY SeatsAre
<1>2. DOMAIN TurnOrder = 1..Len(TurnOrder) BY SeatsAre
<1>3. \A p \in 1..Len(TurnOrder) : TurnOrder[p] \in Seats BY <1>2 DEF Seats
<1>4. \A s \in Seats : \E p \in 1..Len(TurnOrder) : TurnOrder[p] = s BY <1>2 DEF Seats
<1> QED BY <1>1, <1>2, <1>3, <1>4 DEF Place

LEMMA NextSeatIs ==
  ASSUME TableAssumption, NEW s \in Seats
  PROVE  /\ NextSeat(s) = TurnOrder[(Place(s) % Len(TurnOrder)) + 1]
         /\ NextSeat(s) \in Seats
         /\ Place(NextSeat(s)) = (Place(s) % Len(TurnOrder)) + 1
<1>1. NextSeat(s) = TurnOrder[(Place(s) % Len(TurnOrder)) + 1]
  BY DEF NextSeat, Place
<1>2. Place(s) \in 1..Len(TurnOrder) /\ Len(TurnOrder) \in {2, 4} BY SeatsAre, PlaceIs
<1>3. (Place(s) % Len(TurnOrder)) + 1 \in 1..Len(TurnOrder) BY <1>2
<1> QED BY <1>1, <1>3, PlaceIs

\* Nobody is before a seat by no places; whoever is k places before a seat is
\* one more before the next.
LEMMA BeforeNext ==
  ASSUME TableAssumption, NEW s \in Seats, NEW k \in Nat, k <= 4
  PROVE  /\ Before(s, 0) = {}
         /\ Before(NextSeat(s), k + 1) = Before(s, k) \cup {s}
<1> DEFINE n == Len(TurnOrder)
           i == Place(s)
           at(p, j) == TurnOrder[((p - 1 - j) % n) + 1]
<1>1. n \in {2, 4} /\ i \in 1..n /\ TurnOrder[i] = s BY SeatsAre, PlaceIs
<1>2. \A t, m : Before(t, m) = {at(Place(t), j) : j \in 1..m} BY DEF Before, Place
<1>3. Before(s, 0) = {} BY <1>2
<1> DEFINE q == (i % n) + 1
<1>4. Place(NextSeat(s)) = q BY NextSeatIs
<1>5. at(q, 1) = s
  <2>1. ((q - 1 - 1) % n) + 1 = i BY <1>1
  <2> QED BY <1>1, <2>1
<1>6. \A j \in 1..4 : at(q, j + 1) = at(i, j)
  <2>1. \A j \in 1..4 : (q - 1 - (j + 1)) % n = (i - 1 - j) % n
    <3>1. CASE n = 2 BY <1>1, <3>1
    <3>2. CASE n = 4 BY <1>1, <3>2
    <3> QED BY <1>1, <3>1, <3>2
  <2> QED BY <2>1
<1>7. Before(NextSeat(s), k + 1) = {at(q, j) : j \in 1..(k + 1)}
  BY <1>2, <1>4
<1>8. Before(s, k) = {at(i, j) : j \in 1..k} BY <1>2
<1> HIDE DEF at, q, i
<1>9. \A j \in 1..(k + 1) : j = 1 \/ (j - 1 \in 1..k /\ j - 1 \in 1..4) OBVIOUS
<1>10. \A j \in 1..k : j + 1 \in 1..(k + 1) /\ j \in 1..4 OBVIOUS
<1>11. 1 \in 1..(k + 1) OBVIOUS
<1>12. ASSUME NEW x \in Before(NextSeat(s), k + 1) PROVE x \in Before(s, k) \cup {s}
  <2>1. PICK j \in 1..(k + 1) : x = at(q, j) BY <1>7
  <2>2. CASE j = 1 BY <1>5, <2>1, <2>2
  <2>3. CASE j # 1
    <3>1. j - 1 \in 1..k /\ j - 1 \in 1..4 /\ (j - 1) + 1 = j BY <1>9, <2>3
    <3>2. at(q, j) = at(i, j - 1) BY <1>6, <3>1
    <3> QED BY <1>8, <2>1, <3>1, <3>2
  <2> QED BY <2>2, <2>3
<1>13. ASSUME NEW x \in Before(s, k) PROVE x \in Before(NextSeat(s), k + 1)
  <2>1. PICK j \in 1..k : x = at(i, j) BY <1>8
  <2>2. at(q, j + 1) = x BY <1>6, <1>10, <2>1
  <2> QED BY <1>7, <1>10, <2>1, <2>2
<1>14. s \in Before(NextSeat(s), k + 1) BY <1>5, <1>7, <1>11
<1> QED BY <1>3, <1>12, <1>13, <1>14

-----------------------------------------------------------------------------
(* Types *)

Pcs == {"begin", "decide", "check", "read", "load", "save", "then", "after",
        "pace", "ensure", "flow", "arm"}
Kinds == {"play", "ask", "accept", "decline", "onzeYes", "onzeNo", "approve",
          "expire", "timeout", "wake", "bot", "advise"}

\* An offer leaves a rung to raise to; a mao de onze is decided before a card is
\* played or a bet is made.
RowOK(r) ==
  /\ r \in RowType
  /\ r.asked # None => r.level < MaxLevel
  /\ r.onze # None => r.played = {} /\ r.taken = None /\ r.asked = None

TaskType ==
  [ pc : Pcs, kind : Kinds, seat : Seats \cup Team \cup {None}, base : RowType,
    see : RowType, copy : RowType, rung : Level, back : Seats \cup {None} ]

\* A timeout acts for a team, and every other operation on the hand for a seat.
\* A bot's turn ends when it knows what to do; what only wakes bots or advises
\* does not change the hand.
Acts(kind, pc, seat) ==
  /\ kind = "timeout" => seat \in Team
  /\ kind \notin {"timeout", "bot", "wake"} => seat \in Seats
  /\ pc \in {"decide", "read", "after"} => seat \in Seats
  /\ kind = "bot" <=> pc \in {"begin", "decide"}
  /\ kind \in {"wake", "advise"} => pc \in {"ensure", "flow", "arm"}

TaskOK(t) ==
  /\ t \in TaskType
  /\ RowOK(t.base) /\ RowOK(t.see) /\ RowOK(t.copy)
  /\ Acts(t.kind, t.pc, t.seat)

GatewayOK ==
  /\ turn \in Seats \cup {None} /\ resume \in Seats \cup {None}
  /\ bots \subseteq Seats /\ botTimer \in BOOLEAN /\ overlapped \in BOOLEAN
  /\ proposal = NoProposal \/ (proposal.seat \in Seats /\ proposal.rung \in 1..MaxLevel)
  /\ decision \in [team : Team \cup {None}, rung : Level, timer : BOOLEAN]
  /\ decision # NoDecision => decision.team \in Team /\ decision.rung \in 1..MaxLevel

TasksOK ==
  /\ tasks \in [Slots -> TaskType \cup {Idle}]
  /\ \A s \in Slots : tasks[s] # Idle => TaskOK(tasks[s])

TInv == RowOK(row) /\ GatewayOK /\ TasksOK

LEMMA NoneIs ==
  ASSUME TableAssumption
  PROVE  None \notin Seats /\ None \notin Team /\ "TIE" \notin Seats
BY SeatsAre DEF None, Team

LEMMA TeamIs == \A s : TeamOf(s) \in Team /\ Other(s) \in Team
BY DEF TeamOf, Other, Team

LEMMA BusyTask ==
  ASSUME NEW t \in TaskType
  PROVE  t # Idle
<1>1. t.pc # "idle" BY DEF TaskType, Pcs
<1> QED BY <1>1 DEF Idle

\* A row is its fields.
LEMMA RowFields ==
  ASSUME NEW r \in RowType
  PROVE  /\ r.live \in BOOLEAN /\ r.round \in 1..3 /\ r.played \subseteq Seats
         /\ r.asked \in Team \cup {None} /\ r.level \in Level
         /\ r.authority \in Team \cup {None} /\ r.onze \in Team \cup {None}
         /\ r.capped \in BOOLEAN /\ r.taken \in Seats \cup {"TIE", None}
BY DEF RowType

LEMMA LevelIs == ASSUME TableAssumption PROVE MaxLevel \in 1..4 /\ Level = 0..MaxLevel
BY DEF TableAssumption, Level

LEMMA NewRowOK ==
  ASSUME TableAssumption, NEW onze \in Team \cup {None}
  PROVE  RowOK(NewRow(onze)) /\ RowOK(OverRow)
<1>1. RowOK(NewRow(onze)) /\ RowOK(NewRow(None))
  BY LevelIs DEF RowOK, RowType, NewRow, None
<1>2. OverRow \in RowType /\ OverRow.asked = None /\ OverRow.onze = None
  BY <1>1 DEF OverRow, NewRow, RowOK, RowType
<1> QED BY <1>1, <1>2 DEF RowOK

LEMMA GlanceOK ==
  ASSUME NEW r, RowOK(r)
  PROVE  RowOK(Glance(r))
<1> DEFINE g == [r EXCEPT !.round = 1, !.played = {}, !.taken = None]
<1>1. g \in RowType /\ g.played = {} /\ g.taken = None
  <2>1. r \in RowType /\ 1 \in 1..3 BY DEF RowOK
  <2> QED BY <2>1 DEF RowType
<1>2. r \in RowType /\ g.asked = r.asked /\ g.level = r.level /\ g.onze = r.onze
  BY DEF RowOK, RowType
<1>3. Glance(r) = g BY DEF Glance
<1> HIDE DEF g
<1> QED BY <1>1, <1>2, <1>3 DEF RowOK

LEMMA PlayedOK ==
  ASSUME TableAssumption, NEW r, RowOK(r), NEW seat \in Seats, MayPlay(r, seat),
         NEW p \in Played(r, seat)
  PROVE  /\ RowOK(p) /\ p.asked = None
         /\ \/ p.live /\ p.round = r.round /\ p.played = r.played \cup {seat} /\ p.taken = None
            \/ p.live /\ p.round = r.round + 1 /\ p.played = {}
            \/ ~p.live
<1> DEFINE more == r.played \cup {seat}
           On == [r EXCEPT !.played = more, !.taken = None]
           Opened(w) == [r EXCEPT !.round = r.round + 1, !.played = {}, !.taken = w]
<1>1. r \in RowType /\ r.asked = None /\ r.onze = None /\ r.live
  BY DEF RowOK, MayPlay
<1>2. \/ p = On
      \/ r.round < MaxRounds /\ \E w \in Seats \cup {"TIE"} : p = Opened(w)
      \/ p = OverRow
  BY DEF Played
<1>3. CASE p = On
  <2>1. /\ On \in RowType /\ On.asked = None /\ On.onze = None /\ On.live
        /\ On.round = r.round /\ On.played = more /\ On.taken = None
    BY <1>1 DEF RowType
  <2> QED BY <1>3, <2>1 DEF RowOK
<1>4. ASSUME NEW w \in Seats \cup {"TIE"}, r.round < MaxRounds, p = Opened(w)
      PROVE  p.live /\ p.round = r.round + 1 /\ p.played = {} /\ p.asked = None /\ RowOK(p)
  <2>1. r.round + 1 \in 1..3 BY <1>1, <1>4, RowFields DEF TableAssumption
  <2>2. /\ Opened(w) \in RowType /\ Opened(w).asked = None /\ Opened(w).onze = None
        /\ Opened(w).live /\ Opened(w).round = r.round + 1 /\ Opened(w).played = {}
    BY <1>1, <2>1 DEF RowType
  <2> QED BY <1>4, <2>2 DEF RowOK
<1>5. CASE p = OverRow
  <2>1. ~OverRow.live /\ OverRow.asked = None BY DEF OverRow, NewRow
  <2> QED BY <1>5, <2>1, NewRowOK DEF Team
<1> QED BY <1>2, <1>3, <1>4, <1>5

LEMMA AskedOK ==
  ASSUME TableAssumption, NEW r, RowOK(r), NEW team \in Team, NEW rung,
         MayAsk(r, team, rung)
  PROVE  /\ RowOK(Asked(r, team)) /\ Asked(r, team).asked = team
         /\ Asked(r, team).live /\ Asked(r, team).played = r.played
         /\ Asked(r, team).taken = r.taken
         /\ rung \in 1..MaxLevel
<1> DEFINE level == IF r.asked # None THEN r.level + 1 ELSE r.level
           authority == IF r.asked # None THEN team ELSE r.authority
           a == [r EXCEPT !.asked = team, !.level = level, !.authority = authority]
<1>1. Asked(r, team) = a BY DEF Asked, RowOK, RowType
<1>2. r \in RowType /\ r.live /\ r.onze = None /\ rung \in 0..MaxLevel
  BY LevelIs DEF RowOK, MayAsk
<1>3. r.level \in 0..MaxLevel /\ MaxLevel \in 1..4 BY <1>2, LevelIs, RowFields
<1>4. /\ r.asked # None => rung = r.level + 2
      /\ r.asked = None => rung = r.level + 1
  BY <1>2, TeamIs, NoneIs DEF MayAsk
<1>5. level \in 0..MaxLevel /\ level < MaxLevel /\ rung \in 1..MaxLevel
  BY <1>2, <1>3, <1>4
<1>6. authority \in Team \cup {None} BY <1>2, RowFields
<1> HIDE DEF level, authority
<1>7. /\ a \in RowType /\ a.asked = team /\ a.level = level /\ a.live
      /\ a.played = r.played /\ a.taken = r.taken /\ a.onze = None
  BY <1>2, <1>5, <1>6, LevelIs DEF RowType
<1> QED BY <1>1, <1>5, <1>7 DEF RowOK

LEMMA AcceptedOK ==
  ASSUME TableAssumption, NEW r, RowOK(r), NEW team \in Team, MayAnswer(r, team)
  PROVE  /\ RowOK(Accepted(r, team)) /\ Accepted(r, team).asked = None
         /\ Accepted(r, team).live
         /\ Accepted(r, team).played = r.played
         /\ Accepted(r, team).taken = r.taken
<1> DEFINE level == r.level + 1
           a == [r EXCEPT !.asked = None, !.level = level, !.authority = team]
<1>1. r \in RowType /\ r.live /\ r.asked \in Team 
  BY TeamIs DEF RowOK, MayAnswer
<1>2. r.level < MaxLevel /\ r.onze = None
  BY <1>1, NoneIs, RowFields DEF RowOK
<1>3. level \in Level BY <1>1, <1>2, LevelIs, RowFields
<1> HIDE DEF level
<1>4. /\ a \in RowType /\ a.asked = None /\ a.live /\ a.onze = None
      /\ a.played = r.played /\ a.taken = r.taken
  BY <1>1, <1>2, <1>3 DEF RowType
<1>5. Accepted(r, team) = a BY DEF Accepted, level
<1> QED BY <1>4, <1>5 DEF RowOK

LEMMA DecidedOK ==
  ASSUME TableAssumption, NEW r, RowOK(r), NEW team \in Team, MayDecideOnze(r, team)
  PROVE  LET d == [r EXCEPT !.onze = None]
         IN  /\ RowOK(d) /\ d.asked = None /\ d.played = {} /\ d.taken = None /\ d.live
<1>1. r \in RowType /\ r.live /\ r.onze # None BY NoneIs DEF RowOK, MayDecideOnze
<1>2. r.asked = None /\ r.played = {} /\ r.taken = None BY <1>1 DEF RowOK
<1> DEFINE d == [r EXCEPT !.onze = None]
<1>3. /\ d \in RowType /\ d.asked = None /\ d.played = {} /\ d.taken = None /\ d.live
      /\ d.onze = None
  BY <1>1, <1>2 DEF RowType
<1> QED BY <1>3 DEF RowOK

\* A handler that begins.
LEMMA TaskMade ==
  ASSUME TableAssumption, NEW kind \in Kinds, NEW pc \in Pcs,
         NEW seat \in Seats \cup Team \cup {None}, Acts(kind, pc, seat)
  PROVE  LET t == Task(kind, pc, seat)
         IN  TaskOK(t) /\ t.pc = pc /\ t.kind = kind /\ t.seat = seat
<1> DEFINE t == Task(kind, pc, seat)
<1>1. RowOK(OverRow) /\ OverRow \in RowType BY NewRowOK DEF RowOK, Team
<1>2. 0 \in Level BY LevelIs
<1>3. t = [ pc |-> pc, kind |-> kind, seat |-> seat, base |-> OverRow, see |-> OverRow,
            copy |-> OverRow, rung |-> 0, back |-> None ]
  BY DEF Task
<1> HIDE DEF t
<1>4. /\ t.pc = pc /\ t.kind = kind /\ t.seat = seat
      /\ t.base = OverRow /\ t.see = OverRow /\ t.copy = OverRow
  BY <1>3
<1>5. t \in TaskType BY <1>1, <1>2, <1>3 DEF TaskType
<1>6. TaskOK(t) BY <1>1, <1>4, <1>5 DEF TaskOK
<1> QED BY <1>4, <1>6 DEF t

\* A handler that goes on, with other hands or another seat.
LEMMA TaskGoes ==
  ASSUME NEW t, TaskOK(t), NEW pc \in Pcs, NEW base, RowOK(base), NEW see, RowOK(see),
         NEW copy, RowOK(copy), NEW seat \in Seats \cup Team \cup {None},
         Acts(t.kind, pc, seat),
         NEW rung \in Level, NEW back \in Seats \cup {None}, NEW u,
         u = [ pc |-> pc, kind |-> t.kind, seat |-> seat, base |-> base, see |-> see,
               copy |-> copy, rung |-> rung, back |-> back ]
  PROVE  /\ TaskOK(u)
         /\ u.pc = pc /\ u.kind = t.kind /\ u.seat = seat /\ u.base = base /\ u.see = see
         /\ u.copy = copy /\ u.rung = rung /\ u.back = back
<1>1. /\ u.pc = pc /\ u.kind = t.kind /\ u.seat = seat /\ u.base = base /\ u.see = see
      /\ u.copy = copy /\ u.rung = rung /\ u.back = back
  OBVIOUS
<1>2. base \in RowType /\ see \in RowType /\ copy \in RowType /\ t.kind \in Kinds
  BY DEF RowOK, TaskOK, TaskType
<1>3. u \in TaskType BY <1>2 DEF TaskType
<1> QED BY <1>1, <1>3 DEF TaskOK

\* A task is its fields.
LEMMA TaskFields ==
  ASSUME NEW t, TaskOK(t)
  PROVE  /\ t = [ pc |-> t.pc, kind |-> t.kind, seat |-> t.seat, base |-> t.base,
                  see |-> t.see, copy |-> t.copy, rung |-> t.rung, back |-> t.back ]
         /\ t.pc \in Pcs /\ t.kind \in Kinds /\ t.seat \in Seats \cup Team \cup {None}
         /\ t.rung \in Level /\ t.back \in Seats \cup {None}
         /\ RowOK(t.base) /\ RowOK(t.see) /\ RowOK(t.copy)
         /\ Acts(t.kind, t.pc, t.seat)
BY DEF TaskOK, TaskType

\* A handler goes to its next step.
LEMMA GoesTo ==
  ASSUME NEW t, TaskOK(t), NEW pc \in Pcs, Acts(t.kind, pc, t.seat)
  PROVE  LET u == [t EXCEPT !.pc = pc]
         IN  TaskOK(u) /\ u.pc = pc /\ u.kind = t.kind /\ u.seat = t.seat
             /\ u.base = t.base /\ u.see = t.see /\ u.copy = t.copy /\ u.back = t.back
             /\ u.rung = t.rung
<1> DEFINE u == [t EXCEPT !.pc = pc]
<1>1. u = [ pc |-> pc, kind |-> t.kind, seat |-> t.seat, base |-> t.base,
            see |-> t.see, copy |-> t.copy, rung |-> t.rung, back |-> t.back ]
  BY TaskFields
<1> HIDE DEF u
<1>2. /\ TaskOK(u)
      /\ u.pc = pc /\ u.kind = t.kind /\ u.seat = t.seat /\ u.base = t.base /\ u.see = t.see
      /\ u.copy = t.copy /\ u.rung = t.rung /\ u.back = t.back
  BY <1>1, TaskFields, TaskGoes
<1> QED BY <1>2 DEF u

\* One field of a record that is its fields.
LEMMA FieldSet ==
  ASSUME NEW t, NEW pc, NEW seat, NEW base, NEW see, NEW copy, NEW back,
         t = [ pc |-> t.pc, kind |-> t.kind, seat |-> t.seat, base |-> t.base,
               see |-> t.see, copy |-> t.copy, rung |-> t.rung, back |-> t.back ]
  PROVE  /\ [t EXCEPT !.pc = pc]
            = [ pc |-> pc, kind |-> t.kind, seat |-> t.seat, base |-> t.base,
                see |-> t.see, copy |-> t.copy, rung |-> t.rung, back |-> t.back ]
         /\ [t EXCEPT !.seat = seat]
            = [ pc |-> t.pc, kind |-> t.kind, seat |-> seat, base |-> t.base,
                see |-> t.see, copy |-> t.copy, rung |-> t.rung, back |-> t.back ]
         /\ [t EXCEPT !.base = base]
            = [ pc |-> t.pc, kind |-> t.kind, seat |-> t.seat, base |-> base,
                see |-> t.see, copy |-> t.copy, rung |-> t.rung, back |-> t.back ]
         /\ [t EXCEPT !.see = see]
            = [ pc |-> t.pc, kind |-> t.kind, seat |-> t.seat, base |-> t.base,
                see |-> see, copy |-> t.copy, rung |-> t.rung, back |-> t.back ]
         /\ [t EXCEPT !.copy = copy]
            = [ pc |-> t.pc, kind |-> t.kind, seat |-> t.seat, base |-> t.base,
                see |-> t.see, copy |-> copy, rung |-> t.rung, back |-> t.back ]
         /\ [t EXCEPT !.back = back]
            = [ pc |-> t.pc, kind |-> t.kind, seat |-> t.seat, base |-> t.base,
                see |-> t.see, copy |-> t.copy, rung |-> t.rung, back |-> back ]
OBVIOUS

\* What the steps change of a task.
LEMMA LookSet ==
  ASSUME NEW t, TaskOK(t), NEW pc, NEW see, NEW seat,
         NEW w, w = [t EXCEPT !.pc = pc, !.see = see, !.seat = seat]
  PROVE  w = [ pc |-> pc, kind |-> t.kind, seat |-> seat, base |-> t.base,
               see |-> see, copy |-> t.copy, rung |-> t.rung, back |-> t.back ]
<1>0. t = [ pc |-> t.pc, kind |-> t.kind, seat |-> t.seat, base |-> t.base,
            see |-> t.see, copy |-> t.copy, rung |-> t.rung, back |-> t.back ]
  BY TaskFields
<1> DEFINE u == [t EXCEPT !.pc = pc]
           v == [u EXCEPT !.see = see]
<1>1. u = [ pc |-> pc, kind |-> t.kind, seat |-> t.seat, base |-> t.base,
            see |-> t.see, copy |-> t.copy, rung |-> t.rung, back |-> t.back ]
  BY <1>0, FieldSet
<1> HIDE DEF u
<1>2. v = [ pc |-> pc, kind |-> t.kind, seat |-> t.seat, base |-> t.base,
            see |-> see, copy |-> t.copy, rung |-> t.rung, back |-> t.back ]
  BY <1>1, FieldSet
<1> HIDE DEF v
<1>3. [v EXCEPT !.seat = seat] = [ pc |-> pc, kind |-> t.kind, seat |-> seat, base |-> t.base,
            see |-> see, copy |-> t.copy, rung |-> t.rung, back |-> t.back ]
  BY <1>2, FieldSet
<1>4. w = [v EXCEPT !.seat = seat]
  BY DEF u, v
<1> QED BY <1>3, <1>4

LEMMA BaseBackFields ==
  ASSUME NEW t, TaskOK(t), NEW base, NEW back,
         NEW w, w = [t EXCEPT !.base = base, !.back = back]
  PROVE  w = [ pc |-> t.pc, kind |-> t.kind, seat |-> t.seat, base |-> base,
               see |-> t.see, copy |-> t.copy, rung |-> t.rung, back |-> back ]
<1>0. t = [ pc |-> t.pc, kind |-> t.kind, seat |-> t.seat, base |-> t.base,
            see |-> t.see, copy |-> t.copy, rung |-> t.rung, back |-> t.back ]
  BY TaskFields
<1> DEFINE u == [t EXCEPT !.base = base]
<1>1. u = [ pc |-> t.pc, kind |-> t.kind, seat |-> t.seat, base |-> base,
            see |-> t.see, copy |-> t.copy, rung |-> t.rung, back |-> t.back ]
  BY <1>0, FieldSet
<1> HIDE DEF u
<1>3. [u EXCEPT !.back = back] = [ pc |-> t.pc, kind |-> t.kind, seat |-> t.seat, base |-> base,
            see |-> t.see, copy |-> t.copy, rung |-> t.rung, back |-> back ]
  BY <1>1, FieldSet
<1>4. w = [u EXCEPT !.back = back]
  BY DEF u
<1> QED BY <1>3, <1>4

LEMMA BaseSet ==
  ASSUME NEW t, TaskOK(t), NEW base, NEW pc,
         NEW w, w = [t EXCEPT !.base = base, !.pc = pc]
  PROVE  w = [ pc |-> pc, kind |-> t.kind, seat |-> t.seat, base |-> base,
               see |-> t.see, copy |-> t.copy, rung |-> t.rung, back |-> t.back ]
<1>0. t = [ pc |-> t.pc, kind |-> t.kind, seat |-> t.seat, base |-> t.base,
            see |-> t.see, copy |-> t.copy, rung |-> t.rung, back |-> t.back ]
  BY TaskFields
<1> DEFINE u == [t EXCEPT !.base = base]
<1>1. u = [ pc |-> t.pc, kind |-> t.kind, seat |-> t.seat, base |-> base,
            see |-> t.see, copy |-> t.copy, rung |-> t.rung, back |-> t.back ]
  BY <1>0, FieldSet
<1> HIDE DEF u
<1>3. [u EXCEPT !.pc = pc] = [ pc |-> pc, kind |-> t.kind, seat |-> t.seat, base |-> base,
            see |-> t.see, copy |-> t.copy, rung |-> t.rung, back |-> t.back ]
  BY <1>1, FieldSet
<1>4. w = [u EXCEPT !.pc = pc]
  BY DEF u
<1> QED BY <1>3, <1>4

LEMMA CopySet ==
  ASSUME NEW t, TaskOK(t), NEW copy, NEW pc,
         NEW w, w = [t EXCEPT !.copy = copy, !.pc = pc]
  PROVE  w = [ pc |-> pc, kind |-> t.kind, seat |-> t.seat, base |-> t.base,
               see |-> t.see, copy |-> copy, rung |-> t.rung, back |-> t.back ]
<1>0. t = [ pc |-> t.pc, kind |-> t.kind, seat |-> t.seat, base |-> t.base,
            see |-> t.see, copy |-> t.copy, rung |-> t.rung, back |-> t.back ]
  BY TaskFields
<1> DEFINE u == [t EXCEPT !.copy = copy]
<1>1. u = [ pc |-> t.pc, kind |-> t.kind, seat |-> t.seat, base |-> t.base,
            see |-> t.see, copy |-> copy, rung |-> t.rung, back |-> t.back ]
  BY <1>0, FieldSet
<1> HIDE DEF u
<1>3. [u EXCEPT !.pc = pc] = [ pc |-> pc, kind |-> t.kind, seat |-> t.seat, base |-> t.base,
            see |-> t.see, copy |-> copy, rung |-> t.rung, back |-> t.back ]
  BY <1>1, FieldSet
<1>4. w = [u EXCEPT !.pc = pc]
  BY DEF u
<1> QED BY <1>3, <1>4

LEMMA ShownSet ==
  ASSUME NEW t, TaskOK(t), NEW base, NEW see, NEW pc,
         NEW w, w = [t EXCEPT !.base = base, !.see = see, !.pc = pc]
  PROVE  w = [ pc |-> pc, kind |-> t.kind, seat |-> t.seat, base |-> base,
               see |-> see, copy |-> t.copy, rung |-> t.rung, back |-> t.back ]
<1>0. t = [ pc |-> t.pc, kind |-> t.kind, seat |-> t.seat, base |-> t.base,
            see |-> t.see, copy |-> t.copy, rung |-> t.rung, back |-> t.back ]
  BY TaskFields
<1> DEFINE u == [t EXCEPT !.base = base]
           v == [u EXCEPT !.see = see]
<1>1. u = [ pc |-> t.pc, kind |-> t.kind, seat |-> t.seat, base |-> base,
            see |-> t.see, copy |-> t.copy, rung |-> t.rung, back |-> t.back ]
  BY <1>0, FieldSet
<1> HIDE DEF u
<1>2. v = [ pc |-> t.pc, kind |-> t.kind, seat |-> t.seat, base |-> base,
            see |-> see, copy |-> t.copy, rung |-> t.rung, back |-> t.back ]
  BY <1>1, FieldSet
<1> HIDE DEF v
<1>3. [v EXCEPT !.pc = pc] = [ pc |-> pc, kind |-> t.kind, seat |-> t.seat, base |-> base,
            see |-> see, copy |-> t.copy, rung |-> t.rung, back |-> t.back ]
  BY <1>2, FieldSet
<1>4. w = [v EXCEPT !.pc = pc]
  BY DEF u, v
<1> QED BY <1>3, <1>4

LEMMA SeeSet ==
  ASSUME NEW t, TaskOK(t), NEW see, NEW pc,
         NEW w, w = [t EXCEPT !.see = see, !.pc = pc]
  PROVE  w = [ pc |-> pc, kind |-> t.kind, seat |-> t.seat, base |-> t.base,
               see |-> see, copy |-> t.copy, rung |-> t.rung, back |-> t.back ]
<1>0. t = [ pc |-> t.pc, kind |-> t.kind, seat |-> t.seat, base |-> t.base,
            see |-> t.see, copy |-> t.copy, rung |-> t.rung, back |-> t.back ]
  BY TaskFields
<1> DEFINE u == [t EXCEPT !.see = see]
<1>1. u = [ pc |-> t.pc, kind |-> t.kind, seat |-> t.seat, base |-> t.base,
            see |-> see, copy |-> t.copy, rung |-> t.rung, back |-> t.back ]
  BY <1>0, FieldSet
<1> HIDE DEF u
<1>3. [u EXCEPT !.pc = pc] = [ pc |-> pc, kind |-> t.kind, seat |-> t.seat, base |-> t.base,
            see |-> see, copy |-> t.copy, rung |-> t.rung, back |-> t.back ]
  BY <1>1, FieldSet
<1>4. w = [u EXCEPT !.pc = pc]
  BY DEF u
<1> QED BY <1>3, <1>4

LEMMA BaseBackGoes ==
  ASSUME NEW t, TaskOK(t), NEW base, RowOK(base), NEW back \in Seats \cup {None}, NEW u,
         u = [ pc |-> t.pc, kind |-> t.kind, seat |-> t.seat, base |-> base,
               see |-> t.see, copy |-> t.copy, rung |-> t.rung, back |-> back ]
  PROVE  TaskOK(u) /\ u.pc = t.pc /\ u.kind = t.kind /\ u.seat = t.seat /\ u.base = base
<1>1. /\ t.pc \in Pcs /\ t.seat \in Seats \cup Team \cup {None} /\ t.rung \in Level
      /\ RowOK(t.see) /\ RowOK(t.copy) /\ Acts(t.kind, t.pc, t.seat)
  BY TaskFields
<1> QED BY <1>1, TaskGoes

\* A handler's step, or its end, keeps the others.
LEMMA TasksStep ==
  ASSUME TasksOK, NEW slot \in Slots, NEW t, t = Idle \/ TaskOK(t),
         tasks' = [tasks EXCEPT ![slot] = t]
  PROVE  /\ TasksOK'
         /\ tasks'[slot] = t /\ \A s \in Slots \ {slot} : tasks'[s] = tasks[s]
<1>1. t \in TaskType \cup {Idle} BY DEF TaskOK
<1>2. tasks' \in [Slots -> TaskType \cup {Idle}] BY <1>1 DEF TasksOK
<1>3. \A s \in Slots : tasks'[s] = IF s = slot THEN t ELSE tasks[s] BY DEF TasksOK
<1>4. \A s \in Slots : tasks'[s] # Idle => TaskOK(tasks'[s])
  BY <1>3 DEF TasksOK
<1> QED BY <1>2, <1>3, <1>4 DEF TasksOK

LEMMA RungSet ==
  ASSUME NEW t, TaskOK(t), NEW rung \in Level
  PROVE  LET u == [t EXCEPT !.rung = rung]
         IN  TaskOK(u) /\ u.pc = t.pc /\ u.kind = t.kind /\ u.seat = t.seat
             /\ u.base = t.base /\ u.see = t.see /\ u.back = t.back /\ u.rung = rung
<1> DEFINE u == [t EXCEPT !.rung = rung]
<1>1. u = [ pc |-> t.pc, kind |-> t.kind, seat |-> t.seat, base |-> t.base,
            see |-> t.see, copy |-> t.copy, rung |-> rung, back |-> t.back ]
  BY TaskFields
<1> HIDE DEF u
<1>2. /\ TaskOK(u)
      /\ u.pc = t.pc /\ u.kind = t.kind /\ u.seat = t.seat /\ u.base = t.base
      /\ u.see = t.see /\ u.back = t.back /\ u.rung = rung
  BY <1>1, TaskFields, TaskGoes
<1> QED BY <1>2 DEF u

LEMMA BackSet ==
  ASSUME NEW t, TaskOK(t), NEW back \in Seats \cup {None}
  PROVE  LET u == [t EXCEPT !.back = back]
         IN  TaskOK(u) /\ u.pc = t.pc /\ u.kind = t.kind /\ u.seat = t.seat
<1> DEFINE u == [t EXCEPT !.back = back]
<1>1. u = [ pc |-> t.pc, kind |-> t.kind, seat |-> t.seat, base |-> t.base,
            see |-> t.see, copy |-> t.copy, rung |-> t.rung, back |-> back ]
  BY TaskFields
<1> HIDE DEF u
<1>2. TaskOK(u) /\ u.pc = t.pc /\ u.kind = t.kind /\ u.seat = t.seat
  BY <1>1, TaskFields, TaskGoes
<1> QED BY <1>2 DEF u

-----------------------------------------------------------------------------
(* The turn and the cards *)

\* The turn is where the cards of the open round put it.
Fits(r, u) ==
  /\ u \in Seats
  /\ r.played = Before(u, Cardinality(r.played))
  /\ r.taken \in Seats => u = r.taken

\* Between operations, and until one saves: a bet will give the turn back to
\* the seat that has it.
Rest == row.live => Fits(row, turn) /\ (row.asked # None => resume = turn)

Op(t) == t.pc \in {"decide", "check", "read", "load", "save", "then", "after"}

\* What an operation knows of the table: until it saves, that the hand is the one
\* it began with, and that a card it plays is the turn's; between its save and
\* its move of the turn, how the hand it left follows from that one.
OpOK(t) ==
  /\ t.pc \in {"decide", "check", "read", "load", "save"} => Rest
  /\ t.pc = "decide" => t.see = Glance(row) /\ (CardIsNext(row) => t.seat = turn)
  /\ t.pc = "check" => t.kind = "timeout"
  /\ t.pc = "read" => t.kind \in {"play", "expire"} /\ t.seat = turn
  /\ t.pc \in {"load", "save"} =>
       /\ t.kind \in {"play", "expire"} =>
            t.base = row /\ (CardIsNext(row) => t.seat = turn)
       /\ t.kind = "approve" => t.seat = turn
  /\ t.pc = "save" => t.copy \in Outcomes(t)
  /\ t.pc = "after" =>
       /\ t.kind \in {"play", "expire"}
       /\ MayPlay(t.base, turn) /\ Fits(t.base, turn)
       /\ row \in Played(t.base, turn) /\ t.seat = turn
  /\ t.pc = "then" =>
       /\ t.kind \in {"ask", "approve", "accept", "onzeYes", "decline", "timeout", "onzeNo"}
       /\ row.live => Fits(row, turn)
       /\ row.asked # None => t.kind \in {"ask", "approve"}
       /\ t.kind = "approve" => t.seat = turn
       /\ t.kind = "accept" => resume = turn
       /\ t.kind = "onzeYes" => row.played = {} /\ row.taken = None
       /\ t.kind \in {"decline", "timeout", "onzeNo"} => ~row.live

\* Nobody operates on the hand; a proposal is the turn's, to bet on this card.
Quiet ==
  /\ \A s \in Slots : ~Op(tasks[s])
  /\ Rest
  /\ proposal # NoProposal => CardIsNext(row) /\ proposal.seat = turn

Busy(s) ==
  /\ Op(tasks[s]) /\ \A o \in Slots \ {s} : ~Op(tasks[o])
  /\ proposal = NoProposal
  /\ OpOK(tasks[s])

AInv == overlapped \/ Quiet \/ \E s \in Slots : Busy(s)

IInv == TInv /\ AInv

LEMMA IdleIs == ~Op(Idle) /\ Idle.pc = "idle"
BY DEF Op, Idle

LEMMA OutcomesSame ==
  ASSUME row' = row, NEW t
  PROVE  Outcomes(t)' = Outcomes(t)
BY DEF Outcomes

LEMMA RestSame ==
  ASSUME UNCHANGED <<row, turn, resume>>
  PROVE  Rest' <=> Rest
BY DEF Rest

LEMMA OpSame ==
  ASSUME UNCHANGED <<row, turn, resume>>, NEW t
  PROVE  OpOK(t)' <=> OpOK(t)
<1>1. Outcomes(t)' = Outcomes(t) BY OutcomesSame
<1>2. Rest' <=> Rest BY RestSame
<1> QED BY <1>1, <1>2 DEF OpOK

LEMMA Others ==
  ASSUME NEW slot \in Slots, \A s \in Slots \ {slot} : tasks'[s] = tasks[s],
         \A o \in Slots \ {slot} : ~Op(tasks[o])
  PROVE  \A o \in Slots \ {slot} : ~Op(tasks'[o])
OBVIOUS

\* A step of nobody's operation.
LEMMA Aside ==
  ASSUME AInv, UNCHANGED <<row, turn, resume, proposal, overlapped>>,
         NEW slot \in Slots, NEW t, ~Op(tasks[slot]), ~Op(t), tasks'[slot] = t,
         \A s \in Slots \ {slot} : tasks'[s] = tasks[s]
  PROVE  AInv'
<1>1. CASE overlapped BY <1>1 DEF AInv
<1>2. CASE Quiet
  <2>1. Quiet' BY <1>2, RestSame DEF Quiet
  <2> QED BY <2>1 DEF AInv
<1>3. ASSUME NEW s \in Slots, Busy(s) PROVE AInv'
  <2>1. s # slot BY <1>3 DEF Busy
  <2>2. tasks'[s] = tasks[s] BY <2>1
  <2>3. \A o \in Slots \ {s} : ~Op(tasks'[o]) BY <1>3 DEF Busy
  <2>4. PICK u : u = tasks[s] OBVIOUS
  <2>5. OpOK(u)' BY <1>3, <2>4, OpSame DEF Busy
  <2>6. Busy(s)' BY <1>3, <2>2, <2>3, <2>4, <2>5 DEF Busy
  <2> QED BY <2>6 DEF AInv
<1> QED BY <1>1, <1>2, <1>3 DEF AInv

\* An operation goes on.
LEMMA GoesOn ==
  ASSUME AInv, UNCHANGED <<proposal, overlapped>>,
         NEW slot \in Slots, NEW t, Op(tasks[slot]), Op(t), tasks'[slot] = t,
         \A s \in Slots \ {slot} : tasks'[s] = tasks[s],
         OpOK(tasks[slot]) => OpOK(t)'
  PROVE  AInv'
<1>1. CASE overlapped BY <1>1 DEF AInv
<1>2. CASE ~overlapped
  <2>1. Busy(slot) BY <1>2 DEF AInv, Quiet, Busy
  <2>2. Busy(slot)' BY <2>1, Others DEF Busy
  <2> QED BY <2>2 DEF AInv
<1> QED BY <1>1, <1>2

\* An operation has moved the turn, or is refused.
LEMMA Ends ==
  ASSUME AInv, UNCHANGED overlapped,
         NEW slot \in Slots, NEW t, Op(tasks[slot]), ~Op(t), tasks'[slot] = t,
         \A s \in Slots \ {slot} : tasks'[s] = tasks[s],
         OpOK(tasks[slot]) /\ proposal = NoProposal =>
           Rest' /\ (proposal' # NoProposal => CardIsNext(row') /\ proposal'.seat = turn')
  PROVE  AInv'
<1>1. CASE overlapped BY <1>1 DEF AInv
<1>2. CASE ~overlapped
  <2>1. Busy(slot) BY <1>2 DEF AInv, Quiet, Busy
  <2>2. \A s \in Slots : ~Op(tasks'[s]) BY <2>1, Others DEF Busy
  <2>3. Quiet' BY <2>1, <2>2 DEF Busy, Quiet, CardIsNext
  <2> QED BY <2>3 DEF AInv
<1> QED BY <1>1, <1>2

\* An operation begins.
LEMMA Begins ==
  ASSUME AInv, UNCHANGED <<row, turn, resume>>,
         NEW slot \in Slots, NEW t, ~Op(tasks[slot]), Op(t), tasks'[slot] = t,
         \A s \in Slots \ {slot} : tasks'[s] = tasks[s],
         NEW kind, Overlap(slot, kind),
         IF kind \in {"approve", "expire"} THEN proposal' = NoProposal
         ELSE UNCHANGED proposal,
         Quiet => OpOK(t)
  PROVE  AInv'
<1>1. CASE overlapped' BY <1>1 DEF AInv
<1>2. CASE ~overlapped'
  <2>1. /\ ~overlapped /\ \A s \in Slots \ {slot} : ~Op(tasks[s])
        /\ proposal = NoProposal \/ kind \in {"approve", "expire"}
    BY <1>2 DEF Overlap, Operating, Op
  <2>2. Quiet BY <2>1 DEF AInv, Busy
  <2>3. OpOK(t)' BY <2>2, OpSame
  <2>4. proposal' = NoProposal BY <2>1
  <2>5. Busy(slot)' BY <2>1, <2>3, <2>4, Others DEF Busy
  <2> QED BY <2>5 DEF AInv
<1> QED BY <1>1, <1>2

-----------------------------------------------------------------------------
(* Requests *)

LEMMA OverlapIs ==
  ASSUME NEW slot, NEW kind, Overlap(slot, kind)
  PROVE  overlapped' \in BOOLEAN
BY DEF Overlap

LEMMA HumanSlots == Humans \subseteq Slots
BY DEF Slots

LEMMA RequestStep ==
  ASSUME TableAssumption, IInv, NEW seat \in Humans, NEW t, TaskOK(t), Op(t),
         t.kind # "wake", Request(seat, t), UNCHANGED <<turn, botTimer, decision, resume>>,
         IF t.kind \in {"approve", "expire"} THEN proposal' = NoProposal
         ELSE UNCHANGED proposal,
         Quiet => OpOK(t)
  PROVE  IInv'
<1>1. /\ tasks[seat] = Idle /\ tasks' = [tasks EXCEPT ![seat] = t]
      /\ Overlap(seat, t.kind) /\ row' = row /\ bots' = bots
  BY DEF Request, Free, Begin
<1>2. seat \in Slots BY HumanSlots
<1>3. TasksOK' /\ tasks'[seat] = t /\ \A s \in Slots \ {seat} : tasks'[s] = tasks[s]
  BY <1>1, <1>2, TasksStep DEF IInv, TInv
<1>4. ~Op(tasks[seat]) BY <1>1, IdleIs
<1>5. AInv'
  BY <1>1, <1>2, <1>3, <1>4, Begins DEF IInv
<1>6. overlapped' \in BOOLEAN BY <1>1, OverlapIs
<1>7. GatewayOK' BY <1>1, <1>6 DEF GatewayOK, IInv, TInv
<1> QED BY <1>1, <1>3, <1>5, <1>7 DEF IInv, TInv

LEMMA PlayCardStep ==
  ASSUME TableAssumption, IInv, NEW seat \in Humans, PlayCard(seat)
  PROVE  IInv'
<1> DEFINE t == Task("play", "read", seat)
<1>1. seat \in Seats BY DEF TableAssumption
<1>2. TaskOK(t) /\ t.pc = "read" /\ t.kind = "play" /\ t.seat = seat
  BY <1>1, TaskMade DEF Kinds, Pcs, Acts
<1>3. /\ turn = seat /\ Request(seat, t)
      /\ UNCHANGED <<turn, botTimer, decision, resume>> /\ UNCHANGED proposal
  BY DEF PlayCard, gateway
<1> HIDE DEF t
<1>4. Op(t) BY <1>2 DEF Op
<1>5. Quiet => OpOK(t) BY <1>2, <1>3 DEF Quiet, OpOK
<1> QED BY <1>2, <1>3, <1>4, <1>5, RequestStep

LEMMA AskStep ==
  ASSUME TableAssumption, IInv, NEW seat \in Humans, NEW rung \in Level, Ask(seat, rung)
  PROVE  IInv'
<1> DEFINE b == Task("ask", "load", seat)
           t == [b EXCEPT !.rung = rung]
<1>1. seat \in Seats BY DEF TableAssumption
<1>2. TaskOK(b) /\ b.pc = "load" /\ b.kind = "ask"
  BY <1>1, TaskMade DEF Kinds, Pcs, Acts
<1>3. /\ Request(seat, t)
      /\ UNCHANGED <<turn, botTimer, decision, resume>> /\ UNCHANGED proposal
  BY DEF Ask, gateway
<1> HIDE DEF b
<1>4. TaskOK(t) /\ t.pc = "load" /\ t.kind = "ask" BY <1>2, RungSet
<1> HIDE DEF t
<1>5. Op(t) BY <1>4 DEF Op
<1>6. Quiet => OpOK(t) BY <1>4 DEF Quiet, OpOK
<1> QED BY <1>3, <1>4, <1>5, <1>6, RequestStep

LEMMA RequestTrucoStep ==
  ASSUME TableAssumption, IInv, NEW seat \in Humans, RequestTruco(seat)
  PROVE  IInv'
<1>1. 1 \in Level BY LevelIs
<1> QED BY <1>1, AskStep DEF RequestTruco

LEMMA RaiseStep ==
  ASSUME TableAssumption, IInv, NEW seat \in Humans, Raise(seat)
  PROVE  IInv'
<1>1. PICK rung \in Level : Ask(seat, rung) BY DEF Raise
<1> QED BY <1>1, AskStep

LEMMA OrIs ==
  ASSUME TableAssumption, NEW s \in Seats \cup {None}, NEW f
  PROVE  Or(s, f) = IF s \in Seats THEN s ELSE f
BY NoneIs DEF Or

LEMMA AcceptBetStep ==
  ASSUME TableAssumption, IInv, NEW seat \in Humans, AcceptBet(seat)
  PROVE  IInv'
<1> DEFINE b == Task("accept", "load", seat)
           back == Or(turn, seat)
           t == [b EXCEPT !.back = back]
<1>1. seat \in Seats BY DEF TableAssumption
<1>2. TaskOK(b) /\ b.pc = "load" /\ b.kind = "accept"
  BY <1>1, TaskMade DEF Kinds, Pcs, Acts
<1>3. /\ Request(seat, t)
      /\ UNCHANGED <<turn, botTimer, decision, resume>> /\ UNCHANGED proposal
  BY DEF AcceptBet, gateway
<1>4. back \in Seats \cup {None} BY <1>1, OrIs DEF IInv, TInv, GatewayOK
<1> HIDE DEF b, back
<1>5. TaskOK(t) /\ t.pc = "load" /\ t.kind = "accept" BY <1>2, <1>4, BackSet
<1>6. PICK u : u = t OBVIOUS
<1> HIDE DEF t
<1>7. Op(u) BY <1>5, <1>6 DEF Op
<1>8. Quiet => OpOK(u) BY <1>5, <1>6 DEF Quiet, OpOK
<1> QED BY <1>3, <1>5, <1>6, <1>7, <1>8, RequestStep

\* A request that goes straight to its use case.
LEMMA AnswerStep ==
  ASSUME TableAssumption, IInv, NEW seat \in Humans,
         NEW kind \in {"decline", "onzeYes", "onzeNo"},
         Request(seat, Task(kind, "load", seat)), UNCHANGED gateway
  PROVE  IInv'
<1> DEFINE t == Task(kind, "load", seat)
<1>1. seat \in Seats BY DEF TableAssumption
<1>2. TaskOK(t) /\ t.pc = "load" /\ t.kind = kind
  BY <1>1, TaskMade DEF Kinds, Pcs, Acts
<1>3. /\ Request(seat, t)
      /\ UNCHANGED <<turn, botTimer, decision, resume>> /\ UNCHANGED proposal
  BY DEF gateway
<1> HIDE DEF t
<1>4. Op(t) BY <1>2 DEF Op
<1>5. Quiet => OpOK(t) BY <1>2 DEF Quiet, OpOK
<1> QED BY <1>2, <1>3, <1>4, <1>5, RequestStep

LEMMA ApproveProposalStep ==
  ASSUME TableAssumption, IInv, NEW seat \in Humans, ApproveProposal(seat)
  PROVE  IInv'
<1>1. PICK s, rung : s = proposal.seat /\ rung = proposal.rung OBVIOUS
<1> DEFINE b == Task("approve", "load", s)
           t == [b EXCEPT !.rung = rung]
<1>2. /\ Request(seat, t) /\ proposal # NoProposal /\ proposal' = NoProposal
      /\ UNCHANGED <<turn, botTimer, decision, resume>>
  BY <1>1 DEF ApproveProposal, TakesProposal
<1>3. s \in Seats /\ rung \in Level
  <2>1. s \in Seats /\ rung \in 1..MaxLevel BY <1>1, <1>2 DEF IInv, TInv, GatewayOK
  <2> QED BY <2>1, LevelIs
<1>4. TaskOK(b) /\ b.pc = "load" /\ b.kind = "approve" /\ b.seat = s
  BY <1>3, TaskMade DEF Kinds, Pcs, Acts
<1> HIDE DEF b
<1>5. TaskOK(t) /\ t.pc = "load" /\ t.kind = "approve" /\ t.seat = s
  BY <1>3, <1>4, RungSet
<1> HIDE DEF t
<1>6. Op(t) BY <1>5 DEF Op
<1>7. Quiet => OpOK(t) BY <1>1, <1>2, <1>5 DEF Quiet, OpOK
<1> QED BY <1>2, <1>5, <1>6, <1>7, RequestStep

LEMMA RejectProposalStep ==
  ASSUME TableAssumption, IInv, NEW seat \in Humans, RejectProposal(seat)
  PROVE  IInv'
<1>1. PICK s : s = proposal.seat OBVIOUS
<1> DEFINE t == Task("expire", "read", s)
<1>2. /\ Request(seat, t) /\ proposal # NoProposal /\ proposal' = NoProposal
      /\ UNCHANGED <<turn, botTimer, decision, resume>>
  BY <1>1 DEF RejectProposal, TakesProposal
<1>3. s \in Seats BY <1>1, <1>2 DEF IInv, TInv, GatewayOK
<1>4. TaskOK(t) /\ t.pc = "read" /\ t.kind = "expire" /\ t.seat = s
  BY <1>3, TaskMade DEF Kinds, Pcs, Acts
<1> HIDE DEF t
<1>5. Op(t) BY <1>4 DEF Op
<1>6. Quiet => OpOK(t) BY <1>1, <1>2, <1>4 DEF Quiet, OpOK
<1> QED BY <1>2, <1>4, <1>5, <1>6, RequestStep

\* The state is sent to somebody: no operation.
LEMMA WakeStep ==
  ASSUME TableAssumption, IInv, NEW slot \in Slots, ~Op(tasks[slot]),
         NEW seat \in Seats \cup {None},
         tasks' = [tasks EXCEPT ![slot] = Task("wake", "flow", seat)],
         bots' \subseteq Seats, botTimer' \in BOOLEAN,
         UNCHANGED <<row, turn, resume, proposal, decision, overlapped>>
  PROVE  IInv'
<1> DEFINE t == Task("wake", "flow", seat)
<1>1. TaskOK(t) /\ t.pc = "flow" BY TaskMade DEF Kinds, Pcs, Acts
<1> HIDE DEF t
<1>2. TasksOK' /\ tasks'[slot] = t /\ \A s \in Slots \ {slot} : tasks'[s] = tasks[s]
  BY <1>1, TasksStep DEF IInv, TInv, t
<1>3. ~Op(t) BY <1>1 DEF Op
<1>4. AInv' BY <1>2, <1>3, Aside DEF IInv
<1>5. GatewayOK' BY DEF GatewayOK, IInv, TInv
<1> QED BY <1>2, <1>4, <1>5 DEF IInv, TInv

LEMMA WakeSlot == "wake" \in Slots /\ "bot" \in Slots /\ "proposal" \in Slots /\ "decision" \in Slots
BY DEF Slots

LEMMA GetStateStep ==
  ASSUME TableAssumption, IInv, NEW seat \in Humans, GetState(seat)
  PROVE  IInv'
<1>1. seat \in Seats /\ seat \in Slots BY HumanSlots DEF TableAssumption
<1>2. Task("wake", "flow", seat).kind = "wake" BY DEF Task
<1>3. /\ tasks[seat] = Idle
      /\ tasks' = [tasks EXCEPT ![seat] = Task("wake", "flow", seat)]
      /\ bots' = bots /\ botTimer' = botTimer
      /\ UNCHANGED <<row, turn, resume, proposal, decision, overlapped>>
  BY <1>2 DEF GetState, Request, Free, Begin, gateway
<1>4. ~Op(tasks[seat]) BY <1>3, IdleIs
<1>5. bots' \subseteq Seats /\ botTimer' \in BOOLEAN BY <1>3 DEF IInv, TInv, GatewayOK
<1> QED BY <1>1, <1>3, <1>4, <1>5, WakeStep

LEMMA DropStep ==
  ASSUME TableAssumption, IInv, NEW seat \in Humans, Drop(seat)
  PROVE  IInv'
<1>1. seat \in Seats BY DEF TableAssumption
<1>2. /\ tasks["wake"] = Idle /\ bots' = bots \cup {seat} /\ botTimer' = FALSE
      /\ UNCHANGED <<row, turn, resume, proposal, decision, overlapped>>
  BY DEF Drop, Free
<1>3. bots' \subseteq Seats /\ botTimer' \in BOOLEAN
  BY <1>1, <1>2 DEF IInv, TInv, GatewayOK
<1>4. ~Op(tasks["wake"]) BY <1>2, IdleIs
<1>5. CASE tasks' = [tasks EXCEPT !["wake"] = Task("wake", "flow", seat)]
  BY <1>1, <1>2, <1>3, <1>4, <1>5, WakeStep, WakeSlot
<1>6. CASE tasks' = tasks
  <2>1. AInv' BY <1>2, <1>4, <1>6, Aside, WakeSlot DEF IInv
  <2>2. GatewayOK' BY <1>2, <1>3 DEF GatewayOK, IInv, TInv
  <2>3. TasksOK' BY <1>6 DEF TasksOK, IInv, TInv
  <2> QED BY <1>2, <2>1, <2>2, <2>3 DEF IInv, TInv
<1> QED BY <1>5, <1>6 DEF Drop, Begin

LEMMA JoinAgainStep ==
  ASSUME TableAssumption, IInv, NEW seat \in Humans, JoinAgain(seat)
  PROVE  IInv'
<1>1. seat \in Seats BY DEF TableAssumption
<1>2. /\ tasks["wake"] = Idle /\ bots' \subseteq bots
      /\ tasks' = [tasks EXCEPT !["wake"] = Task("wake", "flow", seat)]
      /\ botTimer' = botTimer
      /\ UNCHANGED <<row, turn, resume, proposal, decision, overlapped>>
  BY DEF JoinAgain, Free, Begin, gateway
<1>3. bots' \subseteq Seats /\ botTimer' \in BOOLEAN
  BY <1>2 DEF IInv, TInv, GatewayOK
<1>4. ~Op(tasks["wake"]) BY <1>2, IdleIs
<1> QED BY <1>1, <1>2, <1>3, <1>4, WakeStep, WakeSlot

-----------------------------------------------------------------------------
(* Timers *)

LEMMA BotWakesStep ==
  ASSUME TableAssumption, IInv, BotWakes
  PROVE  IInv'
<1> DEFINE t == Task("bot", "begin", None)
<1>1. TaskOK(t) /\ t.pc = "begin" BY TaskMade DEF Kinds, Pcs, Acts
<1> HIDE DEF t
<1>2. /\ tasks["bot"] = Idle /\ tasks' = [tasks EXCEPT !["bot"] = t]
      /\ botTimer' = FALSE /\ bots' = bots
      /\ UNCHANGED <<row, turn, resume, proposal, decision, overlapped>>
  BY DEF BotWakes, Free, Begin, t
<1>3. TasksOK' /\ tasks'["bot"] = t /\ \A s \in Slots \ {"bot"} : tasks'[s] = tasks[s]
  BY <1>1, <1>2, TasksStep, WakeSlot DEF IInv, TInv
<1>4. ~Op(t) /\ ~Op(tasks["bot"]) BY <1>1, <1>2, IdleIs DEF Op
<1>5. AInv' BY <1>2, <1>3, <1>4, Aside, WakeSlot DEF IInv
<1>6. GatewayOK' BY <1>2 DEF GatewayOK, IInv, TInv
<1> QED BY <1>2, <1>3, <1>5, <1>6 DEF IInv, TInv

LEMMA ProposalExpiresStep ==
  ASSUME TableAssumption, IInv, ProposalExpires
  PROVE  IInv'
<1>1. PICK s : s = proposal.seat OBVIOUS
<1> DEFINE t == Task("expire", "read", s)
<1>2. /\ tasks["proposal"] = Idle /\ tasks' = [tasks EXCEPT !["proposal"] = t]
      /\ proposal # NoProposal /\ proposal' = NoProposal
      /\ Overlap("proposal", "expire")
      /\ UNCHANGED <<row, turn, botTimer, decision, resume, bots>>
  BY <1>1 DEF ProposalExpires, Free, Begin
<1>3. s \in Seats BY <1>1, <1>2 DEF IInv, TInv, GatewayOK
<1>4. TaskOK(t) /\ t.pc = "read" /\ t.kind = "expire" /\ t.seat = s
  BY <1>3, TaskMade DEF Kinds, Pcs, Acts
<1> HIDE DEF t
<1>5. /\ TasksOK' /\ tasks'["proposal"] = t
      /\ \A o \in Slots \ {"proposal"} : tasks'[o] = tasks[o]
  BY <1>2, <1>4, TasksStep, WakeSlot DEF IInv, TInv
<1>6. Op(t) /\ ~Op(tasks["proposal"]) BY <1>2, <1>4, IdleIs DEF Op
<1>7. Quiet => OpOK(t) BY <1>1, <1>2, <1>4 DEF Quiet, OpOK
<1>8. AInv' BY <1>2, <1>5, <1>6, <1>7, Begins, WakeSlot DEF IInv
<1>9. overlapped' \in BOOLEAN BY <1>2, OverlapIs
<1>10. GatewayOK' BY <1>2, <1>9 DEF GatewayOK, IInv, TInv
<1> QED BY <1>2, <1>5, <1>8, <1>10 DEF IInv, TInv

LEMMA DecisionExpiresStep ==
  ASSUME TableAssumption, IInv, DecisionExpires
  PROVE  IInv'
<1>1. PICK team, rung : team = decision.team /\ rung = decision.rung OBVIOUS
<1> DEFINE t == Task("timeout", "check", team)
<1>2. /\ tasks["decision"] = Idle /\ tasks' = [tasks EXCEPT !["decision"] = t]
      /\ decision.timer /\ decision' = [decision EXCEPT !.timer = FALSE]
      /\ Overlap("decision", "timeout")
      /\ UNCHANGED <<row, turn, botTimer, proposal, resume, bots>>
  BY <1>1 DEF DecisionExpires, Free, Begin
<1>3. decision \in [team : Team \cup {None}, rung : Level, timer : BOOLEAN]
  BY DEF IInv, TInv, GatewayOK
<1>4. team \in Team /\ rung \in 1..MaxLevel
  <2>1. decision # NoDecision BY <1>2 DEF NoDecision
  <2> QED BY <1>1, <2>1 DEF IInv, TInv, GatewayOK
<1>5. TaskOK(t) /\ t.pc = "check" /\ t.kind = "timeout"
  BY <1>4, TaskMade DEF Kinds, Pcs, Acts
<1> HIDE DEF t
<1>6. /\ TasksOK' /\ tasks'["decision"] = t
      /\ \A o \in Slots \ {"decision"} : tasks'[o] = tasks[o]
  BY <1>2, <1>5, TasksStep, WakeSlot DEF IInv, TInv
<1>7. Op(t) /\ ~Op(tasks["decision"]) BY <1>2, <1>5, IdleIs DEF Op
<1>8. Quiet => OpOK(t) BY <1>5 DEF Quiet, OpOK
<1>9. AInv' BY <1>2, <1>6, <1>7, <1>8, Begins, WakeSlot DEF IInv
<1>10. overlapped' \in BOOLEAN BY <1>2, OverlapIs
<1>11. /\ decision' \in [team : Team \cup {None}, rung : Level, timer : BOOLEAN]
       /\ decision'.team = team /\ decision'.rung = rung
  BY <1>1, <1>2, <1>3
<1>12. GatewayOK' BY <1>2, <1>4, <1>10, <1>11 DEF GatewayOK, IInv, TInv
<1> QED BY <1>2, <1>6, <1>9, <1>12 DEF IInv, TInv

-----------------------------------------------------------------------------
(* The steps of a handler *)

\* A handler that is not idle, and what a step of it may be given.
Running(slot, task) ==
  /\ task = tasks[slot] /\ TaskOK(task)
  /\ bots' = bots

\* A step that leaves hand and turn alone and is no operation's.
LEMMA AsideStep ==
  ASSUME TableAssumption, IInv, NEW slot \in Slots, NEW task, Running(slot, task),
         ~Op(task), NEW t, t = Idle \/ (TaskOK(t) /\ ~Op(t)),
         tasks' = [tasks EXCEPT ![slot] = t],
         UNCHANGED <<row, turn, resume, proposal, overlapped>>, GatewayOK'
  PROVE  IInv'
<1>1. TasksOK' /\ tasks'[slot] = t /\ \A s \in Slots \ {slot} : tasks'[s] = tasks[s]
  BY TasksStep DEF IInv, TInv
<1>2. ~Op(tasks[slot]) /\ ~Op(t) BY IdleIs DEF Running
<1>3. AInv' BY <1>1, <1>2, Aside DEF IInv
<1> QED BY <1>1, <1>3 DEF IInv, TInv

\* A step within an operation.
LEMMA OpStep ==
  ASSUME TableAssumption, IInv, NEW slot \in Slots, NEW task, Running(slot, task),
         Op(task), NEW t, TaskOK(t), Op(t), tasks' = [tasks EXCEPT ![slot] = t],
         UNCHANGED <<proposal, overlapped>>, OpOK(task) => OpOK(t)',
         RowOK(row)', GatewayOK'
  PROVE  IInv'
<1>1. TasksOK' /\ tasks'[slot] = t /\ \A s \in Slots \ {slot} : tasks'[s] = tasks[s]
  BY TasksStep DEF IInv, TInv
<1>2. Op(tasks[slot]) /\ (OpOK(tasks[slot]) => OpOK(t)') BY DEF Running
<1>3. AInv' BY <1>1, <1>2, GoesOn DEF IInv
<1> QED BY <1>1, <1>3 DEF IInv, TInv

\* The end of an operation.
LEMMA EndStep ==
  ASSUME TableAssumption, IInv, NEW slot \in Slots, NEW task, Running(slot, task),
         Op(task), NEW t, t = Idle \/ (TaskOK(t) /\ ~Op(t)),
         tasks' = [tasks EXCEPT ![slot] = t], UNCHANGED <<row, overlapped>>,
         OpOK(task) /\ proposal = NoProposal =>
           Rest' /\ (proposal' # NoProposal => CardIsNext(row') /\ proposal'.seat = turn'),
         GatewayOK'
  PROVE  IInv'
<1>1. TasksOK' /\ tasks'[slot] = t /\ \A s \in Slots \ {slot} : tasks'[s] = tasks[s]
  BY TasksStep DEF IInv, TInv
<1>2. Op(tasks[slot]) /\ ~Op(t) BY IdleIs DEF Running
<1>3. OpOK(tasks[slot]) /\ proposal = NoProposal =>
        Rest' /\ (proposal' # NoProposal => CardIsNext(row') /\ proposal'.seat = turn')
  BY DEF Running
<1>4. AInv' BY <1>1, <1>2, <1>3, Ends DEF IInv
<1> QED BY <1>1, <1>4 DEF IInv, TInv

LEMMA GatewaySame ==
  ASSUME GatewayOK, UNCHANGED <<turn, resume, bots, proposal, decision>>,
         botTimer' \in BOOLEAN, overlapped' \in BOOLEAN
  PROVE  GatewayOK'
BY DEF GatewayOK

LEMMA BotActorIs ==
  ASSUME TableAssumption, IInv
  PROVE  /\ BotActor(row) \in Seats \cup {None}
         /\ CardIsNext(row) => BotActor(row) \in {turn, None}
<1>1. bots \subseteq Seats /\ turn \in Seats \cup {None}
  BY DEF IInv, TInv, GatewayOK
<1>2. ASSUME NEW team
      PROVE  (IF \E s \in bots : TeamOf(s) = team
              THEN CHOOSE s \in bots : TeamOf(s) = team ELSE None) \in Seats \cup {None}
  BY <1>1
<1>3. BotActor(row) \in Seats \cup {None} BY <1>1, <1>2 DEF BotActor
<1>4. CardIsNext(row) => BotActor(row) \in {turn, None} BY DEF BotActor, CardIsNext
<1> QED BY <1>3, <1>4

LEMMA GlanceIs ==
  ASSUME NEW r, RowOK(r)
  PROVE  /\ Glance(r).live = r.live /\ Glance(r).onze = r.onze
         /\ Glance(r).asked = r.asked
<1>1. r \in RowType BY DEF RowOK
<1> QED BY <1>1 DEF Glance, RowType

LEMMA BotLooksStep ==
  ASSUME TableAssumption, IInv, NEW slot \in Slots, NEW task, Running(slot, task),
         BotLooks(slot, task)
  PROVE  IInv'
<1>1. /\ task.pc = "begin" /\ botTimer' = FALSE
      /\ UNCHANGED <<row, turn, proposal, decision, resume>> /\ bots' = bots
      /\ TaskOK(task) /\ tasks[slot] = task
  BY DEF BotLooks, Running
<1>2. ~Op(task) BY <1>1 DEF Op
<1>3. CASE BotActor(row) = None
  <2>1. tasks' = [tasks EXCEPT ![slot] = Idle] /\ overlapped' = overlapped
    BY <1>3 DEF BotLooks, End, Begin
  <2>2. GatewayOK' BY <1>1, <2>1, GatewaySame DEF IInv, TInv, GatewayOK
  <2> QED BY <1>1, <1>2, <2>1, <2>2, AsideStep
<1>4. CASE BotActor(row) # None
  <2> DEFINE t == [task EXCEPT !.pc = "decide", !.see = Glance(row), !.seat = BotActor(row)]
  <2>1. tasks' = [tasks EXCEPT ![slot] = t] /\ Overlap(slot, task.kind)
    BY <1>4 DEF BotLooks, Begin
  <2>2. PICK see, seat : see = Glance(row) /\ seat = BotActor(row) OBVIOUS
  <2>3. seat \in Seats /\ RowOK(see) BY <1>4, <2>2, BotActorIs, GlanceOK DEF IInv, TInv
  <2>4. PICK u : u = t OBVIOUS
  <2>5. u = [ pc |-> "decide", kind |-> task.kind, seat |-> seat, base |-> task.base,
              see |-> see, copy |-> task.copy, rung |-> task.rung, back |-> task.back ]
    <3>1. PICK pc : pc = "decide" OBVIOUS
    <3>2. u = [task EXCEPT !.pc = pc, !.see = see, !.seat = seat] BY <2>2, <2>4, <3>1
    <3> HIDE DEF t
    <3>3. TaskOK(task) BY <1>1
    <3>4. u = [ pc |-> pc, kind |-> task.kind, seat |-> seat, base |-> task.base,
                see |-> see, copy |-> task.copy, rung |-> task.rung, back |-> task.back ]
      BY ONLY <3>2, <3>3, LookSet
    <3> QED BY <3>1, <3>4
  <2>6. Acts(task.kind, "decide", seat) /\ "decide" \in Pcs
    <3>1. Acts(task.kind, "begin", task.seat) BY <1>1, TaskFields
    <3> QED BY <2>3, <3>1 DEF Acts, Pcs
  <2>7. TaskOK(u) /\ u.pc = "decide" /\ u.see = see /\ u.seat = seat
    BY <1>1, <2>3, <2>5, <2>6, TaskFields, TaskGoes
  <2>8. task.kind = "bot" BY <1>1, TaskFields DEF Acts
  <2>9. Quiet => OpOK(u)
    <3>1. CardIsNext(row) => seat = turn BY <1>4, <2>2, BotActorIs
    <3> QED BY <2>2, <2>7, <3>1 DEF Quiet, OpOK
  <2>10. Op(u) BY <2>7 DEF Op
  <2>11. TasksOK' /\ tasks'[slot] = u /\ \A s \in Slots \ {slot} : tasks'[s] = tasks[s]
    BY <2>1, <2>4, <2>7, TasksStep DEF IInv, TInv
  <2>12. AInv' BY <1>1, <1>2, <2>1, <2>8, <2>9, <2>10, <2>11, Begins DEF IInv
  <2>13. overlapped' \in BOOLEAN BY <2>1, OverlapIs
  <2>14. GatewayOK' BY <1>1, <2>13, GatewaySame DEF IInv, TInv
  <2> QED BY <1>1, <2>11, <2>12, <2>14 DEF IInv, TInv
<1> QED BY <1>3, <1>4

\* What a bot does once it has decided.
Decided(kind, seat, b, base, back, u) ==
  /\ kind \in {"onzeYes", "onzeNo", "accept", "decline", "play"}
  /\ seat \in Seats /\ b = Task(kind, "load", seat)
  /\ base = (IF kind = "play" THEN row ELSE b.base)
  /\ back = (IF kind = "accept" THEN Or(turn, seat) ELSE b.back)
  /\ u = [b EXCEPT !.base = base, !.back = back]

LEMMA DoTask ==
  ASSUME TableAssumption, IInv, NEW kind, NEW seat, NEW b, NEW base, NEW back, NEW u,
         Decided(kind, seat, b, base, back, u)
  PROVE  /\ TaskOK(u) /\ u.pc = "load" /\ u.kind = kind /\ u.seat = seat
         /\ kind = "play" => u.base = row
<1>0. /\ kind \in {"onzeYes", "onzeNo", "accept", "decline", "play"} /\ seat \in Seats
      /\ b = Task(kind, "load", seat) /\ base = (IF kind = "play" THEN row ELSE b.base)
      /\ back = (IF kind = "accept" THEN Or(turn, seat) ELSE b.back)
      /\ u = [b EXCEPT !.base = base, !.back = back]
  BY DEF Decided
<1>1. TaskOK(b) /\ b.pc = "load" /\ b.kind = kind /\ b.seat = seat
  BY <1>0, TaskMade DEF Kinds, Pcs, Acts
<1>2. RowOK(base) BY <1>0, <1>1, TaskFields DEF IInv, TInv
<1>3. back \in Seats \cup {None}
  <2>1. Or(turn, seat) \in Seats \cup {None} BY <1>0, OrIs DEF IInv, TInv, GatewayOK
  <2> QED BY <1>0, <1>1, <2>1, TaskFields
<1>4. TaskOK(b) BY <1>1
<1>5. u = [ pc |-> b.pc, kind |-> b.kind, seat |-> b.seat, base |-> base,
            see |-> b.see, copy |-> b.copy, rung |-> b.rung, back |-> back ]
  <2>1. u = [b EXCEPT !.base = base, !.back = back] BY <1>0
  <2> QED BY ONLY <1>4, <2>1, BaseBackFields
<1>6. TaskOK(u) /\ u.pc = b.pc /\ u.kind = b.kind /\ u.seat = b.seat /\ u.base = base
  BY ONLY <1>2, <1>3, <1>4, <1>5, BaseBackGoes
<1> QED BY <1>0, <1>1, <1>6

LEMMA BotDecidesStep ==
  ASSUME TableAssumption, IInv, NEW slot \in Slots, NEW task, Running(slot, task),
         BotDecides(slot, task)
  PROVE  IInv'
<1>0. PICK seat : seat = task.seat OBVIOUS
<1> DEFINE team == TeamOf(seat)
           Done(kind) == [Task(kind, "load", seat) EXCEPT
                            !.base = IF kind = "play" THEN row ELSE @,
                            !.back = IF kind = "accept" THEN Or(turn, seat) ELSE @]
           Bid(rung) == [Task("ask", "load", seat) EXCEPT !.rung = rung]
           Does(t) == tasks' = [tasks EXCEPT ![slot] = t]
           advice == [Task("advise", "ensure", seat) EXCEPT
                        !.base = IF "advise" = "play" THEN row ELSE @,
                        !.back = IF "advise" = "accept" THEN Or(turn, seat) ELSE @]
<1>1. /\ task.pc = "decide" /\ TaskOK(task) /\ tasks[slot] = task /\ bots' = bots
      /\ UNCHANGED <<row, turn, botTimer, decision, resume, overlapped>>
  BY DEF BotDecides, Running
<1>2. Op(task) /\ seat \in Seats /\ RowOK(task.see) /\ RowOK(row)
  BY <1>0, <1>1, TaskFields DEF Op, Acts, IInv, TInv
<1>3. \/ \E kind \in {"onzeYes", "onzeNo", "accept", "decline", "play"} :
           Does(Done(kind)) /\ UNCHANGED proposal
      \/ \E rung \in Level : Does(Bid(rung)) /\ UNCHANGED proposal
      \/ Does(advice) /\ UNCHANGED proposal
      \/ \E rung \in Level :
           /\ row.onze # team /\ row.asked # Other(team) /\ MayAsk(task.see, team, rung)
           /\ Does(Idle) /\ proposal' = [seat |-> seat, rung |-> rung]
  BY <1>0 DEF BotDecides, Begin, End
<1>4. ASSUME NEW kind \in {"onzeYes", "onzeNo", "accept", "decline", "play"},
             Does(Done(kind)), UNCHANGED proposal
      PROVE  IInv'
  <2>1. PICK u : u = Done(kind) OBVIOUS
  <2>2. /\ TaskOK(u) /\ u.pc = "load" /\ u.kind = kind /\ u.seat = seat
        /\ kind = "play" => u.base = row
    <3>1. kind \in {"onzeYes", "onzeNo", "accept", "decline", "play"} BY <1>4
    <3>2. PICK b : b = Task(kind, "load", seat) OBVIOUS
    <3>3. PICK base : base = (IF kind = "play" THEN row ELSE b.base) OBVIOUS
    <3>4. PICK back : back = (IF kind = "accept" THEN Or(turn, seat) ELSE b.back) OBVIOUS
    <3>5. u = [b EXCEPT !.base = base, !.back = back] BY <2>1, <3>2, <3>3, <3>4
    <3> HIDE DEF Done
    <3>6. Decided(kind, seat, b, base, back, u)
      BY ONLY <1>2, <3>1, <3>2, <3>3, <3>4, <3>5 DEF Decided
    <3> QED BY ONLY TableAssumption, IInv, <3>6, DoTask
  <2>3. OpOK(task) => OpOK(u) BY <1>0, <1>1, <2>2 DEF OpOK
  <2>4. OpOK(task) => OpOK(u)' BY <1>1, <2>3, OpSame
  <2>5. Op(u) BY <2>2 DEF Op
  <2>6. GatewayOK' BY <1>1, <1>4, GatewaySame DEF IInv, TInv, GatewayOK
  <2>7. RowOK(row)' BY <1>1, <1>2
  <2> HIDE DEF Done
  <2> QED BY <1>1, <1>2, <1>4, <2>1, <2>2, <2>4, <2>5, <2>6, <2>7, OpStep
<1>5. ASSUME NEW rung \in Level, Does(Bid(rung)), UNCHANGED proposal
      PROVE  IInv'
  <2> DEFINE b == Task("ask", "load", seat)
  <2>1. TaskOK(b) /\ b.pc = "load" /\ b.kind = "ask"
    BY <1>2, TaskMade DEF Kinds, Pcs, Acts
  <2> HIDE DEF b
  <2>2. PICK u : u = [b EXCEPT !.rung = rung] OBVIOUS
  <2>3. TaskOK(u) /\ u.pc = "load" /\ u.kind = "ask" BY <2>1, <2>2, RungSet
  <2>4. OpOK(task) => OpOK(u) BY <1>1, <2>3 DEF OpOK
  <2>5. OpOK(task) => OpOK(u)' BY <1>1, <2>4, OpSame
  <2>6. Op(u) BY <2>3 DEF Op
  <2>7. GatewayOK' BY <1>1, <1>5, GatewaySame DEF IInv, TInv, GatewayOK
  <2>8. RowOK(row)' BY <1>1, <1>2
  <2>9. Does(u) BY <1>5, <2>2 DEF b
  <2> QED BY <1>1, <1>2, <1>5, <2>3, <2>5, <2>6, <2>7, <2>8, <2>9, OpStep
<1>6. ASSUME Does(advice), UNCHANGED proposal PROVE IInv'
  <2> DEFINE b == Task("advise", "ensure", seat)
  <2>1. TaskOK(b) /\ b.pc = "ensure" BY <1>2, TaskMade DEF Kinds, Pcs, Acts
  <2>2. advice = b
    <3> HIDE DEF b
    <3>1. advice = [b EXCEPT !.base = b.base, !.back = b.back] BY DEF b
    <3> HIDE DEF advice
    <3>2. advice = [ pc |-> b.pc, kind |-> b.kind, seat |-> b.seat, base |-> b.base,
                     see |-> b.see, copy |-> b.copy, rung |-> b.rung, back |-> b.back ]
      BY <2>1, <3>1, BaseBackFields
    <3> QED BY <2>1, <3>2, TaskFields
  <2> HIDE DEF b, advice
  <2>3. ~Op(b) BY <2>1 DEF Op
  <2>4. GatewayOK' BY <1>1, <1>6, GatewaySame DEF IInv, TInv, GatewayOK
  <2>5. OpOK(task) => Rest' BY <1>1, RestSame DEF OpOK
  <2> QED BY <1>1, <1>2, <1>6, <2>1, <2>2, <2>3, <2>4, <2>5, EndStep
<1>7. ASSUME NEW rung \in Level, row.onze # team, row.asked # Other(team),
             MayAsk(task.see, team, rung), Does(Idle),
             proposal' = [seat |-> seat, rung |-> rung]
      PROVE  IInv'
  <2>1. rung \in 1..MaxLevel BY <1>2, <1>7, TeamIs, AskedOK
  <2>2. GatewayOK' BY <1>1, <1>2, <1>7, <2>1 DEF IInv, TInv, GatewayOK
  <2>3. OpOK(task) => Rest' /\ CardIsNext(row') /\ proposal'.seat = turn'
    <3>1. SUFFICES ASSUME OpOK(task)
                   PROVE  Rest' /\ CardIsNext(row') /\ proposal'.seat = turn'
      OBVIOUS
    <3>2. Rest' BY <1>1, <3>1, RestSame DEF OpOK
    <3>3. task.see = Glance(row) /\ (CardIsNext(row) => seat = turn)
      BY <1>0, <1>1, <3>1 DEF OpOK
    <3>4. row.live /\ row.onze = None /\ row.asked \in {Other(team), None}
      BY <1>2, <1>7, <3>3, GlanceIs DEF MayAsk
    <3>5. CardIsNext(row) BY <1>7, <3>4 DEF CardIsNext
    <3> QED BY <1>1, <1>7, <3>2, <3>3, <3>5 DEF CardIsNext
  <2> QED BY <1>1, <1>2, <1>7, <2>2, <2>3, EndStep
<1> QED BY <1>3, <1>4, <1>5, <1>6, <1>7

\* What a step may make of the gateway's maps.
LEMMA GatewayStep ==
  ASSUME TableAssumption, GatewayOK, bots' = bots,
         turn' \in Seats \cup {None}, resume' \in Seats \cup {None},
         botTimer' \in BOOLEAN, overlapped' \in BOOLEAN,
         proposal' \in {proposal, NoProposal},
         \/ decision' \in {decision, NoDecision}
         \/ \E team \in Team, rung \in 1..MaxLevel :
              decision' = [team |-> team, rung |-> rung, timer |-> TRUE]
  PROVE  GatewayOK'
<1>1. Level = 0..MaxLevel /\ MaxLevel \in 1..4 BY LevelIs
<1>2. /\ decision' \in [team : Team \cup {None}, rung : Level, timer : BOOLEAN]
      /\ decision' # NoDecision => decision'.team \in Team /\ decision'.rung \in 1..MaxLevel
  <2>1. CASE decision' = decision BY <2>1 DEF GatewayOK
  <2>2. CASE decision' = NoDecision BY <1>1, <2>2 DEF NoDecision
  <2>3. ASSUME NEW team \in Team, NEW rung \in 1..MaxLevel,
               decision' = [team |-> team, rung |-> rung, timer |-> TRUE]
        PROVE  /\ decision' \in [team : Team \cup {None}, rung : Level, timer : BOOLEAN]
               /\ decision'.team \in Team /\ decision'.rung \in 1..MaxLevel
    BY <1>1, <2>3
  <2> QED BY <2>1, <2>2, <2>3
<1>3. proposal' = NoProposal \/ (proposal'.seat \in Seats /\ proposal'.rung \in 1..MaxLevel)
  BY DEF GatewayOK
<1>4. bots' \subseteq Seats BY DEF GatewayOK
<1> QED BY <1>2, <1>3, <1>4 DEF GatewayOK

LEMMA CheckTimeoutStep ==
  ASSUME TableAssumption, IInv, NEW slot \in Slots, NEW task, Running(slot, task),
         CheckTimeout(slot, task)
  PROVE  IInv'
<1>1. /\ task.pc = "check" /\ TaskOK(task) /\ tasks[slot] = task /\ bots' = bots
      /\ UNCHANGED <<row, turn, botTimer, proposal, resume, overlapped>>
  BY DEF CheckTimeout, Running
<1>2. Op(task) BY <1>1 DEF Op
<1>3. decision' \in {decision, NoDecision} BY DEF CheckTimeout
<1>4. GatewayOK' 
  <2>1. GatewayOK BY DEF IInv, TInv
  <2>2. /\ turn' \in Seats \cup {None} /\ resume' \in Seats \cup {None}
        /\ botTimer' \in BOOLEAN /\ overlapped' \in BOOLEAN
    BY <1>1, <2>1 DEF GatewayOK
  <2> QED BY <1>1, <1>3, <2>1, <2>2, GatewayStep
<1>5. CASE MayAnswer(row, task.seat)
  <2>1. PICK t : t = [task EXCEPT !.pc = "load"] OBVIOUS
  <2>2. tasks' = [tasks EXCEPT ![slot] = t] BY <1>5, <2>1 DEF CheckTimeout, Go, Begin
  <2>3. "load" \in Pcs /\ Acts(task.kind, "load", task.seat)
    BY <1>1, TaskFields DEF Acts, Pcs
  <2>4. TaskOK(t) /\ t.pc = "load" /\ t.kind = task.kind BY <1>1, <2>1, <2>3, GoesTo
  <2>5. OpOK(task) => OpOK(t) BY <1>1, <2>4 DEF OpOK
  <2>6. OpOK(task) => OpOK(t)' BY <1>1, <2>5, OpSame
  <2>7. Op(t) BY <2>4 DEF Op
  <2>8. RowOK(row)' BY <1>1 DEF IInv, TInv
  <2> QED BY <1>1, <1>2, <1>4, <2>2, <2>4, <2>6, <2>7, <2>8, OpStep
<1>6. CASE ~MayAnswer(row, task.seat)
  <2>1. tasks' = [tasks EXCEPT ![slot] = Idle] BY <1>6 DEF CheckTimeout, End, Begin
  <2>2. OpOK(task) => Rest' BY <1>1, RestSame DEF OpOK
  <2> QED BY <1>1, <1>2, <1>4, <2>1, <2>2, EndStep
<1> QED BY <1>5, <1>6

LEMMA ReadStep ==
  ASSUME TableAssumption, IInv, NEW slot \in Slots, NEW task, Running(slot, task),
         Read(slot, task)
  PROVE  IInv'
<1>1. /\ task.pc = "read" /\ TaskOK(task) /\ tasks[slot] = task /\ bots' = bots
      /\ UNCHANGED <<row, turn, botTimer, proposal, decision, resume, overlapped>>
  BY DEF Read, Running, gateway
<1>2. Op(task) BY <1>1 DEF Op
<1>3. PICK t, base, pc : /\ t = [task EXCEPT !.base = base, !.pc = pc]
                         /\ base = row /\ pc = "load"
  OBVIOUS
<1>4. tasks' = [tasks EXCEPT ![slot] = t] BY <1>3 DEF Read, Begin
<1>5. TaskOK(task) BY <1>1
<1>6. t = [ pc |-> pc, kind |-> task.kind, seat |-> task.seat, base |-> base,
            see |-> task.see, copy |-> task.copy, rung |-> task.rung, back |-> task.back ]
  <2>1. t = [task EXCEPT !.base = base, !.pc = pc] BY <1>3
  <2> QED BY ONLY <1>5, <2>1, BaseSet
<1>7. pc \in Pcs /\ Acts(task.kind, pc, task.seat) /\ RowOK(base)
  BY <1>1, <1>3, TaskFields DEF Acts, Pcs, IInv, TInv
<1>8. TaskOK(t) /\ t.pc = "load" /\ t.kind = task.kind /\ t.seat = task.seat /\ t.base = row
  <2>1. TaskOK(t) /\ t.pc = pc /\ t.kind = task.kind /\ t.seat = task.seat /\ t.base = base
    BY <1>5, <1>6, <1>7, TaskFields, TaskGoes
  <2> QED BY <1>3, <2>1
<1>9. OpOK(task) => OpOK(t) BY <1>1, <1>8 DEF OpOK
<1>10. OpOK(task) => OpOK(t)' BY <1>1, <1>9, OpSame
<1>11. Op(t) BY <1>8 DEF Op
<1>12. RowOK(row)' BY <1>1 DEF IInv, TInv
<1>13. GatewayOK' BY <1>1, GatewaySame DEF IInv, TInv, GatewayOK
<1> QED BY <1>1, <1>2, <1>4, <1>8, <1>10, <1>11, <1>12, <1>13, OpStep

\* What an operation saves is a hand.
LEMMA OutcomesOK ==
  ASSUME TableAssumption, RowOK(row), NEW task, TaskOK(task), task.pc \in {"load", "save"},
         NEW copy \in Outcomes(task)
  PROVE  RowOK(copy)
<1> DEFINE team == TeamOf(task.seat)
<1>1. task.kind \in Kinds /\ Acts(task.kind, task.pc, task.seat) BY TaskFields
<1>2. team \in Team BY TeamIs
<1>3. RowOK(OverRow) BY NewRowOK DEF Team
<1>4. CASE task.kind \in {"play", "expire"}
  <2>1. task.seat \in Seats BY <1>1, <1>4 DEF Acts
  <2>2. MayPlay(row, task.seat) /\ copy \in Played(row, task.seat) BY <1>4 DEF Outcomes
  <2> QED BY <2>1, <2>2, PlayedOK
<1>5. CASE task.kind \in {"ask", "approve"}
  <2>1. MayAsk(row, team, task.rung) /\ copy = Asked(row, team) BY <1>5 DEF Outcomes
  <2> QED BY <1>2, <2>1, AskedOK
<1>6. CASE task.kind = "accept"
  <2>1. MayAnswer(row, team) /\ copy = Accepted(row, team) BY <1>6 DEF Outcomes
  <2> QED BY <1>2, <2>1, AcceptedOK
<1>7. CASE task.kind = "onzeYes"
  <2>1. MayDecideOnze(row, team) /\ copy = [row EXCEPT !.onze = None]
    BY <1>7 DEF Outcomes
  <2> QED BY <1>2, <2>1, DecidedOK
<1>8. CASE task.kind \in {"decline", "timeout", "onzeNo"}
  <2>1. copy = OverRow BY <1>8 DEF Outcomes
  <2> QED BY <1>3, <2>1
<1>9. task.kind \notin {"bot", "wake", "advise"} BY <1>1 DEF Acts
<1> QED BY <1>1, <1>4, <1>5, <1>6, <1>7, <1>8, <1>9 DEF Kinds

LEMMA LoadStep ==
  ASSUME TableAssumption, IInv, NEW slot \in Slots, NEW task, Running(slot, task),
         Load(slot, task)
  PROVE  IInv'
<1>1. /\ task.pc = "load" /\ TaskOK(task) /\ tasks[slot] = task /\ bots' = bots
      /\ UNCHANGED <<row, turn, botTimer, proposal, decision, resume, overlapped>>
  BY DEF Load, Running, gateway
<1>2. Op(task) BY <1>1 DEF Op
<1>3. GatewayOK' BY <1>1, GatewaySame DEF IInv, TInv, GatewayOK
<1>4. CASE tasks' = [tasks EXCEPT ![slot] = Idle]
  <2>1. OpOK(task) => Rest' BY <1>1, RestSame DEF OpOK
  <2> QED BY <1>1, <1>2, <1>3, <1>4, <2>1, EndStep
<1>5. ASSUME NEW copy \in Outcomes(task),
             tasks' = [tasks EXCEPT ![slot] = [task EXCEPT !.copy = copy, !.pc = "save"]]
      PROVE  IInv'
  <2>1. PICK t, pc : t = [task EXCEPT !.copy = copy, !.pc = pc] /\ pc = "save"
    OBVIOUS
  <2>2. tasks' = [tasks EXCEPT ![slot] = t] BY <1>5, <2>1
  <2>3. TaskOK(task) BY <1>1
  <2>4. t = [ pc |-> pc, kind |-> task.kind, seat |-> task.seat, base |-> task.base,
              see |-> task.see, copy |-> copy, rung |-> task.rung, back |-> task.back ]
    <3>1. t = [task EXCEPT !.copy = copy, !.pc = pc] BY <2>1
    <3> QED BY ONLY <2>3, <3>1, CopySet
  <2>5. pc \in Pcs /\ Acts(task.kind, pc, task.seat)
    BY <1>1, <2>1, TaskFields DEF Acts, Pcs
  <2>6. RowOK(copy) BY <1>1, <1>5, OutcomesOK DEF IInv, TInv
  <2>7. /\ TaskOK(t) /\ t.pc = "save" /\ t.kind = task.kind /\ t.seat = task.seat
        /\ t.base = task.base /\ t.copy = copy /\ t.rung = task.rung
    <3>1. /\ TaskOK(t) /\ t.pc = pc /\ t.kind = task.kind /\ t.seat = task.seat
          /\ t.base = task.base /\ t.copy = copy /\ t.rung = task.rung
      BY <2>3, <2>4, <2>5, <2>6, TaskFields, TaskGoes
    <3> QED BY <2>1, <3>1
  <2>8. Outcomes(t) = Outcomes(task) BY <2>7 DEF Outcomes
  <2>9. OpOK(task) => OpOK(t) BY <1>1, <1>5, <2>7, <2>8 DEF OpOK
  <2>10. OpOK(task) => OpOK(t)' BY <1>1, <2>9, OpSame
  <2>11. Op(t) BY <2>7 DEF Op
  <2>12. RowOK(row)' BY <1>1 DEF IInv, TInv
  <2> QED BY <1>1, <1>2, <1>3, <2>2, <2>7, <2>10, <2>11, <2>12, OpStep
<1> QED BY <1>4, <1>5 DEF Load, End, Begin

\* What the hand is once an operation has saved it, if it knew the hand before.
LEMMA SavedOK ==
  ASSUME TableAssumption, TInv, NEW task, TaskOK(task), task.pc = "save", OpOK(task),
         NEW t, TaskOK(t), t.kind = task.kind, t.seat = task.seat, t.base = task.base,
         t.pc = IF task.kind \in {"play", "expire"} THEN "after" ELSE "then",
         row' = task.copy, UNCHANGED <<turn, resume>>
  PROVE  OpOK(t)'
<1> DEFINE team == TeamOf(task.seat)
<1>1. /\ Rest /\ task.copy \in Outcomes(task) /\ RowOK(row)
      /\ task.kind \in Kinds /\ Acts(task.kind, "save", task.seat)
  BY TaskFields DEF OpOK, TInv
<1>2. team \in Team /\ Other(team) \in Team /\ None \notin Team BY TeamIs, NoneIs
<1>3. ~OverRow.live /\ OverRow.asked = None BY DEF OverRow, NewRow
<1>4. CASE task.kind \in {"play", "expire"}
  <2>1. MayPlay(row, task.seat) /\ task.copy \in Played(row, task.seat)
    BY <1>1, <1>4 DEF Outcomes
  <2>2. CardIsNext(row) BY <2>1 DEF MayPlay, CardIsNext
  <2>3. task.base = row /\ task.seat = turn BY <1>4, <2>2 DEF OpOK
  <2>4. Fits(row, turn) BY <1>1, <2>1 DEF Rest, MayPlay
  <2>5. Fits(t.base, turn) /\ MayPlay(t.base, turn) BY <2>1, <2>3, <2>4
  <2>6. row' \in Played(t.base, turn) /\ t.seat = turn BY <2>1, <2>3
  <2>7. Fits(t.base, turn)' /\ MayPlay(t.base, turn)' /\ (row \in Played(t.base, turn))'
    BY <2>5, <2>6 DEF Fits, MayPlay, Played
  <2> QED BY <1>4, <2>6, <2>7 DEF OpOK
<1>5. ASSUME row'.played = row.played, row'.taken = row.taken, row.live
      PROVE  Fits(row', turn)
  BY <1>1, <1>5 DEF Rest, Fits
<1>6. CASE task.kind \in {"ask", "approve"}
  <2>1. MayAsk(row, team, task.rung) /\ row' = Asked(row, team)
    BY <1>1, <1>6 DEF Outcomes
  <2>2. row'.played = row.played /\ row'.taken = row.taken BY <1>1, <1>2, <2>1, AskedOK
  <2>3. Fits(row', turn) BY <1>5, <2>1, <2>2 DEF MayAsk
  <2>4. task.kind = "approve" => t.seat = turn BY <1>6 DEF OpOK
  <2>5. Fits(row, turn)' BY <2>3 DEF Fits
  <2> QED BY <1>6, <2>4, <2>5 DEF OpOK
<1>7. CASE task.kind = "accept"
  <2>1. MayAnswer(row, team) /\ row' = Accepted(row, team) BY <1>1, <1>7 DEF Outcomes
  <2>2. row'.played = row.played /\ row'.taken = row.taken /\ row'.asked = None
    BY <1>1, <1>2, <2>1, AcceptedOK
  <2>3. row.live /\ row.asked # None BY <1>2, <2>1 DEF MayAnswer
  <2>4. resume = turn BY <1>1, <2>3 DEF Rest
  <2>5. Fits(row, turn)' BY <1>5, <2>2, <2>3 DEF Fits
  <2> QED BY <1>7, <2>2, <2>4, <2>5 DEF OpOK
<1>8. CASE task.kind = "onzeYes"
  <2>1. MayDecideOnze(row, team) /\ row' = [row EXCEPT !.onze = None]
    BY <1>1, <1>8 DEF Outcomes
  <2>2. row'.played = {} /\ row'.taken = None /\ row'.asked = None
    BY <1>1, <1>2, <2>1, DecidedOK
  <2>3. row.played = {} /\ row.taken = None /\ row.live
    BY <1>1, <1>2, <2>1 DEF RowOK, MayDecideOnze
  <2>4. Fits(row, turn)' BY <1>5, <2>2, <2>3 DEF Fits
  <2> QED BY <1>8, <2>2, <2>4 DEF OpOK
<1>9. CASE task.kind \in {"decline", "timeout", "onzeNo"}
  <2>1. row' = OverRow BY <1>1, <1>9 DEF Outcomes
  <2>2. ~row'.live /\ row'.asked = None BY <1>3, <2>1
  <2> QED BY <1>9, <2>2 DEF OpOK
<1>10. task.kind \notin {"bot", "wake", "advise"} BY <1>1 DEF Acts
<1> QED BY <1>1, <1>4, <1>6, <1>7, <1>8, <1>9, <1>10 DEF Kinds

LEMMA SaveStep ==
  ASSUME TableAssumption, IInv, NEW slot \in Slots, NEW task, Running(slot, task),
         Save(slot, task)
  PROVE  IInv'
<1>1. /\ task.pc = "save" /\ TaskOK(task) /\ tasks[slot] = task /\ bots' = bots
      /\ row' = task.copy
      /\ UNCHANGED <<turn, botTimer, proposal, decision, resume, overlapped>>
  BY DEF Save, Running, gateway
<1>2. Op(task) BY <1>1 DEF Op
<1>3. GatewayOK' BY <1>1, GatewaySame DEF IInv, TInv, GatewayOK
<1>4. PICK t, copy, pc :
        /\ t = [task EXCEPT !.copy = copy, !.pc = pc] /\ copy = OverRow
        /\ pc = IF task.kind \in {"play", "expire"} THEN "after" ELSE "then"
  OBVIOUS
<1>5. tasks' = [tasks EXCEPT ![slot] = t] BY <1>4 DEF Save, Begin
<1>6. TaskOK(task) BY <1>1
<1>7. t = [ pc |-> pc, kind |-> task.kind, seat |-> task.seat, base |-> task.base,
            see |-> task.see, copy |-> copy, rung |-> task.rung, back |-> task.back ]
  <2>1. t = [task EXCEPT !.copy = copy, !.pc = pc] BY <1>4
  <2> QED BY ONLY <1>6, <2>1, CopySet
<1>8. pc \in Pcs /\ Acts(task.kind, pc, task.seat)
  BY <1>1, <1>4, TaskFields DEF Acts, Pcs
<1>9. RowOK(copy) BY <1>4, NewRowOK DEF Team
<1>10. TaskOK(t) /\ t.pc = pc /\ t.kind = task.kind /\ t.seat = task.seat
       /\ t.base = task.base
  BY <1>6, <1>7, <1>8, <1>9, TaskFields, TaskGoes
<1>11. OpOK(task) => OpOK(t)' BY <1>1, <1>4, <1>10, SavedOK DEF IInv
<1>12. Op(t) BY <1>4, <1>10 DEF Op
<1>13. RowOK(row)' BY <1>1, TaskFields DEF RowOK
<1> QED BY <1>1, <1>2, <1>3, <1>5, <1>10, <1>11, <1>12, <1>13, OpStep

-----------------------------------------------------------------------------
(* The turn after a card *)

LEMMA OneMore ==
  ASSUME NEW S, IsFiniteSet(S), NEW n \in Nat, Cardinality(S) \in 0..n, NEW x
  PROVE  /\ IsFiniteSet(S \cup {x}) /\ Cardinality(S \cup {x}) \in 0..(n + 1)
         /\ x \notin S => Cardinality(S \cup {x}) = Cardinality(S) + 1
<1>1. /\ IsFiniteSet(S \cup {x})
      /\ Cardinality(S \cup {x}) = IF x \in S THEN Cardinality(S) ELSE Cardinality(S) + 1
  BY FS_AddElement
<1> QED BY <1>1

LEMMA FewSeats ==
  ASSUME TableAssumption, NEW P \in SUBSET Seats
  PROVE  IsFiniteSet(P) /\ Cardinality(P) \in 0..4
<1>1. Seats \subseteq {"T1A", "T2A", "T1B", "T2B"} BY SeatsAre
<1> DEFINE S == {"T1A", "T2A", "T1B", "T2B"}
<1>2. IsFiniteSet(S) /\ Cardinality(S) <= 4
  <2>1. IsFiniteSet({}) /\ Cardinality({}) = 0 BY FS_EmptySet
  <2>2. IsFiniteSet({} \cup {"T1A"}) /\ Cardinality({} \cup {"T1A"}) \in 0..1
    BY <2>1, OneMore
  <2>3. /\ IsFiniteSet({} \cup {"T1A"} \cup {"T2A"})
        /\ Cardinality({} \cup {"T1A"} \cup {"T2A"}) \in 0..2
    BY <2>2, OneMore
  <2>4. /\ IsFiniteSet({} \cup {"T1A"} \cup {"T2A"} \cup {"T1B"})
        /\ Cardinality({} \cup {"T1A"} \cup {"T2A"} \cup {"T1B"}) \in 0..3
    BY <2>3, OneMore
  <2>5. /\ IsFiniteSet({} \cup {"T1A"} \cup {"T2A"} \cup {"T1B"} \cup {"T2B"})
        /\ Cardinality({} \cup {"T1A"} \cup {"T2A"} \cup {"T1B"} \cup {"T2B"}) \in 0..4
    BY <2>4, OneMore
  <2>6. S = {} \cup {"T1A"} \cup {"T2A"} \cup {"T1B"} \cup {"T2B"} OBVIOUS
  <2> QED BY <2>5, <2>6
<1>3. P \subseteq S BY <1>1
<1> HIDE DEF S
<1>4. IsFiniteSet(P) /\ Cardinality(P) <= Cardinality(S) BY <1>2, <1>3, FS_Subset
<1>5. Cardinality(P) \in Nat /\ Cardinality(S) \in Nat
  BY <1>2, <1>4, FS_CardinalityType
<1> QED BY <1>2, <1>4, <1>5

\* A card of the seat whose turn it was puts the turn where the cards put it.
LEMMA TurnMoves ==
  ASSUME TableAssumption, NEW base, RowOK(base), NEW now, RowOK(now),
         MayPlay(base, turn), Fits(base, turn), now \in Played(base, turn), now.live
  PROVE  Fits(now, TurnAfterCard(base, now, turn)) /\ now.asked = None
<1>1. /\ turn \in Seats /\ turn # None /\ turn \notin base.played
      /\ base.round \in 1..3 /\ base.played \subseteq Seats
      /\ base.played = Before(turn, Cardinality(base.played))
  BY NoneIs, RowFields DEF Fits, MayPlay, RowOK
<1> DEFINE next == TurnAfterCard(base, now, turn)
<1>2. /\ now.asked = None
      /\ \/ now.round = base.round /\ now.played = base.played \cup {turn} /\ now.taken = None
         \/ now.round = base.round + 1 /\ now.played = {}
  BY <1>1, PlayedOK
<1>3. NextSeat(turn) \in Seats BY <1>1, NextSeatIs
<1>4. CASE now.round = base.round /\ now.played = base.played \cup {turn} /\ now.taken = None
  <2>1. next = NextSeat(turn) BY <1>1, <1>4 DEF TurnAfterCard
  <2>2. IsFiniteSet(base.played) /\ Cardinality(base.played) \in 0..4
    BY <1>1, FewSeats
  <2>3. Cardinality(now.played) = Cardinality(base.played) + 1
    <3>1. Cardinality(base.played \cup {turn}) = Cardinality(base.played) + 1
      BY <1>1, <2>2, OneMore
    <3> QED BY <1>4, <3>1
  <2>4. now.played = Before(NextSeat(turn), Cardinality(now.played))
    BY <1>1, <1>4, <2>2, <2>3, BeforeNext
  <2>5. now.taken \notin Seats BY <1>4, NoneIs
  <2> QED BY <1>2, <1>3, <2>1, <2>4, <2>5 DEF Fits
<1>5. CASE now.round = base.round + 1 /\ now.played = {}
  <2>1. next = IF now.taken \in Seats THEN now.taken ELSE NextSeat(turn)
    BY <1>1, <1>5 DEF TurnAfterCard
  <2>2. next \in Seats /\ (now.taken \in Seats => next = now.taken) BY <1>3, <2>1
  <2>3. Cardinality(now.played) = 0 BY <1>5, FS_EmptySet
  <2> HIDE DEF next
  <2>4. now.played = Before(next, 0) BY <1>5, <2>2, BeforeNext
  <2>5. Fits(now, next) BY <2>2, <2>3, <2>4 DEF Fits
  <2> QED BY <1>2, <2>5 DEF next
<1> QED BY <1>2, <1>4, <1>5

LEMMA MoveTurnStep ==
  ASSUME TableAssumption, IInv, NEW slot \in Slots, NEW task, Running(slot, task),
         MoveTurn(slot, task)
  PROVE  IInv'
<1>1. /\ task.pc = "after" /\ TaskOK(task) /\ tasks[slot] = task /\ bots' = bots
      /\ turn' = TurnAfterCard(task.base, row, task.seat)
      /\ UNCHANGED <<row, botTimer, proposal, decision, resume, overlapped>>
  BY DEF MoveTurn, Running
<1>2. Op(task) BY <1>1 DEF Op
<1>3. task.seat \in Seats /\ RowOK(task.base) /\ RowOK(row) /\ GatewayOK
  BY <1>1, TaskFields DEF Acts, IInv, TInv
<1>4. turn' \in Seats \cup {None}
  <2>1. TurnOrder[1] \in Seats BY SeatsAre
  <2>2. NextSeat(task.seat) \in Seats BY <1>3, NextSeatIs
  <2>3. turn # None => NextSeat(turn) \in Seats BY <1>3, NextSeatIs DEF GatewayOK
  <2> QED BY <1>1, <2>1, <2>2, <2>3 DEF TurnAfterCard
<1>5. GatewayOK'
  <2>1. /\ resume' \in Seats \cup {None} /\ botTimer' \in BOOLEAN
        /\ overlapped' \in BOOLEAN
    BY <1>1, <1>3 DEF GatewayOK
  <2> QED BY <1>1, <1>3, <1>4, <2>1, GatewayStep
<1>6. PICK t, base, see, pc :
        /\ t = [task EXCEPT !.base = base, !.see = see, !.pc = pc]
        /\ base = OverRow /\ see = Glance(row) /\ pc = "pace"
  OBVIOUS
<1>7. tasks' = [tasks EXCEPT ![slot] = t] BY <1>6 DEF MoveTurn, Begin
<1>8. TaskOK(task) BY <1>1
<1>9. t = [ pc |-> pc, kind |-> task.kind, seat |-> task.seat, base |-> base,
            see |-> see, copy |-> task.copy, rung |-> task.rung, back |-> task.back ]
  <2>1. t = [task EXCEPT !.base = base, !.see = see, !.pc = pc] BY <1>6
  <2> QED BY ONLY <1>8, <2>1, ShownSet
<1>10. pc \in Pcs /\ Acts(task.kind, pc, task.seat)
  BY <1>1, <1>6, TaskFields DEF Acts, Pcs
<1>11. RowOK(base) /\ RowOK(see) BY <1>3, <1>6, NewRowOK, GlanceOK DEF Team
<1>12. TaskOK(t) /\ t.pc = pc BY <1>8, <1>9, <1>10, <1>11, TaskFields, TaskGoes
<1>13. ~Op(t) BY <1>6, <1>12 DEF Op
<1>14. OpOK(task) => Rest'
  <2>1. SUFFICES ASSUME OpOK(task), row'.live
                 PROVE  Fits(row', turn') /\ row'.asked = None
    BY DEF Rest, Fits
  <2>2. /\ MayPlay(task.base, turn) /\ Fits(task.base, turn)
        /\ row \in Played(task.base, turn) /\ task.seat = turn
    BY <1>1, <2>1 DEF OpOK
  <2>3. row.live BY <1>1, <2>1
  <2>4. Fits(row, TurnAfterCard(task.base, row, turn)) /\ row.asked = None
    BY <1>3, <2>2, <2>3, TurnMoves
  <2> QED BY <1>1, <2>2, <2>4
<1> QED BY <1>1, <1>2, <1>5, <1>7, <1>12, <1>13, <1>14, EndStep

LEMMA PaceStep ==
  ASSUME TableAssumption, IInv, NEW slot \in Slots, NEW task, Running(slot, task),
         Pace(slot, task)
  PROVE  IInv'
<1>1. /\ task.pc = "pace" /\ bots' = bots /\ tasks' = [tasks EXCEPT ![slot] = Idle]
      /\ UNCHANGED <<row, turn, proposal, decision, resume, overlapped>>
  BY DEF Pace, Running, End, Begin
<1>2. botTimer' \in BOOLEAN BY DEF Pace
<1>3. GatewayOK' BY <1>1, <1>2, GatewaySame DEF IInv, TInv, GatewayOK
<1>4. ~Op(task) BY <1>1 DEF Op
<1> QED BY <1>1, <1>3, <1>4, AsideStep

LEMMA ThenStep ==
  ASSUME TableAssumption, IInv, NEW slot \in Slots, NEW task, Running(slot, task),
         Then(slot, task)
  PROVE  IInv'
<1>1. /\ task.pc = "then" /\ TaskOK(task) /\ tasks[slot] = task /\ bots' = bots
      /\ proposal' \in {proposal, NoProposal} /\ decision' \in {decision, NoDecision}
      /\ UNCHANGED <<row, botTimer, overlapped>>
  BY DEF Then, Running
<1>2. /\ turn' = CASE task.kind = "accept" -> Or(resume, task.back)
                   [] task.kind = "onzeYes" -> task.seat
                   [] OTHER -> turn
      /\ resume' = CASE task.kind = "ask" -> Or(turn, task.seat)
                     [] task.kind = "approve" -> task.seat
                     [] task.kind \in {"accept", "decline", "timeout"} -> None
                     [] OTHER -> resume
  BY DEF Then
<1>3. /\ Acts(task.kind, "then", task.seat) /\ task.back \in Seats \cup {None}
      /\ task.kind \in Kinds /\ task.seat \in Seats \cup Team \cup {None}
  BY <1>1, TaskFields
<1>4. Op(task) BY <1>1 DEF Op
<1>5. /\ GatewayOK /\ turn \in Seats \cup {None} /\ resume \in Seats \cup {None}
  BY DEF IInv, TInv, GatewayOK
<1>6. task.kind \in {"ask", "approve", "onzeYes"} => task.seat \in Seats
  BY <1>3 DEF Acts
<1>7. /\ turn # None => Or(turn, task.seat) = turn
      /\ resume # None => Or(resume, task.back) = resume
      /\ Or(turn, task.seat) \in {turn, task.seat}
      /\ Or(resume, task.back) \in {resume, task.back}
  BY DEF Or
<1>8. turn' \in Seats \cup {None} BY <1>2, <1>3, <1>5, <1>6, <1>7
<1>9. resume' \in Seats \cup {None} BY <1>2, <1>5, <1>6, <1>7
<1>10. GatewayOK'
  <2>1. botTimer' \in BOOLEAN /\ overlapped' \in BOOLEAN BY <1>1, <1>5 DEF GatewayOK
  <2> QED BY <1>1, <1>5, <1>8, <1>9, <2>1, GatewayStep
<1>11. PICK t, pc : t = Task(task.kind, pc, task.seat)
                    /\ pc = IF task.kind \in {"ask", "approve"} THEN "ensure" ELSE "flow"
  OBVIOUS
<1>12. tasks' = [tasks EXCEPT ![slot] = t] BY <1>11 DEF Then, Begin
<1>13. pc \in Pcs /\ Acts(task.kind, pc, task.seat) BY <1>3, <1>11 DEF Acts, Pcs
<1>14. TaskOK(t) /\ t.pc = pc BY <1>3, <1>11, <1>13, TaskMade
<1>15. ~Op(t) BY <1>11, <1>14 DEF Op
<1>16. OpOK(task) => Rest'
  <2>1. SUFFICES ASSUME OpOK(task), row.live
                 PROVE  Fits(row, turn') /\ (row.asked # None => resume' = turn')
    BY <1>1 DEF Rest, Fits
  <2>2. Fits(row, turn) /\ turn \in Seats /\ turn # None
    BY <1>1, <2>1, NoneIs DEF OpOK, Fits
  <2>3. /\ task.kind \in {"ask", "approve", "accept", "onzeYes"}
        /\ row.asked # None => task.kind \in {"ask", "approve"}
        /\ task.kind = "approve" => task.seat = turn
        /\ task.kind = "accept" => resume = turn
        /\ task.kind = "onzeYes" => row.played = {} /\ row.taken = None
    BY <1>1, <2>1 DEF OpOK
  <2>4. CASE task.kind = "ask"
    <3>1. turn' = turn /\ resume' = turn BY <1>2, <1>7, <2>2, <2>4
    <3> QED BY <2>2, <3>1
  <2>5. CASE task.kind = "approve"
    <3>1. turn' = turn /\ resume' = turn BY <1>2, <2>3, <2>5
    <3> QED BY <2>2, <3>1
  <2>6. CASE task.kind = "accept"
    <3>1. turn' = turn /\ row.asked = None BY <1>2, <1>7, <2>2, <2>3, <2>6
    <3> QED BY <2>2, <3>1
  <2>7. CASE task.kind = "onzeYes"
    <3>1. turn' = task.seat /\ row.asked = None BY <1>2, <2>3, <2>7
    <3>2. task.seat \in Seats /\ row.played = {} /\ row.taken = None BY <1>6, <2>3, <2>7
    <3>3. Before(task.seat, 0) = {} BY <3>2, BeforeNext
    <3>4. Cardinality(row.played) = 0 BY <3>2, FS_EmptySet
    <3>5. row.taken \notin Seats BY <3>2, NoneIs
    <3>6. Fits(row, task.seat) BY <3>2, <3>3, <3>4, <3>5 DEF Fits
    <3> QED BY <3>1, <3>6
  <2> QED BY <2>3, <2>4, <2>5, <2>6, <2>7
<1>17. proposal = NoProposal => proposal' = NoProposal BY <1>1
<1> QED BY <1>1, <1>4, <1>10, <1>12, <1>14, <1>15, <1>16, <1>17, EndStep

LEMMA EnsureStep ==
  ASSUME TableAssumption, IInv, NEW slot \in Slots, NEW task, Running(slot, task),
         Ensure(slot, task)
  PROVE  IInv'
<1>1. /\ task.pc = "ensure" /\ TaskOK(task) /\ tasks[slot] = task /\ bots' = bots
      /\ UNCHANGED <<row, turn, botTimer, proposal, resume, overlapped>>
  BY DEF Ensure, Running
<1>2. ~Op(task) BY <1>1 DEF Op
<1>3. GatewayOK /\ RowOK(row) BY DEF IInv, TInv
<1>4. \/ decision' \in {decision, NoDecision}
      \/ \E team \in Team, rung \in 1..MaxLevel :
           decision' = [team |-> team, rung |-> rung, timer |-> TRUE]
  <2>1. \/ decision' \in {decision, NoDecision}
        \/ /\ row.asked # None
           /\ decision' = [team |-> Other(row.asked), rung |-> row.level + 1, timer |-> TRUE]
    BY DEF Ensure
  <2>2. row.asked # None => row.level + 1 \in 1..MaxLevel
    <3>1. row.level \in 0..MaxLevel /\ MaxLevel \in 1..4 BY <1>3, RowFields, LevelIs DEF RowOK
    <3> QED BY <1>3, <3>1 DEF RowOK
  <2>3. Other(row.asked) \in Team BY TeamIs
  <2> QED BY <2>1, <2>2, <2>3
<1>5. GatewayOK'
  <2>1. /\ turn' \in Seats \cup {None} /\ resume' \in Seats \cup {None}
        /\ botTimer' \in BOOLEAN /\ overlapped' \in BOOLEAN
    BY <1>1, <1>3 DEF GatewayOK
  <2> QED BY <1>1, <1>3, <1>4, <2>1, GatewayStep
<1>6. CASE task.kind = "advise"
  <2>1. tasks' = [tasks EXCEPT ![slot] = Idle] BY <1>6 DEF Ensure, End, Begin
  <2> QED BY <1>1, <1>2, <1>5, <2>1, AsideStep
<1>7. CASE task.kind # "advise"
  <2>1. PICK t : t = [task EXCEPT !.pc = "flow"] OBVIOUS
  <2>2. tasks' = [tasks EXCEPT ![slot] = t] BY <1>7, <2>1 DEF Ensure, Go, Begin
  <2>3. "flow" \in Pcs /\ Acts(task.kind, "flow", task.seat)
    BY <1>1, TaskFields DEF Acts, Pcs
  <2>4. TaskOK(t) /\ t.pc = "flow" BY <1>1, <2>1, <2>3, GoesTo
  <2>5. ~Op(t) BY <2>4 DEF Op
  <2> QED BY <1>1, <1>2, <1>5, <2>2, <2>4, <2>5, AsideStep
<1> QED BY <1>6, <1>7

LEMMA FlowStep ==
  ASSUME TableAssumption, IInv, NEW slot \in Slots, NEW task, Running(slot, task),
         Flow(slot, task)
  PROVE  IInv'
<1>1. /\ task.pc = "flow" /\ TaskOK(task) /\ tasks[slot] = task /\ bots' = bots
      /\ UNCHANGED <<row, turn, botTimer, proposal, decision, resume, overlapped>>
  BY DEF Flow, Running, gateway
<1>2. ~Op(task) BY <1>1 DEF Op
<1>3. GatewayOK' BY <1>1, GatewaySame DEF IInv, TInv, GatewayOK
<1>4. PICK t, see, pc : /\ t = [task EXCEPT !.see = see, !.pc = pc]
                        /\ see = Glance(row) /\ pc = "arm"
  OBVIOUS
<1>5. tasks' = [tasks EXCEPT ![slot] = t] BY <1>4 DEF Flow, Begin
<1>6. TaskOK(task) BY <1>1
<1>7. t = [ pc |-> pc, kind |-> task.kind, seat |-> task.seat, base |-> task.base,
            see |-> see, copy |-> task.copy, rung |-> task.rung, back |-> task.back ]
  <2>1. t = [task EXCEPT !.see = see, !.pc = pc] BY <1>4
  <2> QED BY ONLY <1>6, <2>1, SeeSet
<1>8. pc \in Pcs /\ Acts(task.kind, pc, task.seat)
  BY <1>1, <1>4, TaskFields DEF Acts, Pcs
<1>9. RowOK(see) BY <1>4, GlanceOK DEF IInv, TInv
<1>10. TaskOK(t) /\ t.pc = pc BY <1>6, <1>7, <1>8, <1>9, TaskFields, TaskGoes
<1>11. ~Op(t) BY <1>4, <1>10 DEF Op
<1> QED BY <1>1, <1>2, <1>3, <1>5, <1>10, <1>11, AsideStep

LEMMA ArmStep ==
  ASSUME TableAssumption, IInv, NEW slot \in Slots, NEW task, Running(slot, task),
         Arm(slot, task)
  PROVE  IInv'
<1>1. /\ task.pc = "arm" /\ TaskOK(task) /\ bots' = bots
      /\ UNCHANGED <<row, turn, proposal, decision, resume, overlapped>>
  BY DEF Arm, Running
<1>2. ~Op(task) BY <1>1 DEF Op
<1>3. botTimer' \in BOOLEAN BY DEF Arm
<1>4. GatewayOK' BY <1>1, <1>3, GatewaySame DEF IInv, TInv, GatewayOK
<1> DEFINE w == Task("wake", "flow", task.seat)
<1>5. \/ tasks' = [tasks EXCEPT ![slot] = Idle]
      \/ tasks' = [tasks EXCEPT ![slot] = w]
  BY DEF Arm, Begin, End
<1>6. TaskOK(w) /\ ~Op(w)
  <2>1. task.seat \in Seats \cup Team \cup {None} BY <1>1, TaskFields
  <2>2. TaskOK(w) /\ w.pc = "flow" BY <2>1, TaskMade DEF Kinds, Pcs, Acts
  <2> QED BY <2>2 DEF Op
<1> HIDE DEF w
<1> QED BY <1>1, <1>2, <1>4, <1>5, <1>6, AsideStep

-----------------------------------------------------------------------------
(* The invariant *)

LEMMA InitHolds ==
  ASSUME TableAssumption, Init
  PROVE  IInv
<1>1. PICK onze \in Team \cup {None} : row = NewRow(onze)
  BY DEF Init, TableAssumption, Team
<1>2. RowOK(row) /\ row.played = {} /\ row.taken = None /\ row.asked = None
  <2>1. RowOK(NewRow(onze)) BY <1>1, NewRowOK
  <2>2. NewRow(onze).played = {} /\ NewRow(onze).taken = None /\ NewRow(onze).asked = None
    BY DEF NewRow
  <2> QED BY <1>1, <2>1, <2>2
<1>3. GatewayOK
  <2>1. NoDecision \in [team : Team \cup {None}, rung : Level, timer : BOOLEAN]
    BY LevelIs DEF NoDecision
  <2> QED BY <2>1 DEF Init, GatewayOK
<1>4. PICK w : w = Task("wake", "flow", None) OBVIOUS
<1>5. TaskOK(w) /\ w.pc = "flow" BY <1>4, TaskMade DEF Kinds, Pcs, Acts
<1>6. tasks = [s \in Slots |-> IF s = "wake" THEN w ELSE Idle] BY <1>4 DEF Init
<1>7. TasksOK BY <1>5, <1>6 DEF TasksOK, TaskOK
<1>8. \A s \in Slots : ~Op(tasks[s]) BY <1>5, <1>6, IdleIs DEF Op
<1>9. Rest
  <2>1. turn \in Seats BY DEF Init
  <2>2. Before(turn, 0) = {} BY <2>1, BeforeNext
  <2>3. Cardinality(row.played) = 0 BY <1>2, FS_EmptySet
  <2> QED BY <1>2, <2>1, <2>2, <2>3, NoneIs DEF Rest, Fits
<1>10. Quiet BY <1>8, <1>9 DEF Quiet, Init
<1> QED BY <1>2, <1>3, <1>7, <1>10 DEF IInv, TInv, AInv

LEMMA SameHolds ==
  ASSUME IInv, UNCHANGED vars
  PROVE  IInv'
<1>1. UNCHANGED <<row, turn, bots, botTimer, proposal, decision, resume, tasks, overlapped>>
  BY DEF vars, gateway
<1>2. TInv' BY <1>1 DEF IInv, TInv, GatewayOK, TasksOK
<1>3. AInv'
  <2>1. CASE overlapped BY <1>1, <2>1 DEF AInv
  <2>2. CASE Quiet
    <3>1. Quiet' BY <1>1, <2>2, RestSame DEF Quiet
    <3> QED BY <3>1 DEF AInv
  <2>3. ASSUME NEW s \in Slots, Busy(s) PROVE AInv'
    <3>1. PICK u : u = tasks[s] OBVIOUS
    <3>2. OpOK(u)' BY <1>1, <2>3, <3>1, OpSame DEF Busy
    <3>3. Busy(s)' BY <1>1, <2>3, <3>1, <3>2 DEF Busy
    <3> QED BY <3>3 DEF AInv
  <2> QED BY <2>1, <2>2, <2>3 DEF AInv, IInv
<1> QED BY <1>2, <1>3 DEF IInv

LEMMA StepHolds ==
  ASSUME TableAssumption, IInv, NEW slot \in Slots, Step(slot)
  PROVE  IInv'
<1>1. PICK task : task = tasks[slot] OBVIOUS
<1>2. /\ task # Idle /\ bots' = bots
      /\ \/ BotLooks(slot, task) \/ BotDecides(slot, task) \/ Read(slot, task)
         \/ CheckTimeout(slot, task) \/ Load(slot, task) \/ Save(slot, task)
         \/ MoveTurn(slot, task) \/ Pace(slot, task) \/ Then(slot, task)
         \/ Ensure(slot, task) \/ Flow(slot, task) \/ Arm(slot, task)
  BY <1>1 DEF Step, Free
<1>3. Running(slot, task) BY <1>1, <1>2 DEF Running, IInv, TInv, TasksOK
<1> QED BY <1>2, <1>3, BotLooksStep, BotDecidesStep, ReadStep, CheckTimeoutStep, LoadStep,
           SaveStep, MoveTurnStep, PaceStep, ThenStep, EnsureStep, FlowStep, ArmStep

LEMMA RequestsHold ==
  ASSUME TableAssumption, IInv, NEW seat \in Humans,
         \/ PlayCard(seat) \/ RequestTruco(seat) \/ Raise(seat)
         \/ AcceptBet(seat) \/ DeclineBet(seat)
         \/ AcceptMaoDeOnze(seat) \/ DeclineMaoDeOnze(seat)
         \/ ApproveProposal(seat) \/ RejectProposal(seat)
         \/ GetState(seat) \/ Drop(seat) \/ JoinAgain(seat)
  PROVE  IInv'
<1>1. CASE DeclineBet(seat) BY <1>1, AnswerStep DEF DeclineBet
<1>2. CASE AcceptMaoDeOnze(seat) BY <1>2, AnswerStep DEF AcceptMaoDeOnze
<1>3. CASE DeclineMaoDeOnze(seat) BY <1>3, AnswerStep DEF DeclineMaoDeOnze
<1> QED BY <1>1, <1>2, <1>3, PlayCardStep, RequestTrucoStep, RaiseStep, AcceptBetStep,
           ApproveProposalStep, RejectProposalStep, GetStateStep, DropStep, JoinAgainStep

LEMMA NextHolds ==
  ASSUME TableAssumption, IInv, [Next]_vars
  PROVE  IInv'
<1>1. CASE UNCHANGED vars BY <1>1, SameHolds
<1>2. CASE Next
  BY <1>2, RequestsHold, BotWakesStep, ProposalExpiresStep, DecisionExpiresStep, StepHolds
     DEF Next
<1> QED BY <1>1, <1>2

THEOREM Invariance == Spec => []IInv
<1>1. Init => IInv BY InitHolds, TableAssumption
<1>2. IInv /\ [Next]_vars => IInv' BY NextHolds, TableAssumption
<1> QED BY <1>1, <1>2, PTL DEF Spec

(* Whatever requests, bots and timers do, the gateway's maps keep their    *)
(* types, on a table for two and on one for four.                          *)
THEOREM TableTypes == Spec => []TypeOK
<1>1. IInv => TypeOK
  <2>1. SUFFICES ASSUME IInv PROVE TypeOK OBVIOUS
  <2>2. RowOK(row) /\ GatewayOK BY <2>1 DEF IInv, TInv
  <2> QED BY <2>2 DEF TypeOK, RowOK, GatewayOK
<1> QED BY <1>1, Invariance, PTL

(* Between operations that did not overlap, the turn is where the cards on *)
(* the table put it: the gateway moves it after a card from a hand it read *)
(* before, gives it back after a bet, and wakes bots that may act late,    *)
(* and none of this ever leaves it on a seat that has played.              *)
THEOREM TurnsFollow == Spec => []TurnFollowsCards
<1>1. IInv => TurnFollowsCards
  <2>1. SUFFICES ASSUME IInv, ~overlapped, CardIsNext(row), \A s \in Slots : ~Operating(s)
                 PROVE  Fits(row, turn)
    BY DEF TurnFollowsCards, Fits
  <2>2. \A s \in Slots : ~Op(tasks[s]) BY <2>1 DEF Operating, Op
  <2>3. Quiet BY <2>1, <2>2 DEF IInv, AInv, Busy
  <2>4. row.live BY <2>1 DEF CardIsNext
  <2> QED BY <2>3, <2>4 DEF Quiet, Rest
<1> QED BY <1>1, Invariance, PTL
-----------------------------------------------------------------------------
(* Whoever is due is attended to *)

\* Of the hand: a mao de onze takes no bets, once it is decided too, and a full
\* round is closed.
More ==
  row.live => /\ row.onze # None => row.capped
              /\ row.capped => row.asked = None
              /\ row.played # Seats

\* What a handler is about to do is not refused.
Ready(t) ==
  /\ t.pc = "decide" => /\ row.live /\ row.onze \in {None, TeamOf(t.seat)}
                        /\ row.asked \in {None, Other(TeamOf(t.seat))}
  /\ t.pc = "read" => MayPlay(row, t.seat)
  /\ t.pc = "check" => MayAnswer(row, t.seat)
  /\ t.pc = "load" => Outcomes(t) # {}
  /\ t.pc \in {"then", "ensure", "flow"} /\ t.kind = "onzeYes" /\ row.live =>
       row.capped /\ row.onze = None

\* A proposal may be made a bet.
Proposed == proposal # NoProposal => MayAsk(row, TeamOf(proposal.seat), proposal.rung)

\* A decision is about the bet that waits, or will be dropped with what changed
\* the bet; when its timer does not run it has run out.
Drops(t) == t.pc = "then" /\ t.kind \notin {"onzeYes", "onzeNo"}
Dated ==
  decision # NoDecision =>
    \/ MayAnswer(row, decision.team) /\ decision.rung = row.level + 1
    \/ \E s \in Slots : Drops(tasks[s])

RunsOut(t) == t.pc \in {"check", "load", "save", "then"} /\ t.kind = "timeout"
Armed == decision # NoDecision /\ ~decision.timer => RunsOut(tasks["decision"])

KInv ==
  ~overlapped => /\ More /\ Proposed /\ Dated /\ Armed
                 /\ \A s \in Slots : Ready(tasks[s])

WInv == KInv /\ DueBotIsAttended

LEMMA DueSame ==
  ASSUME UNCHANGED <<row, turn, bots>>
  PROVE  BotIsDue' <=> BotIsDue
BY DEF BotIsDue, BotActor, HasHuman

LEMMA AttendsSame ==
  ASSUME UNCHANGED <<row, bots>>, NEW slot, NEW t
  PROVE  Attends(slot, t)' <=> Attends(slot, t)
BY DEF Attends, Mixed, HasHuman, CardIsNext

LEMMA RunsSame ==
  ASSUME UNCHANGED <<row, bots, decision>>
  PROVE  DecisionRuns' <=> DecisionRuns
BY DEF DecisionRuns, Mixed, HasHuman

LEMMA ReadySame ==
  ASSUME UNCHANGED row, NEW t
  PROVE  Ready(t)' <=> Ready(t)
BY OutcomesSame DEF Ready, MayPlay, MayAnswer

\* A handler that has yet to look.
LEMMA Looks ==
  ASSUME NEW slot \in Slots, NEW t, tasks'[slot] = t,
         t.pc \in {"begin", "decide", "check", "read", "load", "save", "after",
                   "then", "flow"}
  PROVE  Attended'
<1>1. Attends(slot, t)' BY DEF Attends
<1> QED BY <1>1 DEF Attended

\* Whoever attended still does.
LEMMA StillAttended ==
  ASSUME DueBotIsAttended, ~overlapped, BotIsDue', UNCHANGED <<row, turn, bots>>,
         DecisionRuns => DecisionRuns',
         proposal # NoProposal => proposal' # NoProposal,
         NEW slot \in Slots, NEW t, tasks'[slot] = t,
         \A s \in Slots \ {slot} : tasks'[s] = tasks[s],
         botTimer => botTimer',
         Attends(slot, tasks[slot]) => botTimer' \/ Attends(slot, t)
  PROVE  Attended'
<1>1. Attended BY DueSame DEF DueBotIsAttended
<1>3. ASSUME NEW s \in Slots, Attends(s, tasks[s]) PROVE Attended'
  <2>1. CASE s = slot
    <3>1. botTimer' \/ Attends(slot, t)' BY <1>3, <2>1, AttendsSame
    <3> QED BY <3>1 DEF Attended
  <2>2. CASE s # slot
    <3>1. PICK u : u = tasks[s] OBVIOUS
    <3>2. Attends(s, u)' BY <1>3, <3>1, AttendsSame
    <3>3. tasks'[s] = u BY <2>2, <3>1
    <3> QED BY <3>2, <3>3 DEF Attended
  <2> QED BY <2>1, <2>2
<1> QED BY <1>1, <1>3 DEF Attended

\* What is known is still known when the hand has not changed.
LEMMA StillKnown ==
  ASSUME KInv, UNCHANGED row, overlapped => overlapped',
         NEW slot \in Slots, NEW t, tasks'[slot] = t,
         \A s \in Slots \ {slot} : tasks'[s] = tasks[s],
         ~overlapped' => Proposed' /\ Dated' /\ Armed' /\ Ready(t)
  PROVE  KInv'
<1>1. SUFFICES ASSUME ~overlapped' PROVE KInv' BY DEF KInv
<1>2. ~overlapped /\ More BY <1>1 DEF KInv
<1>3. More' BY <1>2 DEF More
<1>4. ASSUME NEW s \in Slots PROVE Ready(tasks[s])'
  <2>1. CASE s = slot
    <3>1. Ready(t)' BY <1>1, ReadySame
    <3> QED BY <2>1, <3>1
  <2>2. CASE s # slot
    <3>1. PICK u : u = tasks[s] OBVIOUS
    <3>2. Ready(u)' BY <1>2, <3>1, ReadySame DEF KInv
    <3> QED BY <2>2, <3>1, <3>2
  <2> QED BY <2>1, <2>2
<1> QED BY <1>1, <1>3, <1>4 DEF KInv

\* A step that leaves hand and decision alone.
LEMMA Stays ==
  ASSUME WInv, UNCHANGED <<row, decision>>, proposal' \in {proposal, NoProposal},
         overlapped => overlapped',
         NEW slot \in Slots, NEW t, tasks'[slot] = t,
         \A s \in Slots \ {slot} : tasks'[s] = tasks[s],
         tasks[slot].pc # "then",
         ~overlapped' => /\ Ready(t) /\ (BotIsDue' => Attended')
                         /\ RunsOut(tasks[slot]) => RunsOut(t)
  PROVE  WInv'
<1>1. ~overlapped' => Proposed' /\ Dated' /\ Armed' /\ Ready(t)
  <2>1. SUFFICES ASSUME ~overlapped' PROVE Proposed' /\ Dated' /\ Armed' OBVIOUS
  <2>2. Proposed /\ Dated /\ Armed BY <2>1 DEF WInv, KInv
  <2>3. Proposed' BY <2>2 DEF Proposed, MayAsk
  <2>4. Dated'
    <3>1. ~Drops(tasks[slot]) BY DEF Drops
    <3>2. (\E s \in Slots : Drops(tasks[s])) => \E s \in Slots : Drops(tasks'[s]) BY <3>1
    <3> QED BY <2>2, <3>2 DEF Dated, MayAnswer, Drops
  <2>5. Armed' BY <2>1, <2>2, WakeSlot DEF Armed, RunsOut
  <2> QED BY <2>3, <2>4, <2>5
<1>2. KInv' BY <1>1, StillKnown DEF WInv
<1>3. DueBotIsAttended' BY DEF DueBotIsAttended
<1> QED BY <1>2, <1>3 DEF WInv

-----------------------------------------------------------------------------
(* What the hand allows *)

\* The seat the cards put the turn on has a card to play.
LEMMA TurnMayPlay ==
  ASSUME TableAssumption, RowOK(row), More, CardIsNext(row), Fits(row, turn)
  PROVE  MayPlay(row, turn)
<1> DEFINE n == Len(TurnOrder)
           i == Place(turn)
           k == Cardinality(row.played)
           at(j) == TurnOrder[((i - 1 - j) % n) + 1]
<1>1. n \in {2, 4} /\ i \in 1..n /\ TurnOrder[i] = turn /\ turn \in Seats
  BY SeatsAre, PlaceIs DEF Fits
<1>2. row.played \subseteq Seats /\ row.played # Seats /\ row.live
  BY RowFields DEF RowOK, More, CardIsNext
<1>3. k \in 0..4 BY <1>2, FewSeats
<1>4. row.played = {at(j) : j \in 1..k} BY DEF Fits, Before, Place
<1>5. ASSUME turn \in row.played PROVE FALSE
  <2>1. PICK j \in 1..k : at(j) = turn BY <1>4, <1>5
  <2>2. ((i - 1 - j) % n) + 1 \in 1..n BY <1>1, <1>3, <2>1
  <2>3. ((i - 1 - j) % n) + 1 = i BY <1>1, <2>1, <2>2, PlaceIs
  <2>4. k >= n
    <3>1. j \in 1..4 /\ k \in 0..4 /\ j <= k BY <1>3, <2>1
    <3>2. \A a \in 1..2, b \in 1..4 : ((a - 1 - b) % 2) + 1 = a => b >= 2 OBVIOUS
    <3>3. \A a \in 1..4, b \in 1..3 : ((a - 1 - b) % 4) + 1 # a OBVIOUS
    <3>4. CASE n = 2
      <4>1. i \in 1..2 /\ ((i - 1 - j) % 2) + 1 = i BY <1>1, <2>3, <3>4
      <4> QED BY <3>1, <3>2, <3>4, <4>1
    <3>5. CASE n = 4
      <4>1. i \in 1..4 /\ ((i - 1 - j) % 4) + 1 = i BY <1>1, <2>3, <3>5
      <4>2. j \notin 1..3 BY <3>3, <4>1
      <4> QED BY <3>1, <3>5, <4>2
    <3> QED BY <1>1, <3>4, <3>5
  <2>5. \A p \in 1..n : \E m \in 1..k : ((i - 1 - m) % n) + 1 = p
    <3>1. CASE n = 2
      <4>1. 1 \in 1..k /\ 2 \in 1..k BY <1>3, <2>4, <3>1
      <4>2. \A p \in 1..2 : ((i - 1 - 1) % 2) + 1 = p \/ ((i - 1 - 2) % 2) + 1 = p
        BY <1>1, <3>1
      <4> QED BY <3>1, <4>1, <4>2
    <3>2. CASE n = 4
      <4>1. 1 \in 1..k /\ 2 \in 1..k /\ 3 \in 1..k /\ 4 \in 1..k BY <1>3, <2>4, <3>2
      <4>2. \A p \in 1..4 : \/ ((i - 1 - 1) % 4) + 1 = p \/ ((i - 1 - 2) % 4) + 1 = p
                            \/ ((i - 1 - 3) % 4) + 1 = p \/ ((i - 1 - 4) % 4) + 1 = p
        BY <1>1, <3>2
      <4> QED BY <3>2, <4>1, <4>2
    <3> QED BY <1>1, <3>1, <3>2
  <2>6. Seats \subseteq row.played
    <3>1. SUFFICES ASSUME NEW s \in Seats PROVE s \in row.played OBVIOUS
    <3>2. PICK p \in 1..n : TurnOrder[p] = s BY PlaceIs
    <3>3. PICK m \in 1..k : ((i - 1 - m) % n) + 1 = p BY <2>5
    <3>4. at(m) = s BY <3>2, <3>3
    <3> QED BY <1>4, <3>4
  <2> QED BY <1>2, <2>6
<1> QED BY <1>5 DEF MayPlay, CardIsNext

\* A card leads to some hand.
LEMMA PlayedIsSome ==
  ASSUME TableAssumption, RowOK(row), NEW seat
  PROVE  Played(row, seat) # {}
<1>1. row.round \in 1..3 /\ MaxRounds \in 2..3 BY RowFields DEF RowOK, TableAssumption
<1> DEFINE p == row.played \cup {seat}
           on == [row EXCEPT !.played = p, !.taken = None]
           opened == [row EXCEPT !.round = row.round + 1, !.played = {}, !.taken = "TIE"]
<1>2. CASE p # Seats
  <2>1. on \in Played(row, seat) BY <1>2 DEF Played
  <2> QED BY <2>1
<1>3. CASE p = Seats /\ row.round < MaxRounds
  <2>1. opened \in Played(row, seat) BY <1>3 DEF Played
  <2> QED BY <2>1
<1>4. CASE p = Seats /\ ~(row.round < MaxRounds)
  <2>1. row.round > 1 BY <1>1, <1>4
  <2>2. OverRow \in Played(row, seat) BY <1>4, <2>1 DEF Played
  <2> QED BY <2>2
<1> QED BY <1>2, <1>3, <1>4

\* What is kept from hand to hand.
LEMMA OutcomeMore ==
  ASSUME TableAssumption, RowOK(row), More, NEW task, TaskOK(task),
         task.pc \in {"load", "save"}, NEW copy \in Outcomes(task), copy.live
  PROVE  /\ copy.onze # None => copy.capped
         /\ copy.capped => copy.asked = None
         /\ copy.played # Seats
         /\ copy.capped = row.capped
         /\ row.onze = None => copy.onze = None
         /\ task.kind = "onzeYes" => copy.capped /\ copy.onze = None
<1> DEFINE team == TeamOf(task.seat)
<1>1. task.kind \in Kinds /\ Acts(task.kind, task.pc, task.seat) BY TaskFields
<1>2. team \in Team /\ Other(team) \in Team BY TeamIs
<1>3. ~OverRow.live BY DEF OverRow, NewRow
<1>4. row \in RowType BY DEF RowOK
<1>5. CASE task.kind \in {"play", "expire"}
  <2>1. MayPlay(row, task.seat) /\ copy \in Played(row, task.seat) BY <1>5 DEF Outcomes
  <2> DEFINE more == row.played \cup {task.seat}
             On == [row EXCEPT !.played = more, !.taken = None]
             Opened(w) == [row EXCEPT !.round = row.round + 1, !.played = {}, !.taken = w]
  <2>2. \/ more # Seats /\ copy = On
        \/ \E w \in Seats \cup {"TIE"} : copy = Opened(w)
    BY <1>3, <2>1 DEF Played
  <2>3. {} # Seats BY SeatsAre
  <2>4. CASE more # Seats /\ copy = On
    <3>1. copy.onze = row.onze /\ copy.capped = row.capped /\ copy.asked = row.asked
          /\ copy.played = more
      BY <1>4, <2>4 DEF RowType
    <3> QED BY <1>5, <2>1, <2>4, <3>1 DEF MayPlay
  <2>5. ASSUME NEW w \in Seats \cup {"TIE"}, copy = Opened(w)
        PROVE  copy.onze = row.onze /\ copy.capped = row.capped /\ copy.asked = row.asked
               /\ copy.played = {}
    BY <1>4, <2>5 DEF RowType
  <2> QED BY <1>5, <2>1, <2>2, <2>3, <2>4, <2>5 DEF MayPlay
<1>6. CASE task.kind \in {"ask", "approve"}
  <2>1. MayAsk(row, team, task.rung) /\ copy = Asked(row, team) BY <1>6 DEF Outcomes
  <2>2. copy.onze = row.onze /\ copy.capped = row.capped /\ copy.played = row.played
    BY <1>4, <2>1 DEF Asked, RowType
  <2> QED BY <1>6, <2>1, <2>2 DEF MayAsk, More
<1>7. CASE task.kind = "accept"
  <2>1. MayAnswer(row, team) /\ copy = Accepted(row, team) BY <1>7 DEF Outcomes
  <2>2. copy.onze = row.onze /\ copy.capped = row.capped /\ copy.played = row.played
        /\ copy.asked = None
    BY <1>4, <2>1 DEF Accepted, RowType
  <2> QED BY <1>7, <2>1, <2>2 DEF MayAnswer, More
<1>8. CASE task.kind = "onzeYes"
  <2>1. MayDecideOnze(row, team) /\ copy = [row EXCEPT !.onze = None]
    BY <1>8 DEF Outcomes
  <2>2. copy.onze = None /\ copy.capped = row.capped /\ copy.played = row.played
        /\ copy.asked = row.asked
    BY <1>4, <2>1 DEF RowType
  <2>3. row.live /\ row.onze # None BY <1>2, <2>1, NoneIs DEF MayDecideOnze
  <2>4. row.asked = None BY <2>3 DEF RowOK
  <2> QED BY <2>2, <2>3, <2>4 DEF More
<1>9. CASE task.kind \in {"decline", "timeout", "onzeNo"}
  <2>1. copy = OverRow BY <1>9 DEF Outcomes
  <2> QED BY <1>3, <2>1
<1>10. task.kind \notin {"bot", "wake", "advise"} BY <1>1 DEF Acts
<1> QED BY <1>1, <1>5, <1>6, <1>7, <1>8, <1>9, <1>10 DEF Kinds

-----------------------------------------------------------------------------
(* Requests and timers *)

LEMMA OnlySlot ==
  ASSUME IInv, NEW slot \in Slots, NEW t, tasks' = [tasks EXCEPT ![slot] = t]
  PROVE  tasks'[slot] = t /\ \A s \in Slots \ {slot} : tasks'[s] = tasks[s]
BY DEF IInv, TInv, TasksOK

\* A handler begins.
LEMMA BeginsKnown ==
  ASSUME IInv, WInv, UNCHANGED <<row, decision>>, proposal' \in {proposal, NoProposal},
         overlapped => overlapped', NEW slot \in Slots, NEW t, tasks[slot] = Idle,
         tasks' = [tasks EXCEPT ![slot] = t],
         t.pc \in {"begin", "read", "load", "flow"}, ~overlapped' => Ready(t)
  PROVE  WInv'
<1>1. tasks'[slot] = t /\ \A s \in Slots \ {slot} : tasks'[s] = tasks[s] BY OnlySlot
<1>2. tasks[slot].pc # "then" /\ ~RunsOut(tasks[slot]) BY IdleIs DEF RunsOut
<1>3. Attended' BY <1>1, Looks
<1> QED BY <1>1, <1>2, <1>3, Stays

LEMMA RequestKnown ==
  ASSUME IInv, WInv, NEW seat \in Humans, NEW t, Request(seat, t),
         UNCHANGED decision, proposal' \in {proposal, NoProposal},
         t.pc \in {"read", "load", "flow"}, ~overlapped => Ready(t)
  PROVE  WInv'
<1>1. seat \in Slots BY HumanSlots
<1>2. /\ tasks[seat] = Idle /\ tasks' = [tasks EXCEPT ![seat] = t]
      /\ row' = row /\ (overlapped => overlapped')
  BY DEF Request, Free, Begin, Overlap
<1> QED BY <1>1, <1>2, BeginsKnown

LEMMA PlayCardKnown ==
  ASSUME TableAssumption, IInv, WInv, NEW seat \in Humans, PlayCard(seat)
  PROVE  WInv'
<1> DEFINE t == Task("play", "read", seat)
<1>1. seat \in Seats BY DEF TableAssumption
<1>2. t.pc = "read" /\ t.kind = "play" /\ t.seat = seat
  BY <1>1, TaskMade DEF Kinds, Pcs, Acts
<1>3. /\ Request(seat, t) /\ MayPlay(row, seat) /\ UNCHANGED decision
      /\ proposal' = proposal
  BY DEF PlayCard, gateway
<1> HIDE DEF t
<1>4. Ready(t) BY <1>2, <1>3 DEF Ready
<1> QED BY <1>2, <1>3, <1>4, RequestKnown

LEMMA AskKnown ==
  ASSUME TableAssumption, IInv, WInv, NEW seat \in Humans, NEW rung \in Level,
         Ask(seat, rung)
  PROVE  WInv'
<1> DEFINE b == Task("ask", "load", seat)
           t == [b EXCEPT !.rung = rung]
<1>1. seat \in Seats BY DEF TableAssumption
<1>2. TaskOK(b) /\ b.pc = "load" /\ b.kind = "ask" /\ b.seat = seat
  BY <1>1, TaskMade DEF Kinds, Pcs, Acts
<1>3. /\ Request(seat, t) /\ MayAsk(row, TeamOf(seat), rung) /\ UNCHANGED decision
      /\ proposal' = proposal
  BY DEF Ask, gateway
<1> HIDE DEF b
<1>4. t.pc = "load" /\ t.kind = "ask" /\ t.seat = seat /\ t.rung = rung BY <1>2, RungSet
<1> HIDE DEF t
<1>5. Outcomes(t) = {Asked(row, TeamOf(seat))} BY <1>3, <1>4 DEF Outcomes
<1>6. Ready(t) BY <1>4, <1>5 DEF Ready
<1> QED BY <1>3, <1>4, <1>6, RequestKnown

LEMMA AsksKnown ==
  ASSUME TableAssumption, IInv, WInv, NEW seat \in Humans,
         RequestTruco(seat) \/ Raise(seat)
  PROVE  WInv'
<1>1. 1 \in Level BY LevelIs
<1>2. \E rung \in Level : Ask(seat, rung) BY <1>1 DEF RequestTruco, Raise
<1> QED BY <1>2, AskKnown

LEMMA AcceptBetKnown ==
  ASSUME TableAssumption, IInv, WInv, NEW seat \in Humans, AcceptBet(seat)
  PROVE  WInv'
<1> DEFINE b == Task("accept", "load", seat)
           back == Or(turn, seat)
           t == [b EXCEPT !.back = back]
<1>1. seat \in Seats BY DEF TableAssumption
<1>2. TaskOK(b) /\ b.pc = "load" /\ b.kind = "accept" /\ b.seat = seat
  BY <1>1, TaskMade DEF Kinds, Pcs, Acts
<1>3. /\ Request(seat, t) /\ MayAnswer(row, TeamOf(seat)) /\ UNCHANGED decision
      /\ proposal' = proposal
  BY DEF AcceptBet, gateway
<1>4. back \in Seats \cup {None} BY <1>1, OrIs DEF IInv, TInv, GatewayOK
<1> HIDE DEF b, back
<1>5. t.pc = "load" /\ t.kind = "accept" /\ t.seat = seat BY <1>2, <1>4, BackSet
<1> HIDE DEF t
<1>6. Outcomes(t) = {Accepted(row, TeamOf(seat))} BY <1>3, <1>5 DEF Outcomes
<1>7. Ready(t) BY <1>5, <1>6 DEF Ready
<1> QED BY <1>3, <1>5, <1>7, RequestKnown

LEMMA AnswersKnown ==
  ASSUME TableAssumption, IInv, WInv, NEW seat \in Humans,
         DeclineBet(seat) \/ AcceptMaoDeOnze(seat) \/ DeclineMaoDeOnze(seat)
  PROVE  WInv'
<1>1. PICK kind \in {"decline", "onzeYes", "onzeNo"} :
        /\ Request(seat, Task(kind, "load", seat)) /\ UNCHANGED gateway
        /\ kind = "decline" => MayAnswer(row, TeamOf(seat))
        /\ kind # "decline" => MayDecideOnze(row, TeamOf(seat))
  BY DEF DeclineBet, AcceptMaoDeOnze, DeclineMaoDeOnze
<1> DEFINE t == Task(kind, "load", seat)
<1>2. seat \in Seats BY DEF TableAssumption
<1>3. t.pc = "load" /\ t.kind = kind /\ t.seat = seat
  BY <1>2, TaskMade DEF Kinds, Pcs, Acts
<1> HIDE DEF t
<1>4. Outcomes(t) # {}
  <2>1. CASE kind = "decline" BY <1>1, <1>3, <2>1 DEF Outcomes
  <2>2. CASE kind = "onzeYes" BY <1>1, <1>3, <2>2 DEF Outcomes
  <2>3. CASE kind = "onzeNo" BY <1>1, <1>3, <2>3 DEF Outcomes
  <2> QED BY <2>1, <2>2, <2>3
<1>5. Ready(t) BY <1>3, <1>4 DEF Ready
<1>6. Request(seat, t) /\ UNCHANGED decision /\ proposal' = proposal
  BY <1>1 DEF gateway, t
<1> QED BY <1>3, <1>5, <1>6, RequestKnown

\* The seat that proposes has a card to play and may bet.
LEMMA ProposerMay ==
  ASSUME TableAssumption, IInv, WInv, ~overlapped, proposal # NoProposal
  PROVE  /\ proposal.seat \in Seats /\ proposal.rung \in Level
         /\ MayPlay(row, proposal.seat)
         /\ MayAsk(row, TeamOf(proposal.seat), proposal.rung)
<1>1. Quiet BY DEF IInv, AInv, Busy
<1>2. CardIsNext(row) /\ proposal.seat = turn /\ Rest BY <1>1 DEF Quiet
<1>3. Fits(row, turn) BY <1>2 DEF Rest, CardIsNext
<1>4. MayPlay(row, turn) BY <1>2, <1>3, TurnMayPlay DEF IInv, TInv, WInv, KInv
<1>5. proposal.seat \in Seats /\ proposal.rung \in Level
  <2>1. proposal.seat \in Seats /\ proposal.rung \in 1..MaxLevel
    BY DEF IInv, TInv, GatewayOK
  <2> QED BY <2>1, LevelIs
<1> QED BY <1>2, <1>4, <1>5 DEF WInv, KInv, Proposed

LEMMA ApproveProposalKnown ==
  ASSUME TableAssumption, IInv, WInv, NEW seat \in Humans, ApproveProposal(seat)
  PROVE  WInv'
<1>1. PICK s, rung : s = proposal.seat /\ rung = proposal.rung OBVIOUS
<1> DEFINE b == Task("approve", "load", s)
           t == [b EXCEPT !.rung = rung]
<1>2. /\ Request(seat, t) /\ proposal # NoProposal /\ proposal' = NoProposal
      /\ UNCHANGED decision
  BY <1>1 DEF ApproveProposal, TakesProposal
<1>3. s \in Seats /\ rung \in Level
  <2>1. s \in Seats /\ rung \in 1..MaxLevel BY <1>1, <1>2 DEF IInv, TInv, GatewayOK
  <2> QED BY <2>1, LevelIs
<1>4. TaskOK(b) /\ b.pc = "load" /\ b.kind = "approve" /\ b.seat = s
  BY <1>3, TaskMade DEF Kinds, Pcs, Acts
<1> HIDE DEF b
<1>5. t.pc = "load" /\ t.kind = "approve" /\ t.seat = s /\ t.rung = rung
  BY <1>3, <1>4, RungSet
<1> HIDE DEF t
<1>6. ~overlapped => Ready(t)
  <2>1. SUFFICES ASSUME ~overlapped PROVE Ready(t) OBVIOUS
  <2>2. MayAsk(row, TeamOf(s), rung) BY <1>1, <1>2, <2>1, ProposerMay
  <2>3. Outcomes(t) = {Asked(row, TeamOf(s))} BY <1>5, <2>2 DEF Outcomes
  <2> QED BY <1>5, <2>3 DEF Ready
<1> QED BY <1>2, <1>5, <1>6, RequestKnown

LEMMA RejectProposalKnown ==
  ASSUME TableAssumption, IInv, WInv, NEW seat \in Humans, RejectProposal(seat)
  PROVE  WInv'
<1>1. PICK s : s = proposal.seat OBVIOUS
<1> DEFINE t == Task("expire", "read", s)
<1>2. /\ Request(seat, t) /\ proposal # NoProposal /\ proposal' = NoProposal
      /\ UNCHANGED decision
  BY <1>1 DEF RejectProposal, TakesProposal
<1>3. s \in Seats BY <1>1, <1>2 DEF IInv, TInv, GatewayOK
<1>4. t.pc = "read" /\ t.kind = "expire" /\ t.seat = s
  BY <1>3, TaskMade DEF Kinds, Pcs, Acts
<1> HIDE DEF t
<1>5. ~overlapped => Ready(t) BY <1>1, <1>2, <1>4, ProposerMay DEF Ready
<1> QED BY <1>2, <1>4, <1>5, RequestKnown

LEMMA ProposalExpiresKnown ==
  ASSUME TableAssumption, IInv, WInv, ProposalExpires
  PROVE  WInv'
<1>1. PICK s : s = proposal.seat OBVIOUS
<1> DEFINE t == Task("expire", "read", s)
<1>2. /\ tasks["proposal"] = Idle /\ tasks' = [tasks EXCEPT !["proposal"] = t]
      /\ proposal # NoProposal /\ proposal' = NoProposal
      /\ UNCHANGED <<row, decision>> /\ (overlapped => overlapped')
  BY <1>1 DEF ProposalExpires, Free, Begin, Overlap
<1>3. s \in Seats BY <1>1, <1>2 DEF IInv, TInv, GatewayOK
<1>4. t.pc = "read" /\ t.kind = "expire" /\ t.seat = s
  BY <1>3, TaskMade DEF Kinds, Pcs, Acts
<1> HIDE DEF t
<1>5. ~overlapped => Ready(t) BY <1>1, <1>2, <1>4, ProposerMay DEF Ready
<1> QED BY <1>2, <1>4, <1>5, BeginsKnown, WakeSlot

\* The state is sent, or a timer fires, and nobody operates.
LEMMA WakeReady ==
  ASSUME TableAssumption, NEW seat \in Seats \cup {None}
  PROVE  /\ Ready(Task("wake", "flow", seat)) /\ Task("wake", "flow", seat).pc = "flow"
         /\ Ready(Task("bot", "begin", None)) /\ Task("bot", "begin", None).pc = "begin"
<1>1. Task("wake", "flow", seat).pc = "flow" /\ Task("wake", "flow", seat).kind = "wake"
  BY DEF Task
<1>2. Task("bot", "begin", None).pc = "begin" BY DEF Task
<1> QED BY <1>1, <1>2 DEF Ready

LEMMA GetStateKnown ==
  ASSUME TableAssumption, IInv, WInv, NEW seat \in Humans, GetState(seat)
  PROVE  WInv'
<1> DEFINE t == Task("wake", "flow", seat)
<1>1. seat \in Seats BY DEF TableAssumption
<1>2. Request(seat, t) /\ UNCHANGED decision /\ proposal' = proposal
  BY DEF GetState, gateway
<1>3. t.pc = "flow" /\ Ready(t) BY <1>1, WakeReady
<1> HIDE DEF t
<1> QED BY <1>2, <1>3, RequestKnown

LEMMA DropKnown ==
  ASSUME TableAssumption, IInv, WInv, NEW seat \in Humans, Drop(seat)
  PROVE  WInv'
<1> DEFINE t == Task("wake", "flow", seat)
<1>1. seat \in Seats BY DEF TableAssumption
<1>2. /\ tasks["wake"] = Idle
      /\ UNCHANGED <<row, decision>> /\ proposal' = proposal /\ overlapped' = overlapped
  BY DEF Drop, Free
<1>3. t.pc = "flow" /\ Ready(t) BY <1>1, WakeReady
<1>4. CASE tasks' = [tasks EXCEPT !["wake"] = t]
  <2> HIDE DEF t
  <2> QED BY <1>2, <1>3, <1>4, BeginsKnown, WakeSlot
<1>5. CASE tasks' = tasks /\ Humans \subseteq bots'
  <2>1. ~BotIsDue' BY <1>5 DEF BotIsDue
  <2>2. tasks["wake"].pc # "then" /\ Ready(tasks["wake"]) BY <1>2, IdleIs DEF Ready, Idle
  <2>3. PICK u : u = tasks["wake"] OBVIOUS
  <2>4. /\ tasks'["wake"] = u /\ Ready(u) /\ \A s \in Slots \ {"wake"} : tasks'[s] = tasks[s]
    BY <1>5, <2>2, <2>3
  <2> QED BY <1>2, <2>1, <2>2, <2>3, <2>4, Stays, WakeSlot
<1> QED BY <1>4, <1>5 DEF Drop, Begin

LEMMA JoinAgainKnown ==
  ASSUME TableAssumption, IInv, WInv, NEW seat \in Humans, JoinAgain(seat)
  PROVE  WInv'
<1> DEFINE t == Task("wake", "flow", seat)
<1>1. seat \in Seats BY DEF TableAssumption
<1>2. /\ tasks["wake"] = Idle /\ tasks' = [tasks EXCEPT !["wake"] = t]
      /\ UNCHANGED <<row, decision>> /\ proposal' = proposal /\ overlapped' = overlapped
  BY DEF JoinAgain, Free, Begin, gateway
<1>3. t.pc = "flow" /\ Ready(t) BY <1>1, WakeReady
<1> HIDE DEF t
<1> QED BY <1>2, <1>3, BeginsKnown, WakeSlot

LEMMA BotWakesKnown ==
  ASSUME TableAssumption, IInv, WInv, BotWakes
  PROVE  WInv'
<1> DEFINE t == Task("bot", "begin", None)
<1>1. /\ tasks["bot"] = Idle /\ tasks' = [tasks EXCEPT !["bot"] = t]
      /\ UNCHANGED <<row, decision>> /\ proposal' = proposal /\ overlapped' = overlapped
  BY DEF BotWakes, Free, Begin
<1>2. t.pc = "begin" /\ Ready(t) BY WakeReady
<1> HIDE DEF t
<1> QED BY <1>1, <1>2, BeginsKnown, WakeSlot

\* The timer of a decision fires: the bet it is about still waits.
LEMMA DecisionExpiresKnown ==
  ASSUME TableAssumption, IInv, WInv, DecisionExpires
  PROVE  WInv'
<1>1. PICK team : team = decision.team OBVIOUS
<1> DEFINE t == Task("timeout", "check", team)
<1>2. /\ tasks["decision"] = Idle /\ tasks' = [tasks EXCEPT !["decision"] = t]
      /\ decision.timer /\ decision' = [decision EXCEPT !.timer = FALSE]
      /\ Overlap("decision", "timeout") /\ UNCHANGED <<row, proposal>>
  BY <1>1 DEF DecisionExpires, Free, Begin
<1>3. /\ decision # NoDecision /\ team \in Team
      /\ decision \in [team : Team \cup {None}, rung : Level, timer : BOOLEAN]
  BY <1>1, <1>2 DEF IInv, TInv, GatewayOK, NoDecision
<1>4. t.pc = "check" /\ t.kind = "timeout" /\ t.seat = team
  BY <1>3, TaskMade DEF Kinds, Pcs, Acts
<1> HIDE DEF t
<1>5. tasks'["decision"] = t /\ \A s \in Slots \ {"decision"} : tasks'[s] = tasks[s]
  BY <1>2, OnlySlot, WakeSlot
<1>6. ~overlapped' => Proposed' /\ Dated' /\ Armed' /\ Ready(t)
  <2>1. SUFFICES ASSUME ~overlapped' PROVE Proposed' /\ Dated' /\ Armed' /\ Ready(t)
    OBVIOUS
  <2>2. ~overlapped /\ \A s \in Slots \ {"decision"} : ~Operating(s)
    BY <1>2, <2>1 DEF Overlap
  <2>3. Proposed /\ Dated BY <2>2 DEF WInv, KInv
  <2>4. \A s \in Slots : ~Drops(tasks[s]) BY <1>2, <2>2, IdleIs DEF Operating, Drops
  <2>5. MayAnswer(row, team) /\ decision.rung = row.level + 1
    BY <1>1, <1>3, <2>3, <2>4 DEF Dated
  <2>6. decision'.team = team /\ decision'.rung = decision.rung BY <1>1, <1>2, <1>3
  <2>7. Dated' BY <1>2, <2>5, <2>6 DEF Dated, MayAnswer
  <2>8. Armed' BY <1>4, <1>5 DEF Armed, RunsOut
  <2>9. Proposed' BY <1>2, <2>3 DEF Proposed, MayAsk
  <2>10. Ready(t) BY <1>4, <2>5 DEF Ready
  <2> QED BY <2>7, <2>8, <2>9, <2>10
<1>7. KInv' BY <1>2, <1>5, <1>6, StillKnown, WakeSlot DEF WInv, Overlap
<1>8. Attended' BY <1>4, <1>5, Looks, WakeSlot
<1> QED BY <1>7, <1>8 DEF WInv, DueBotIsAttended

-----------------------------------------------------------------------------
(* Handlers *)

\* A step of a handler that leaves hand and decision alone.
LEMMA StepKnown ==
  ASSUME IInv, WInv, NEW slot \in Slots, NEW task, Running(slot, task),
         task.pc # "then", UNCHANGED <<row, decision>>,
         proposal' \in {proposal, NoProposal}, overlapped => overlapped',
         NEW t, tasks' = [tasks EXCEPT ![slot] = t],
         ~overlapped' => /\ Ready(t) /\ (BotIsDue' => Attended')
                         /\ RunsOut(task) => RunsOut(t)
  PROVE  WInv'
<1>1. tasks'[slot] = t /\ \A s \in Slots \ {slot} : tasks'[s] = tasks[s] BY OnlySlot
<1>2. tasks[slot] = task BY DEF Running
<1> QED BY <1>1, <1>2, Stays

LEMMA StepLooks ==
  ASSUME IInv, NEW slot \in Slots, NEW t, tasks' = [tasks EXCEPT ![slot] = t],
         t.pc \in {"begin", "decide", "check", "read", "load", "save", "after",
                   "then", "flow"}
  PROVE  Attended'
BY OnlySlot, Looks

LEMMA IdleReady == Ready(Idle) /\ ~RunsOut(Idle)
BY DEF Ready, RunsOut, Idle

\* The bot that is due acts for the team that must act.
LEMMA ActorIsDue ==
  ASSUME TableAssumption, IInv, BotActor(row) # None
  PROVE  /\ row.live /\ BotActor(row) \in bots
         /\ row.onze \in {None, TeamOf(BotActor(row))}
         /\ row.asked \in {None, Other(TeamOf(BotActor(row)))}
         /\ row.asked # None => \E s \in bots : TeamOf(s) = Other(row.asked)
<1>1. row.onze \in Team \cup {None} /\ row.asked \in Team \cup {None}
      /\ (row.onze # None => row.asked = None) /\ None \notin Seats /\ bots \subseteq Seats
  BY NoneIs, RowFields DEF IInv, TInv, RowOK, GatewayOK
<1>2. \A team \in Team : Other(Other(team)) = team BY DEF Other, Team
<1> DEFINE BotOf(team) == IF \E s \in bots : TeamOf(s) = team
                          THEN CHOOSE s \in bots : TeamOf(s) = team ELSE None
<1>3. \A team : BotOf(team) # None =>
                  /\ BotOf(team) \in bots /\ TeamOf(BotOf(team)) = team
                  /\ \E s \in bots : TeamOf(s) = team
  OBVIOUS
<1>4. row.live BY DEF BotActor
<1>5. CASE row.onze # None
  <2>1. BotActor(row) = BotOf(row.onze) BY <1>4, <1>5 DEF BotActor
  <2> HIDE DEF BotOf
  <2> QED BY <1>1, <1>3, <1>4, <1>5, <2>1
<1>6. CASE row.onze = None /\ row.asked # None
  <2>1. BotActor(row) = BotOf(Other(row.asked)) BY <1>4, <1>6 DEF BotActor
  <2> HIDE DEF BotOf
  <2> QED BY <1>1, <1>2, <1>3, <1>4, <1>6, <2>1
<1>7. CASE row.onze = None /\ row.asked = None
  <2>1. BotActor(row) \in bots BY <1>4, <1>7 DEF BotActor
  <2> QED BY <1>4, <1>7, <2>1
<1> QED BY <1>5, <1>6, <1>7

LEMMA BotLooksKnown ==
  ASSUME TableAssumption, IInv, WInv, NEW slot \in Slots, NEW task, Running(slot, task),
         BotLooks(slot, task)
  PROVE  WInv'
<1>1. /\ task.pc = "begin" /\ TaskOK(task) /\ bots' = bots
      /\ UNCHANGED <<row, turn, decision>> /\ proposal' = proposal
      /\ overlapped => overlapped'
  BY DEF BotLooks, Running, Overlap
<1>2. ~RunsOut(task) BY <1>1 DEF RunsOut
<1>3. CASE BotActor(row) = None
  <2>1. tasks' = [tasks EXCEPT ![slot] = Idle] BY <1>3 DEF BotLooks, End, Begin
  <2>2. ~BotIsDue' BY <1>1, <1>3, DueSame DEF BotIsDue
  <2> QED BY <1>1, <1>2, <2>1, <2>2, IdleReady, StepKnown
<1>4. CASE BotActor(row) # None
  <2> DEFINE t == [task EXCEPT !.pc = "decide", !.see = Glance(row), !.seat = BotActor(row)]
  <2>1. tasks' = [tasks EXCEPT ![slot] = t] BY <1>4 DEF BotLooks, Begin
  <2>2. PICK see, seat, pc : see = Glance(row) /\ seat = BotActor(row) /\ pc = "decide"
    OBVIOUS
  <2>3. PICK u : u = t OBVIOUS
  <2>4. u.pc = "decide" /\ u.seat = seat
    <3>1. u = [task EXCEPT !.pc = pc, !.see = see, !.seat = seat] BY <2>2, <2>3
    <3> HIDE DEF t
    <3>2. TaskOK(task) BY <1>1
    <3>3. u = [ pc |-> pc, kind |-> task.kind, seat |-> seat, base |-> task.base,
                see |-> see, copy |-> task.copy, rung |-> task.rung, back |-> task.back ]
      BY ONLY <3>1, <3>2, LookSet
    <3> QED BY <2>2, <3>3
  <2>5. Ready(u) BY <1>4, <2>2, <2>4, ActorIsDue DEF Ready
  <2>6. tasks' = [tasks EXCEPT ![slot] = u] BY <2>1, <2>3
  <2> HIDE DEF t
  <2>7. Attended' BY <2>4, <2>6, StepLooks
  <2> QED BY <1>1, <1>2, <2>5, <2>6, <2>7, StepKnown
<1> QED BY <1>3, <1>4

LEMMA ReadKnown ==
  ASSUME TableAssumption, IInv, WInv, NEW slot \in Slots, NEW task, Running(slot, task),
         Read(slot, task)
  PROVE  WInv'
<1>1. /\ task.pc = "read" /\ TaskOK(task) /\ tasks[slot] = task
      /\ UNCHANGED <<row, decision>> /\ proposal' = proposal /\ overlapped' = overlapped
  BY DEF Read, Running, gateway
<1>2. PICK t, base, pc : /\ t = [task EXCEPT !.base = base, !.pc = pc]
                         /\ base = row /\ pc = "load"
  OBVIOUS
<1>3. tasks' = [tasks EXCEPT ![slot] = t] BY <1>2 DEF Read, Begin
<1>4. TaskOK(task) BY <1>1
<1>5. t.pc = "load" /\ t.kind = task.kind /\ t.seat = task.seat
  <2>1. t = [task EXCEPT !.base = base, !.pc = pc] BY <1>2
  <2>2. t = [ pc |-> pc, kind |-> task.kind, seat |-> task.seat, base |-> base,
              see |-> task.see, copy |-> task.copy, rung |-> task.rung, back |-> task.back ]
    BY ONLY <1>4, <2>1, BaseSet
  <2> QED BY <1>2, <2>2
<1>6. Attended' BY <1>3, <1>5, StepLooks
<1>7. ~overlapped => Ready(t)
  <2>1. SUFFICES ASSUME ~overlapped PROVE Ready(t) OBVIOUS
  <2>2. Ready(task) BY <1>1, <2>1 DEF WInv, KInv
  <2>3. MayPlay(row, task.seat) BY <1>1, <2>2 DEF Ready
  <2>4. task.kind \in {"play", "expire"}
    <3>1. Busy(slot) BY <1>1, <2>1 DEF IInv, AInv, Quiet, Busy, Op
    <3> QED BY <1>1, <3>1 DEF Busy, OpOK
  <2>5. Played(row, task.seat) # {} BY PlayedIsSome DEF IInv, TInv
  <2>6. Outcomes(t) = Played(row, task.seat) BY <1>5, <2>3, <2>4 DEF Outcomes
  <2> QED BY <1>5, <2>5, <2>6 DEF Ready
<1>8. ~RunsOut(task) BY <1>1 DEF RunsOut
<1> QED BY <1>1, <1>3, <1>6, <1>7, <1>8, StepKnown

LEMMA CheckTimeoutKnown ==
  ASSUME TableAssumption, IInv, WInv, NEW slot \in Slots, NEW task, Running(slot, task),
         CheckTimeout(slot, task)
  PROVE  WInv'
<1>1. /\ task.pc = "check" /\ TaskOK(task) /\ tasks[slot] = task
      /\ UNCHANGED row /\ proposal' = proposal /\ overlapped' = overlapped
  BY DEF CheckTimeout, Running
<1>2. CASE overlapped BY <1>1, <1>2 DEF WInv, KInv, DueBotIsAttended
<1>3. CASE ~overlapped
  <2>1. Ready(task) BY <1>1, <1>3 DEF WInv, KInv
  <2>2. MayAnswer(row, task.seat) BY <1>1, <2>1 DEF Ready
  <2>3. PICK t : t = [task EXCEPT !.pc = "load"] OBVIOUS
  <2>4. tasks' = [tasks EXCEPT ![slot] = t] /\ UNCHANGED decision
    BY <2>2, <2>3 DEF CheckTimeout, Go, Begin
  <2>5. "load" \in Pcs /\ Acts(task.kind, "load", task.seat)
    BY <1>1, TaskFields DEF Acts, Pcs
  <2>6. t.pc = "load" /\ t.kind = task.kind /\ t.seat = task.seat
    BY <1>1, <2>3, <2>5, GoesTo
  <2>7. task.kind = "timeout"
    <3>1. Busy(slot) BY <1>1, <1>3 DEF IInv, AInv, Quiet, Busy, Op
    <3> QED BY <1>1, <3>1 DEF Busy, OpOK
  <2>8. Outcomes(t) = {OverRow} BY <2>2, <2>6, <2>7 DEF Outcomes
  <2>9. Ready(t) BY <2>6, <2>8 DEF Ready
  <2>10. RunsOut(t) BY <2>6, <2>7 DEF RunsOut
  <2>11. Attended' BY <2>4, <2>6, StepLooks
  <2> QED BY <1>1, <2>4, <2>9, <2>10, <2>11, StepKnown
<1> QED BY <1>2, <1>3

LEMMA LoadKnown ==
  ASSUME TableAssumption, IInv, WInv, NEW slot \in Slots, NEW task, Running(slot, task),
         Load(slot, task)
  PROVE  WInv'
<1>1. /\ task.pc = "load" /\ TaskOK(task) /\ tasks[slot] = task
      /\ UNCHANGED <<row, decision>> /\ proposal' = proposal /\ overlapped' = overlapped
  BY DEF Load, Running, gateway
<1>2. CASE overlapped BY <1>1, <1>2 DEF WInv, KInv, DueBotIsAttended
<1>3. CASE ~overlapped
  <2>1. Ready(task) BY <1>1, <1>3 DEF WInv, KInv
  <2>2. Outcomes(task) # {} BY <1>1, <2>1 DEF Ready
  <2>3. PICK copy : tasks' = [tasks EXCEPT ![slot] = [task EXCEPT !.copy = copy, !.pc = "save"]]
    BY <2>2 DEF Load, Begin
  <2>4. PICK t, pc : t = [task EXCEPT !.copy = copy, !.pc = pc] /\ pc = "save"
    OBVIOUS
  <2>5. tasks' = [tasks EXCEPT ![slot] = t] BY <2>3, <2>4
  <2>6. TaskOK(task) BY <1>1
  <2>7. t.pc = "save" /\ t.kind = task.kind
    <3>1. t = [task EXCEPT !.copy = copy, !.pc = pc] BY <2>4
    <3>2. t = [ pc |-> pc, kind |-> task.kind, seat |-> task.seat, base |-> task.base,
                see |-> task.see, copy |-> copy, rung |-> task.rung, back |-> task.back ]
      BY ONLY <2>6, <3>1, CopySet
    <3> QED BY <2>4, <3>2
  <2>8. Ready(t) /\ (RunsOut(task) => RunsOut(t)) BY <2>7 DEF Ready, RunsOut
  <2>9. Attended' BY <2>5, <2>7, StepLooks
  <2> QED BY <1>1, <2>5, <2>8, <2>9, StepKnown
<1> QED BY <1>2, <1>3

LEMMA GlanceAsk ==
  ASSUME NEW r, RowOK(r), NEW team, NEW rung
  PROVE  MayAsk(Glance(r), team, rung) <=> MayAsk(r, team, rung)
<1>1. r \in RowType BY DEF RowOK
<1>2. /\ Glance(r).live = r.live /\ Glance(r).onze = r.onze /\ Glance(r).asked = r.asked
      /\ Glance(r).capped = r.capped /\ Glance(r).level = r.level
      /\ Glance(r).authority = r.authority
  BY <1>1 DEF Glance, RowType
<1> QED BY <1>2 DEF MayAsk

LEMMA BotDecidesKnown ==
  ASSUME TableAssumption, IInv, WInv, NEW slot \in Slots, NEW task, Running(slot, task),
         BotDecides(slot, task)
  PROVE  WInv'
<1>0. PICK seat : seat = task.seat OBVIOUS
<1> DEFINE team == TeamOf(seat)
           Done(kind) == [Task(kind, "load", seat) EXCEPT
                            !.base = IF kind = "play" THEN row ELSE @,
                            !.back = IF kind = "accept" THEN Or(turn, seat) ELSE @]
           Bid(rung) == [Task("ask", "load", seat) EXCEPT !.rung = rung]
           Does(t) == tasks' = [tasks EXCEPT ![slot] = t]
           advice == [Task("advise", "ensure", seat) EXCEPT
                        !.base = IF "advise" = "play" THEN row ELSE @,
                        !.back = IF "advise" = "accept" THEN Or(turn, seat) ELSE @]
           Given(kind) ==
             \/ kind \in {"onzeYes", "onzeNo"} /\ row.onze = team
             \/ kind \in {"accept", "decline"} /\ row.asked = Other(team)
             \/ kind = "play" /\ row.onze # team /\ row.asked # Other(team)
<1>1. /\ task.pc = "decide" /\ TaskOK(task) /\ tasks[slot] = task /\ bots' = bots
      /\ UNCHANGED <<row, turn, decision>> /\ overlapped' = overlapped
  BY DEF BotDecides, Running
<1>2. seat \in Seats /\ RowOK(row) /\ ~RunsOut(task)
  BY <1>0, <1>1, TaskFields DEF Acts, IInv, TInv, RunsOut
<1>3. \/ \E kind \in {"onzeYes", "onzeNo", "accept", "decline", "play"} :
           Given(kind) /\ Does(Done(kind)) /\ UNCHANGED proposal
      \/ \E rung \in Level :
           MayAsk(task.see, team, rung) /\ Does(Bid(rung)) /\ UNCHANGED proposal
      \/ row.asked = Other(team) /\ HasHuman(team) /\ Does(advice) /\ UNCHANGED proposal
      \/ \E rung \in Level :
           /\ MayAsk(task.see, team, rung)
           /\ Does(Idle) /\ proposal' = [seat |-> seat, rung |-> rung]
  BY <1>0 DEF BotDecides, Begin, End
<1>4. CASE overlapped BY <1>1, <1>4 DEF WInv, KInv, DueBotIsAttended
<1>5. CASE ~overlapped
  <2>1. Busy(slot) BY <1>1, <1>5 DEF IInv, AInv, Quiet, Busy, Op
  <2>2. /\ task.see = Glance(row) /\ (CardIsNext(row) => seat = turn) /\ Rest
    BY <1>0, <1>1, <2>1 DEF Busy, OpOK
  <2>3. /\ row.live /\ row.onze \in {None, team} /\ row.asked \in {None, Other(team)}
    <3>1. Ready(task) BY <1>1, <1>5 DEF WInv, KInv
    <3> QED BY <1>0, <1>1, <3>1 DEF Ready
  <2>4. \A rung : MayAsk(task.see, team, rung) => MayAsk(row, team, rung)
    BY <1>2, <2>2, GlanceAsk
  <2>5. ASSUME NEW kind \in {"onzeYes", "onzeNo", "accept", "decline", "play"},
               Given(kind), Does(Done(kind)), UNCHANGED proposal
        PROVE  WInv'
    <3>1. PICK u : u = Done(kind) OBVIOUS
    <3>2. u.pc = "load" /\ u.kind = kind /\ u.seat = seat
      <4>1. kind \in {"onzeYes", "onzeNo", "accept", "decline", "play"} BY <2>5
      <4>2. PICK b : b = Task(kind, "load", seat) OBVIOUS
      <4>3. PICK base : base = (IF kind = "play" THEN row ELSE b.base) OBVIOUS
      <4>4. PICK back : back = (IF kind = "accept" THEN Or(turn, seat) ELSE b.back) OBVIOUS
      <4>5. u = [b EXCEPT !.base = base, !.back = back] BY <3>1, <4>2, <4>3, <4>4
      <4> HIDE DEF Done, Given
      <4>6. Decided(kind, seat, b, base, back, u)
        BY ONLY <1>2, <4>1, <4>2, <4>3, <4>4, <4>5 DEF Decided
      <4> QED BY ONLY TableAssumption, IInv, <4>6, DoTask
    <3>3. Does(u) BY <2>5, <3>1
    <3>4. Outcomes(u) # {}
      <4>1. CASE kind = "onzeYes"
        <5>1. MayDecideOnze(row, team) BY <2>3, <2>5, <4>1 DEF MayDecideOnze
        <5> QED BY <3>2, <4>1, <5>1 DEF Outcomes
      <4>2. CASE kind = "onzeNo"
        <5>1. MayDecideOnze(row, team) BY <2>3, <2>5, <4>2 DEF MayDecideOnze
        <5> QED BY <3>2, <4>2, <5>1 DEF Outcomes
      <4>3. CASE kind = "accept"
        <5>1. MayAnswer(row, team) BY <2>3, <2>5, <4>3 DEF MayAnswer
        <5> QED BY <3>2, <4>3, <5>1 DEF Outcomes
      <4>4. CASE kind = "decline"
        <5>1. MayAnswer(row, team) BY <2>3, <2>5, <4>4 DEF MayAnswer
        <5> QED BY <3>2, <4>4, <5>1 DEF Outcomes
      <4>5. CASE kind = "play"
        <5>1. CardIsNext(row) BY <2>3, <2>5, <4>5 DEF CardIsNext
        <5>2. seat = turn /\ Fits(row, turn) BY <2>2, <2>3, <5>1 DEF Rest
        <5>3. More BY <1>5 DEF WInv, KInv
        <5>4. MayPlay(row, seat) BY <1>2, <5>1, <5>2, <5>3, TurnMayPlay
        <5>5. Outcomes(u) = Played(row, seat) BY <3>2, <4>5, <5>4 DEF Outcomes
        <5> QED BY <1>2, <5>5, PlayedIsSome
      <4> QED BY <4>1, <4>2, <4>3, <4>4, <4>5
    <3>5. Ready(u) BY <3>2, <3>4 DEF Ready
    <3> HIDE DEF Done, Given
    <3>6. Attended' BY <3>2, <3>3, StepLooks
    <3> QED BY <1>1, <1>2, <2>5, <3>3, <3>5, <3>6, StepKnown
  <2>6. ASSUME NEW rung \in Level, MayAsk(task.see, team, rung), Does(Bid(rung)),
               UNCHANGED proposal
        PROVE  WInv'
    <3> DEFINE b == Task("ask", "load", seat)
    <3>1. TaskOK(b) /\ b.pc = "load" /\ b.kind = "ask" /\ b.seat = seat
      BY <1>2, TaskMade DEF Kinds, Pcs, Acts
    <3>2. PICK u : u = Bid(rung) OBVIOUS
    <3>3. u = [b EXCEPT !.rung = rung] BY <3>2
    <3> HIDE DEF b, Bid
    <3>4. u.pc = "load" /\ u.kind = "ask" /\ u.seat = seat /\ u.rung = rung
      BY <3>1, <3>3, RungSet
    <3>5. MayAsk(row, team, rung) BY <2>4, <2>6
    <3>6. Outcomes(u) = {Asked(row, team)} BY <3>4, <3>5 DEF Outcomes
    <3>7. Ready(u) BY <3>4, <3>6 DEF Ready
    <3>8. Does(u) BY <2>6, <3>2
    <3>9. Attended' BY <3>4, <3>8, StepLooks
    <3> QED BY <1>1, <1>2, <2>6, <3>7, <3>8, <3>9, StepKnown
  <2>7. ASSUME row.asked = Other(team), HasHuman(team), Does(advice), UNCHANGED proposal
        PROVE  WInv'
    <3>1. PICK u : u = advice OBVIOUS
    <3>2. u.pc = "ensure" /\ u.kind = "advise"
      <4> DEFINE b == Task("advise", "ensure", seat)
      <4>1. TaskOK(b) /\ b.pc = "ensure" /\ b.kind = "advise"
        BY <1>2, TaskMade DEF Kinds, Pcs, Acts
      <4> HIDE DEF b
      <4>2. u = [b EXCEPT !.base = b.base, !.back = b.back] BY <3>1 DEF b
      <4>3. u = [ pc |-> b.pc, kind |-> b.kind, seat |-> b.seat, base |-> b.base,
                  see |-> b.see, copy |-> b.copy, rung |-> b.rung, back |-> b.back ]
        BY <4>1, <4>2, BaseBackFields
      <4> QED BY <4>1, <4>3
    <3>3. Does(u) BY <2>7, <3>1
    <3> HIDE DEF advice
    <3>4. Ready(u) BY <3>2 DEF Ready
    <3>5. BotIsDue' => Attended'
      <4>1. SUFFICES ASSUME BotIsDue' PROVE Attended' OBVIOUS
      <4>2. BotIsDue BY <1>1, <4>1, DueSame
      <4>3. row.asked # None BY <2>7, NoneIs, TeamIs
      <4>4. Other(row.asked) = team BY <2>7 DEF Other, TeamOf
      <4>5. \E s \in bots : TeamOf(s) = team
        BY <4>2, <4>3, <4>4, ActorIsDue DEF BotIsDue
      <4>6. Mixed(Other(row.asked)) BY <2>7, <4>4, <4>5 DEF Mixed
      <4>7. Attends(slot, u) BY <3>2, <4>3, <4>6 DEF Attends
      <4>8. Attends(slot, u)' BY <1>1, <4>7, AttendsSame
      <4>9. tasks'[slot] = u BY <3>3, OnlySlot
      <4> QED BY <4>8, <4>9 DEF Attended
    <3> QED BY <1>1, <1>2, <2>7, <3>3, <3>4, <3>5, StepKnown
  <2>8. ASSUME NEW rung \in Level, MayAsk(task.see, team, rung), Does(Idle),
               proposal' = [seat |-> seat, rung |-> rung]
        PROVE  WInv'
    <3>1. MayAsk(row, team, rung) BY <2>4, <2>8
    <3>2. proposal'.seat = seat /\ proposal'.rung = rung BY <2>8
    <3>3. Proposed' BY <1>1, <3>1, <3>2 DEF Proposed, MayAsk
    <3>4. tasks'[slot] = Idle /\ \A s \in Slots \ {slot} : tasks'[s] = tasks[s]
      BY <2>8, OnlySlot
    <3>5. Dated /\ Armed BY <1>5 DEF WInv, KInv
    <3>6. ~Drops(task) BY <1>1 DEF Drops
    <3>7. (\E s \in Slots : Drops(tasks[s])) => \E s \in Slots : Drops(tasks'[s])
      BY <1>1, <3>4, <3>6
    <3>8. Dated' BY <1>1, <3>5, <3>7 DEF Dated, MayAnswer, Drops
    <3>9. Armed' BY <1>1, <1>2, <3>4, <3>5, WakeSlot DEF Armed, RunsOut
    <3>10. KInv' BY <1>1, <3>3, <3>4, <3>8, <3>9, IdleReady, StillKnown DEF WInv
    <3>11. proposal' # NoProposal BY <1>2, <3>2, NoneIs DEF NoProposal
    <3> QED BY <3>10, <3>11 DEF WInv, DueBotIsAttended, Attended
  <2> QED BY <1>3, <2>5, <2>6, <2>7, <2>8
<1> QED BY <1>4, <1>5

LEMMA SaveKnown ==
  ASSUME TableAssumption, IInv, WInv, NEW slot \in Slots, NEW task, Running(slot, task),
         Save(slot, task)
  PROVE  WInv'
<1>1. /\ task.pc = "save" /\ TaskOK(task) /\ tasks[slot] = task /\ bots' = bots
      /\ row' = task.copy /\ decision' = decision /\ proposal' = proposal
      /\ overlapped' = overlapped
  BY DEF Save, Running, gateway
<1>2. PICK t, copy, pc :
        /\ t = [task EXCEPT !.copy = copy, !.pc = pc] /\ copy = OverRow
        /\ pc = IF task.kind \in {"play", "expire"} THEN "after" ELSE "then"
  OBVIOUS
<1>3. tasks' = [tasks EXCEPT ![slot] = t] BY <1>2 DEF Save, Begin
<1>4. TaskOK(task) BY <1>1
<1>5. t = [ pc |-> pc, kind |-> task.kind, seat |-> task.seat, base |-> task.base,
            see |-> task.see, copy |-> copy, rung |-> task.rung, back |-> task.back ]
  <2>1. t = [task EXCEPT !.copy = copy, !.pc = pc] BY <1>2
  <2> QED BY ONLY <1>4, <2>1, CopySet
<1>6. t.kind = task.kind /\ t.pc = (IF task.kind \in {"play", "expire"} THEN "after" ELSE "then")
  BY <1>2, <1>5
<1>7. tasks'[slot] = t /\ \A s \in Slots \ {slot} : tasks'[s] = tasks[s]
  BY <1>3, OnlySlot
<1>8. Attended' BY <1>3, <1>6, StepLooks
<1>9. CASE overlapped BY <1>1, <1>9 DEF WInv, KInv, DueBotIsAttended
<1>10. CASE ~overlapped
  <2>1. Busy(slot) BY <1>1, <1>10 DEF IInv, AInv, Quiet, Busy, Op
  <2>2. task.copy \in Outcomes(task) BY <1>1, <2>1 DEF Busy, OpOK
  <2>3. More /\ Dated /\ Armed /\ RowOK(row) BY <1>10 DEF WInv, KInv, IInv, TInv
  <2>4. task.kind \in Kinds /\ Acts(task.kind, "save", task.seat) BY <1>1, TaskFields
  <2>5. row.live
    <3>1. task.kind \notin {"bot", "wake", "advise"} BY <2>4 DEF Acts
    <3> QED BY <2>2, <2>4, <3>1
            DEF Outcomes, Kinds, MayPlay, MayAsk, MayAnswer, MayDecideOnze
  <2>6. task.copy.live =>
          /\ task.copy.onze # None => task.copy.capped
          /\ task.copy.capped => task.copy.asked = None
          /\ task.copy.played # Seats
          /\ task.copy.capped = row.capped
          /\ row.onze = None => task.copy.onze = None
          /\ task.kind = "onzeYes" => task.copy.capped /\ task.copy.onze = None
    BY <1>1, <2>2, <2>3, OutcomeMore
  <2>7. More' BY <1>1, <2>6 DEF More
  <2>8. Proposed' BY <1>1, <2>1 DEF Busy, Proposed
  <2>9. Dated'
    <3>1. CASE task.kind \notin {"play", "expire", "onzeYes", "onzeNo"}
      <4>1. Drops(t) BY <1>6, <3>1 DEF Drops
      <4> QED BY <1>7, <4>1 DEF Dated, Drops
    <3>2. CASE task.kind \in {"play", "expire", "onzeYes", "onzeNo"}
      <4>1. row.asked = None
        <5>1. CASE task.kind \in {"play", "expire"}
          BY <2>2, <5>1 DEF Outcomes, MayPlay
        <5>2. CASE task.kind \in {"onzeYes", "onzeNo"}
          <6>1. MayDecideOnze(row, TeamOf(task.seat)) BY <2>2, <5>2 DEF Outcomes
          <6>2. row.onze # None BY <6>1, TeamIs, NoneIs DEF MayDecideOnze
          <6> QED BY <2>3, <6>2 DEF RowOK
        <5> QED BY <3>2, <5>1, <5>2
      <4>2. ~MayAnswer(row, decision.team) BY <4>1, TeamIs, NoneIs DEF MayAnswer
      <4>3. \A s \in Slots : ~Drops(tasks[s]) BY <1>1, <2>1 DEF Busy, Drops, Op
      <4>4. decision = NoDecision BY <2>3, <4>2, <4>3 DEF Dated
      <4> QED BY <1>1, <4>4 DEF Dated
    <3> QED BY <3>1, <3>2
  <2>10. Armed'
    <3>1. RunsOut(task) => RunsOut(t) BY <1>6 DEF RunsOut
    <3> QED BY <1>1, <1>7, <2>3, <3>1, WakeSlot DEF Armed, RunsOut
  <2>11. ASSUME NEW s \in Slots PROVE Ready(tasks[s])'
    <3>1. CASE s = slot
      <4>1. Ready(t)' BY <1>1, <1>6, <2>6 DEF Ready
      <4> QED BY <1>7, <3>1, <4>1
    <3>2. CASE s # slot
      <4>1. PICK u : u = tasks[s] OBVIOUS
      <4>2. ~Op(u) /\ Ready(u) BY <1>10, <2>1, <3>2, <4>1 DEF Busy, WInv, KInv
      <4>3. u.pc \notin {"decide", "read", "check", "load", "then"} BY <4>2 DEF Op
      <4>4. u.pc \in {"ensure", "flow"} /\ u.kind = "onzeYes" =>
              row.capped /\ row.onze = None
        BY <2>5, <4>2 DEF Ready
      <4>5. Ready(u)' BY <1>1, <2>6, <4>3, <4>4 DEF Ready
      <4> QED BY <1>7, <3>2, <4>1, <4>5
    <3> QED BY <3>1, <3>2
  <2>12. KInv' BY <2>7, <2>8, <2>9, <2>10, <2>11 DEF KInv
  <2> QED BY <1>8, <2>12 DEF WInv, DueBotIsAttended
<1> QED BY <1>9, <1>10

\* After a card that leaves the hand alive another card is next.
LEMMA CardAfterCard ==
  ASSUME TableAssumption, NEW r, RowOK(r), NEW seat, MayPlay(r, seat),
         NEW p \in Played(r, seat), p.live
  PROVE  CardIsNext(p)
<1> DEFINE more == r.played \cup {seat}
           On == [r EXCEPT !.played = more, !.taken = None]
           Opened(w) == [r EXCEPT !.round = r.round + 1, !.played = {}, !.taken = w]
<1>1. r \in RowType /\ r.asked = None /\ r.onze = None BY DEF RowOK, MayPlay
<1>2. ~OverRow.live BY DEF OverRow, NewRow
<1>3. p = On \/ \E w \in Seats \cup {"TIE"} : p = Opened(w) BY <1>2 DEF Played
<1>4. On.asked = None /\ On.onze = None BY <1>1 DEF RowType
<1>5. \A w : Opened(w).asked = None /\ Opened(w).onze = None BY <1>1 DEF RowType
<1> HIDE DEF On, Opened
<1> QED BY <1>3, <1>4, <1>5 DEF CardIsNext

LEMMA GlanceNext ==
  ASSUME NEW r, RowOK(r)
  PROVE  CardIsNext(Glance(r)) <=> CardIsNext(r)
BY GlanceIs DEF CardIsNext

LEMMA MoveTurnKnown ==
  ASSUME TableAssumption, IInv, WInv, NEW slot \in Slots, NEW task, Running(slot, task),
         MoveTurn(slot, task)
  PROVE  WInv'
<1>1. /\ task.pc = "after" /\ TaskOK(task) /\ tasks[slot] = task /\ bots' = bots
      /\ UNCHANGED <<row, decision>> /\ proposal' = proposal /\ overlapped' = overlapped
  BY DEF MoveTurn, Running
<1>2. PICK t, base, see, pc :
        /\ t = [task EXCEPT !.base = base, !.see = see, !.pc = pc]
        /\ base = OverRow /\ see = Glance(row) /\ pc = "pace"
  OBVIOUS
<1>3. tasks' = [tasks EXCEPT ![slot] = t] BY <1>2 DEF MoveTurn, Begin
<1>4. TaskOK(task) BY <1>1
<1>5. t.pc = "pace" /\ t.see = Glance(row)
  <2>1. t = [task EXCEPT !.base = base, !.see = see, !.pc = pc] BY <1>2
  <2>2. t = [ pc |-> pc, kind |-> task.kind, seat |-> task.seat, base |-> base,
              see |-> see, copy |-> task.copy, rung |-> task.rung, back |-> task.back ]
    BY ONLY <1>4, <2>1, ShownSet
  <2> QED BY <1>2, <2>2
<1>6. Ready(t) /\ ~RunsOut(task) BY <1>1, <1>5 DEF Ready, RunsOut
<1>7. ASSUME ~overlapped, BotIsDue' PROVE Attended'
  <2>1. Busy(slot) BY <1>1, <1>7 DEF IInv, AInv, Quiet, Busy, Op
  <2>2. MayPlay(task.base, turn) /\ row \in Played(task.base, turn)
    BY <1>1, <2>1 DEF Busy, OpOK
  <2>3. row.live BY <1>1, <1>7 DEF BotIsDue
  <2>4. RowOK(task.base) /\ RowOK(row) BY <1>1, TaskFields DEF IInv, TInv
  <2>5. CardIsNext(row) BY <2>2, <2>3, <2>4, CardAfterCard
  <2>6. CardIsNext(t.see) BY <1>5, <2>4, <2>5, GlanceNext
  <2>7. Attends(slot, t) BY <1>5, <2>5, <2>6 DEF Attends
  <2>8. Attends(slot, t)' BY <1>1, <2>7, AttendsSame
  <2>9. tasks'[slot] = t BY <1>3, OnlySlot
  <2> QED BY <2>8, <2>9 DEF Attended
<1> QED BY <1>1, <1>3, <1>6, <1>7, StepKnown

LEMMA PaceKnown ==
  ASSUME TableAssumption, IInv, WInv, NEW slot \in Slots, NEW task, Running(slot, task),
         Pace(slot, task)
  PROVE  WInv'
<1> DEFINE seen == IF slot \in Humans /\ task.kind = "play" THEN row ELSE task.see
<1>1. /\ task.pc = "pace" /\ tasks[slot] = task /\ bots' = bots
      /\ tasks' = [tasks EXCEPT ![slot] = Idle]
      /\ botTimer' = (botTimer \/ (CardIsNext(seen) /\ turn \in bots))
      /\ UNCHANGED <<row, turn, decision>> /\ proposal' = proposal
      /\ overlapped' = overlapped
  BY DEF Pace, Running, End, Begin
<1>2. ~RunsOut(task) BY <1>1 DEF RunsOut
<1>3. ASSUME ~overlapped, BotIsDue' PROVE Attended'
  <2>1. BotActor(row) # None BY <1>1, <1>3, DueSame DEF BotIsDue
  <2>2. Attends(slot, task) => botTimer'
    <3>1. SUFFICES ASSUME Attends(slot, task) PROVE botTimer' OBVIOUS
    <3>2. CardIsNext(row) /\ CardIsNext(seen) BY <1>1, <3>1 DEF Attends
    <3>3. turn \in bots BY <2>1, <3>2 DEF BotActor, CardIsNext
    <3> QED BY <1>1, <3>2, <3>3
  <2>3. tasks'[slot] = Idle /\ \A s \in Slots \ {slot} : tasks'[s] = tasks[s]
    BY <1>1, OnlySlot
  <2>4. DecisionRuns => DecisionRuns' BY <1>1, RunsSame
  <2> QED BY <1>1, <1>3, <2>2, <2>3, <2>4, StillAttended DEF WInv
<1> QED BY <1>1, <1>2, <1>3, IdleReady, StepKnown

LEMMA ThenKnown ==
  ASSUME TableAssumption, IInv, WInv, NEW slot \in Slots, NEW task, Running(slot, task),
         Then(slot, task)
  PROVE  WInv'
<1>1. /\ task.pc = "then" /\ TaskOK(task) /\ tasks[slot] = task
      /\ proposal' \in {proposal, NoProposal}
      /\ decision' = (IF task.kind \in {"onzeYes", "onzeNo"} THEN decision ELSE NoDecision)
      /\ UNCHANGED <<row, overlapped>>
  BY DEF Then, Running
<1>2. PICK t, pc : t = Task(task.kind, pc, task.seat)
                   /\ pc = IF task.kind \in {"ask", "approve"} THEN "ensure" ELSE "flow"
  OBVIOUS
<1>3. tasks' = [tasks EXCEPT ![slot] = t] BY <1>2 DEF Then, Begin
<1>4. t.pc = pc /\ t.kind = task.kind BY <1>2 DEF Task
<1>5. tasks'[slot] = t /\ \A s \in Slots \ {slot} : tasks'[s] = tasks[s]
  BY <1>3, OnlySlot
<1>6. Attended'
  <2>1. CASE task.kind \in {"ask", "approve"}
    <3>1. Attends(slot, t)' BY <1>2, <1>4, <2>1 DEF Attends
    <3> QED BY <1>5, <3>1 DEF Attended
  <2>2. CASE task.kind \notin {"ask", "approve"}
    BY <1>2, <1>3, <1>4, <2>2, StepLooks
  <2> QED BY <2>1, <2>2
<1>7. ~overlapped' => Proposed' /\ Dated' /\ Armed' /\ Ready(t)
  <2>1. SUFFICES ASSUME ~overlapped PROVE Proposed' /\ Dated' /\ Armed' /\ Ready(t)
    BY <1>1
  <2>2. Proposed /\ Dated /\ Armed /\ Ready(task) BY <1>1, <2>1 DEF WInv, KInv
  <2>3. Proposed' BY <1>1, <2>2 DEF Proposed, MayAsk
  <2>4. ASSUME task.kind \in {"onzeYes", "onzeNo"} PROVE Dated' /\ Armed'
    <3>1. ~Drops(task) /\ ~RunsOut(task) BY <2>4 DEF Drops, RunsOut
    <3>2. (\E s \in Slots : Drops(tasks[s])) => \E s \in Slots : Drops(tasks'[s])
      BY <1>1, <1>5, <3>1
    <3>3. Dated' BY <1>1, <2>2, <2>4, <3>2 DEF Dated, MayAnswer, Drops
    <3>4. Armed' BY <1>1, <1>5, <2>2, <2>4, <3>1, WakeSlot DEF Armed, RunsOut
    <3> QED BY <3>3, <3>4
  <2>5. ASSUME task.kind \notin {"onzeYes", "onzeNo"} PROVE Dated' /\ Armed'
    BY <1>1, <2>5 DEF Dated, Armed
  <2>6. Ready(t) BY <1>1, <1>2, <1>4, <2>2 DEF Ready
  <2> QED BY <2>3, <2>4, <2>5, <2>6
<1>8. KInv' BY <1>1, <1>5, <1>7, StillKnown DEF WInv
<1> QED BY <1>6, <1>8 DEF WInv, DueBotIsAttended

\* At a table of two nobody shares a team.
LEMMA MixedIsFour ==
  ASSUME TableAssumption, NEW team, Mixed(team), bots \subseteq Seats
  PROVE  Len(TurnOrder) # 2
<1>1. SUFFICES ASSUME Len(TurnOrder) = 2 PROVE FALSE OBVIOUS
<1>2. Seats \subseteq {"T1A", "T2A"}
  <2>1. TurnOrder = <<"T1A", "T2A">> BY <1>1 DEF TableAssumption
  <2> QED BY <2>1 DEF Seats
<1>3. PICK s \in Seats \ bots, b \in bots : TeamOf(s) = team /\ TeamOf(b) = team
  BY DEF Mixed, HasHuman
<1> QED BY <1>2, <1>3 DEF TeamOf

LEMMA EnsureKnown ==
  ASSUME TableAssumption, IInv, WInv, NEW slot \in Slots, NEW task, Running(slot, task),
         Ensure(slot, task)
  PROVE  WInv'
<1> DEFINE team == Other(row.asked)
           rung == row.level + 1
           fresh == [team |-> team, rung |-> rung, timer |-> TRUE]
<1>1. /\ task.pc = "ensure" /\ TaskOK(task) /\ tasks[slot] = task /\ bots' = bots
      /\ UNCHANGED <<row, turn, botTimer, proposal, overlapped>>
      /\ decision' = IF ~row.live \/ row.asked = None THEN NoDecision
                     ELSE IF Len(TurnOrder) = 2 \/ ~Mixed(team) THEN NoDecision
                     ELSE IF decision.team = team /\ decision.rung = rung THEN decision
                     ELSE fresh
  BY DEF Ensure, Running
<1>2. PICK t : /\ t = IF task.kind = "advise" THEN Idle ELSE [task EXCEPT !.pc = "flow"]
               /\ tasks' = [tasks EXCEPT ![slot] = t]
  BY DEF Ensure, End, Go, Begin
<1>3. tasks'[slot] = t /\ \A s \in Slots \ {slot} : tasks'[s] = tasks[s]
  BY <1>2, OnlySlot
<1>4. task.kind # "advise" => t.pc = "flow" /\ t.kind = task.kind
  <2>1. "flow" \in Pcs /\ Acts(task.kind, "flow", task.seat)
    BY <1>1, TaskFields DEF Acts, Pcs
  <2> QED BY <1>1, <1>2, <2>1, GoesTo
<1>5. CASE overlapped BY <1>1, <1>5 DEF WInv, KInv, DueBotIsAttended
<1>6. CASE ~overlapped
  <2>1. Proposed /\ Dated /\ Armed /\ Ready(task) BY <1>1, <1>6 DEF WInv, KInv
  <2>2. Ready(t)
    <3>1. CASE task.kind = "advise" BY <1>2, <3>1, IdleReady
    <3>2. CASE task.kind # "advise" BY <1>1, <1>4, <2>1, <3>2 DEF Ready
    <3> QED BY <3>1, <3>2
  <2>3. Proposed' BY <1>1, <2>1 DEF Proposed, MayAsk
  <2>4. row.asked # None => row.asked = Other(team)
    <3>1. row.asked \in Team \cup {None} BY RowFields DEF IInv, TInv, RowOK
    <3> QED BY <3>1 DEF Other, Team
  <2>5. Dated' BY <1>1, <2>4 DEF Dated, MayAnswer
  <2>6. Armed'
    <3>1. ~RunsOut(task) BY <1>1 DEF RunsOut
    <3>2. CASE decision' = decision BY <1>1, <1>3, <2>1, <3>1, <3>2, WakeSlot DEF Armed, RunsOut
    <3>3. CASE decision' = NoDecision BY <3>3 DEF Armed
    <3>4. CASE decision' = fresh
      <4>1. decision'.timer BY <3>4
      <4> QED BY <4>1 DEF Armed
    <3> QED BY <1>1, <3>2, <3>3, <3>4
  <2>7. KInv' BY <1>1, <1>3, <2>2, <2>3, <2>5, <2>6, StillKnown DEF WInv
  <2>8. ASSUME BotIsDue' PROVE Attended'
    <3>1. CASE task.kind # "advise" BY <1>2, <1>4, <3>1, StepLooks
    <3>2. CASE row.asked # None /\ Mixed(team)
      <4>1. row.live BY <1>1, <2>8 DEF BotIsDue
      <4>2. Len(TurnOrder) # 2 BY <3>2, MixedIsFour DEF IInv, TInv, GatewayOK
      <4>3. Mixed(team)' BY <1>1, <3>2 DEF Mixed, HasHuman
      <4>4. CASE decision' = fresh
        <5>1. DecisionRuns' BY <1>1, <3>2, <4>3, <4>4 DEF DecisionRuns
        <5> QED BY <5>1 DEF Attended
      <4>5. CASE decision' = decision /\ decision.team = team /\ decision.rung = rung
        <5>1. decision \in [team : Team \cup {None}, rung : Level, timer : BOOLEAN]
          BY DEF IInv, TInv, GatewayOK
        <5>2. decision # NoDecision BY <4>5, TeamIs, NoneIs DEF NoDecision
        <5>3. CASE decision.timer
          <6>1. decision = fresh BY <4>5, <5>1, <5>3
          <6> QED BY <4>4, <4>5, <6>1
        <5>4. CASE ~decision.timer
          <6>1. RunsOut(tasks["decision"]) BY <2>1, <5>2, <5>4 DEF Armed
          <6>2. tasks'["decision"] = tasks["decision"]
            BY <1>1, <1>3, <6>1, WakeSlot DEF RunsOut
          <6>3. PICK u : u = tasks["decision"] OBVIOUS
          <6> QED BY <6>1, <6>2, <6>3, WakeSlot, Looks DEF RunsOut
        <5> QED BY <5>3, <5>4
      <4> QED BY <1>1, <3>2, <4>1, <4>2, <4>4, <4>5
    <3>3. CASE task.kind = "advise" /\ ~(row.asked # None /\ Mixed(team))
      <4>1. ~DecisionRuns BY <3>3 DEF DecisionRuns
      <4>2. ~Attends(slot, task) BY <1>1, <3>3 DEF Attends
      <4> QED BY <1>1, <1>3, <1>6, <2>8, <4>1, <4>2, StillAttended DEF WInv
    <3> QED BY <3>1, <3>2, <3>3
  <2> QED BY <2>7, <2>8 DEF WInv, DueBotIsAttended
<1> QED BY <1>5, <1>6

LEMMA FlowKnown ==
  ASSUME TableAssumption, IInv, WInv, NEW slot \in Slots, NEW task, Running(slot, task),
         Flow(slot, task)
  PROVE  WInv'
<1>1. /\ task.pc = "flow" /\ TaskOK(task) /\ tasks[slot] = task /\ bots' = bots
      /\ UNCHANGED <<row, turn, decision>> /\ proposal' = proposal
      /\ overlapped' = overlapped
  BY DEF Flow, Running, gateway
<1>2. PICK t, see, pc : /\ t = [task EXCEPT !.see = see, !.pc = pc]
                        /\ see = Glance(row) /\ pc = "arm"
  OBVIOUS
<1>3. tasks' = [tasks EXCEPT ![slot] = t] BY <1>2 DEF Flow, Begin
<1>4. TaskOK(task) BY <1>1
<1>5. t.pc = "arm" /\ t.see = Glance(row) /\ t.kind = task.kind
  <2>1. t = [task EXCEPT !.see = see, !.pc = pc] BY <1>2
  <2>2. t = [ pc |-> pc, kind |-> task.kind, seat |-> task.seat, base |-> task.base,
              see |-> see, copy |-> task.copy, rung |-> task.rung, back |-> task.back ]
    BY ONLY <1>4, <2>1, SeeSet
  <2> QED BY <1>2, <2>2
<1>6. Ready(t) /\ ~RunsOut(task) BY <1>1, <1>5 DEF Ready, RunsOut
<1>7. ASSUME ~overlapped, BotIsDue' PROVE Attended'
  <2>1. row.live BY <1>1, <1>7 DEF BotIsDue
  <2>2. task.kind = "onzeYes" => CardIsNext(row)
    <3>1. Ready(task) /\ More BY <1>1, <1>7 DEF WInv, KInv
    <3> QED BY <1>1, <2>1, <3>1 DEF Ready, More, CardIsNext
  <2>3. Attends(slot, t) BY <1>5, <2>2 DEF Attends
  <2>4. Attends(slot, t)' BY <1>1, <2>3, AttendsSame
  <2>5. tasks'[slot] = t BY <1>3, OnlySlot
  <2> QED BY <2>4, <2>5 DEF Attended
<1> QED BY <1>1, <1>3, <1>6, <1>7, StepKnown

LEMMA ArmKnown ==
  ASSUME TableAssumption, IInv, WInv, NEW slot \in Slots, NEW task, Running(slot, task),
         Arm(slot, task)
  PROVE  WInv'
<1> DEFINE person == slot \in Humans
           wakes == CASE task.kind = "accept" /\ person ->
                           CardIsNext(task.see) /\ turn \in bots
                      [] task.kind = "onzeYes" /\ person -> CardIsNext(task.see)
                      [] OTHER -> BotActor(task.see) # None
           w == Task("wake", "flow", task.seat)
<1>1. /\ task.pc = "arm" /\ TaskOK(task) /\ tasks[slot] = task /\ bots' = bots
      /\ botTimer' = (botTimer \/ wakes)
      /\ UNCHANGED <<row, turn, decision>> /\ proposal' = proposal
      /\ overlapped' = overlapped
  BY DEF Arm, Running
<1>2. IF task.kind = "accept" /\ person /\ ~wakes
      THEN tasks' = [tasks EXCEPT ![slot] = w] ELSE tasks' = [tasks EXCEPT ![slot] = Idle]
  BY DEF Arm, Begin, End
<1>3. ~RunsOut(task) BY <1>1 DEF RunsOut
<1>4. CASE tasks' = [tasks EXCEPT ![slot] = w]
  <2>1. w.pc = "flow" /\ Ready(w)
    <3>1. w.pc = "flow" /\ w.kind = "wake" BY DEF Task
    <3> QED BY <3>1 DEF Ready
  <2> HIDE DEF w
  <2>2. Attended' BY <1>4, <2>1, StepLooks
  <2> QED BY <1>1, <1>3, <1>4, <2>1, <2>2, StepKnown
<1>5. CASE tasks' = [tasks EXCEPT ![slot] = Idle] /\ ~(task.kind = "accept" /\ person /\ ~wakes)
  <2>1. ASSUME ~overlapped, BotIsDue' PROVE Attended'
    <3>1. BotActor(row) # None BY <1>1, <2>1, DueSame DEF BotIsDue
    <3>2. Attends(slot, task) => botTimer'
      <4>1. SUFFICES ASSUME Attends(slot, task) PROVE wakes BY <1>1
      <4>2. /\ task.see = Glance(row)
            /\ slot \in Humans /\ task.kind = "onzeYes" => CardIsNext(row)
        BY <1>1, <4>1 DEF Attends
      <4>3. RowOK(row) BY DEF IInv, TInv
      <4>4. BotActor(Glance(row)) = BotActor(row) BY <4>3, GlanceIs DEF BotActor
      <4>5. CASE task.kind = "accept" /\ person BY <1>5, <4>5
      <4>6. CASE task.kind = "onzeYes" /\ person
        <5>1. CardIsNext(task.see) BY <4>2, <4>3, <4>6, GlanceNext
        <5> QED BY <4>6, <5>1
      <4>7. CASE ~person \/ task.kind \notin {"accept", "onzeYes"}
        <5>1. BotActor(task.see) # None BY <3>1, <4>2, <4>4
        <5> QED BY <4>7, <5>1
      <4> QED BY <4>5, <4>6, <4>7
    <3>3. tasks'[slot] = Idle /\ \A s \in Slots \ {slot} : tasks'[s] = tasks[s]
      BY <1>5, OnlySlot
    <3>4. DecisionRuns => DecisionRuns' BY <1>1, RunsSame
    <3>5. botTimer => botTimer' BY <1>1
    <3> HIDE DEF wakes
    <3> QED BY <1>1, <2>1, <3>2, <3>3, <3>4, <3>5, StillAttended DEF WInv
  <2> HIDE DEF wakes
  <2> QED BY <1>1, <1>3, <1>5, <2>1, IdleReady, StepKnown
<1> QED BY <1>2, <1>4, <1>5

LEMMA InitKnown ==
  ASSUME TableAssumption, Init
  PROVE  WInv
<1>1. PICK w : w = Task("wake", "flow", None) OBVIOUS
<1>2. Ready(w) /\ w.pc = "flow" BY <1>1, WakeReady
<1>3. \A s \in Slots : tasks[s] = IF s = "wake" THEN w ELSE Idle BY <1>1 DEF Init
<1>4. PICK onze \in Team \cup {None} : row = NewRow(onze)
  BY DEF Init, TableAssumption, Team
<1>5. More BY <1>4, SeatsAre DEF More, NewRow
<1>6. \A s \in Slots : Ready(tasks[s]) BY <1>2, <1>3, IdleReady
<1>7. KInv BY <1>5, <1>6 DEF KInv, Init, Proposed, Dated, Armed
<1>8. tasks["wake"] = w BY <1>3, WakeSlot
<1>9. Attends("wake", w) BY <1>2 DEF Attends
<1>10. Attended BY <1>8, <1>9, WakeSlot DEF Attended
<1> QED BY <1>7, <1>10 DEF WInv, DueBotIsAttended

LEMMA SameKnown ==
  ASSUME IInv, WInv, UNCHANGED vars
  PROVE  WInv'
<1>1. UNCHANGED <<row, turn, bots, botTimer, proposal, decision, tasks, overlapped>>
  BY DEF vars, gateway
<1>2. PICK t : t = tasks["wake"] OBVIOUS
<1>3. tasks'["wake"] = t /\ \A s \in Slots \ {"wake"} : tasks'[s] = tasks[s]
  BY <1>1, <1>2
<1>4. ~overlapped => Proposed' /\ Dated' /\ Armed' /\ Ready(t)
  BY <1>1, <1>2, WakeSlot
     DEF WInv, KInv, Proposed, Dated, Armed, Drops, RunsOut, MayAsk, MayAnswer
<1>5. KInv' BY <1>1, <1>3, <1>4, StillKnown, WakeSlot DEF WInv
<1>6. ASSUME ~overlapped, BotIsDue' PROVE Attended'
  <2>1. DecisionRuns => DecisionRuns' BY <1>1, RunsSame
  <2> QED BY <1>1, <1>2, <1>3, <1>6, <2>1, StillAttended, WakeSlot DEF WInv
<1> QED BY <1>1, <1>5, <1>6 DEF WInv, DueBotIsAttended

LEMMA StepHoldsKnown ==
  ASSUME TableAssumption, IInv, WInv, NEW slot \in Slots, Step(slot)
  PROVE  WInv'
<1>1. PICK task : task = tasks[slot] OBVIOUS
<1>2. /\ task # Idle /\ bots' = bots
      /\ \/ BotLooks(slot, task) \/ BotDecides(slot, task) \/ Read(slot, task)
         \/ CheckTimeout(slot, task) \/ Load(slot, task) \/ Save(slot, task)
         \/ MoveTurn(slot, task) \/ Pace(slot, task) \/ Then(slot, task)
         \/ Ensure(slot, task) \/ Flow(slot, task) \/ Arm(slot, task)
  BY <1>1 DEF Step, Free
<1>3. Running(slot, task) BY <1>1, <1>2 DEF Running, IInv, TInv, TasksOK
<1> QED BY <1>2, <1>3, BotLooksKnown, BotDecidesKnown, ReadKnown, CheckTimeoutKnown,
           LoadKnown, SaveKnown, MoveTurnKnown, PaceKnown, ThenKnown, EnsureKnown,
           FlowKnown, ArmKnown

LEMMA NextKnown ==
  ASSUME TableAssumption, IInv, WInv, [Next]_vars
  PROVE  WInv'
<1>1. CASE UNCHANGED vars BY <1>1, SameKnown
<1>2. CASE Next
  BY <1>2, PlayCardKnown, AsksKnown, AcceptBetKnown, AnswersKnown, ApproveProposalKnown,
     RejectProposalKnown, GetStateKnown, DropKnown, JoinAgainKnown, BotWakesKnown,
     ProposalExpiresKnown, DecisionExpiresKnown, StepHoldsKnown
     DEF Next
<1> QED BY <1>1, <1>2

(* Whenever a bot is due and no operations have overlapped, its timer      *)
(* runs, or its proposal waits, or the decision it advises on runs, or a   *)
(* handler is under way that will look for it: no path through the         *)
(* gateway's handlers forgets to wake a bot.  It is what BotsMoveOn and    *)
(* BetIsAnswered rest on.                                                  *)
THEOREM BotsAreAttended == Spec => []DueBotIsAttended
<1>1. Init => WInv BY InitKnown, TableAssumption
<1>2. IInv /\ WInv /\ [Next]_vars => WInv' BY NextKnown, TableAssumption
<1>3. WInv => DueBotIsAttended BY DEF WInv
<1> QED BY <1>1, <1>2, <1>3, Invariance, PTL DEF Spec
=============================================================================
