------------------------------- MODULE Ratings -------------------------------
(***************************************************************************)
(* What a finished match does to its players: finalizeMatchIfFinished      *)
(* (gateway/game.gateway.ts) saves the match's record and then their       *)
(* results, with UpdateRatingUseCase.  Several handlers may see the same   *)
(* match finished; the players may leave while the record is saved; the    *)
(* profiles are read and saved one by one, with nothing that notices a     *)
(* profile changed in between.                                             *)
(***************************************************************************)
EXTENDS Integers, FiniteSets, Functions

CONSTANTS
  Matches,     \* the matches
  Users,       \* people with a profile
  Side,        \* the team each user plays for, or None, in each match
  Slots,       \* bound: the handlers that see a match finished, <<match, k>>
  Restless,    \* bound: the matches whose people come and go
  Start        \* bound: the rating everybody starts with

None == "none"
Team == {"T1", "T2"}
Delta == 25       \* RATING_DELTA
Floor == 100      \* RATING_FLOOR

ASSUME RatingsAssumption ==
  /\ IsFiniteSet(Matches)
  /\ Side \in [Matches -> [Users -> Team \cup {None}]]
  /\ Restless \subseteq Matches
  /\ Slots \subseteq Matches \X Nat
  /\ Start \in Int /\ Start >= Floor

VARIABLES
  winner,      \* the team that won the match, None while it is played
  rooms,       \* the matches that have a room
  reopened,    \* history: the matches whose room was closed and opened anew
  seat,        \* the team each user sits with; bots sit on the other seats
  away,        \* the users who lost their socket and may reconnect
  marked,      \* ratingAppliedMatches
  task,        \* each handler: what it has read and still has to save
  profile,     \* the stored profiles
  credited,    \* history: how often a match's result was put in a profile
  crossed      \* history: users whose profile was read before a pending save

vars == <<winner, rooms, reopened, seat, away, marked, task, profile, credited, crossed>>

People(m) == {u \in Users : seat[m][u] # None}

NewProfile == [rating |-> Start, wins |-> 0, losses |-> 0, matchesPlayed |-> 0]

\* `won` and `lost` are whom the handler rates, `seen` the profiles it has
\* read, `left` the users it still has to save.
NewTask == [pc |-> "new", won |-> {}, lost |-> {}, seen |-> <<>>, left |-> {}]
Done == [NewTask EXCEPT !.pc = "done"]

\* Faulty: a win is not counted as a match played.
applyWinUnplayed(p) == [p EXCEPT !.rating = @ + Delta, !.wins = @ + 1]

applyWin(p) ==
  [p EXCEPT !.rating = @ + Delta, !.wins = @ + 1, !.matchesPlayed = @ + 1]

\* Faulty: without the floor.
applyLossUnfloored(p) ==
  [p EXCEPT !.rating = @ - Delta, !.losses = @ + 1, !.matchesPlayed = @ + 1]

applyLoss(p) ==
  [p EXCEPT !.rating = IF @ - Delta > Floor THEN @ - Delta ELSE Floor,
            !.losses = @ + 1, !.matchesPlayed = @ + 1]

Init ==
  /\ winner = [m \in Matches |-> None]
  /\ rooms = Matches /\ reopened = {}
  /\ seat = Side
  /\ away = [m \in Matches |-> {}]
  /\ marked = {}
  /\ task = [s \in Slots |-> NewTask]
  /\ profile = [u \in Users |-> NewProfile]
  /\ credited = [m \in Matches |-> [u \in Users |-> 0]]
  /\ crossed = {}

-----------------------------------------------------------------------------
(* The rooms, once their hands have begun *)

Finish(m) ==
  /\ winner[m] = None
  /\ \E t \in Team : winner' = [winner EXCEPT ![m] = t]
  /\ UNCHANGED <<rooms, reopened, seat, away, marked, task, profile, credited, crossed>>

\* Bounds the coming and going to the time in which it may make a difference.
Moving(m) == m \in Restless /\ \E s \in Slots : s[1] = m /\ task[s].pc \in {"new", "record"}

\* The socket closes: a bot takes the seat, the room stays.
Disconnect(m, u) ==
  /\ Moving(m)
  /\ seat[m][u] # None
  /\ seat' = [seat EXCEPT ![m][u] = None]
  /\ away' = [away EXCEPT ![m] = @ \cup {u}]
  /\ UNCHANGED <<winner, rooms, reopened, marked, task, profile, credited, crossed>>

\* join by somebody whose session is kept: the bot gives the seat back.
Reconnect(m, u) ==
  /\ Moving(m)
  /\ m \in rooms \ reopened /\ u \in away[m]
  /\ seat' = [seat EXCEPT ![m][u] = Side[m][u]]
  /\ away' = [away EXCEPT ![m] = @ \ {u}]
  /\ UNCHANGED <<winner, rooms, reopened, marked, task, profile, credited, crossed>>

\* leave-match: with the last person the room goes, and its mark with it.
LeaveMatch(m, u) ==
  /\ Moving(m)
  /\ seat[m][u] # None
  /\ seat' = [seat EXCEPT ![m][u] = None]
  /\ IF People(m) = {u} THEN /\ rooms' = rooms \ {m}
                             /\ marked' = marked \ {m}
     ELSE UNCHANGED <<rooms, marked>>
  /\ UNCHANGED <<winner, reopened, away, task, profile, credited, crossed>>

\* join of a match whose room has gone opens an empty room for it; who has no
\* session there any more takes its first free seat.
JoinAnew(m, u) ==
  /\ Moving(m)
  /\ (m \in rooms => m \in reopened) /\ seat[m][u] = None /\ u \notin away[m]
  /\ \E t \in Team :
       /\ \A v \in Users : seat[m][v] # t
       /\ t = "T2" => \E v \in Users : seat[m][v] = "T1"
       /\ seat' = [seat EXCEPT ![m][u] = t]
  /\ rooms' = rooms \cup {m}
  /\ reopened' = IF m \in rooms THEN reopened ELSE reopened \cup {m}
  /\ UNCHANGED <<winner, away, marked, task, profile, credited, crossed>>

-----------------------------------------------------------------------------
(* A handler that sees the match finished *)

Set(s, t) == task' = [task EXCEPT ![s] = t]

\* Faulty: the mark is looked at, and set once the record is saved.
MarkAppliedLate(s) ==
  LET m == s[1]
  IN  /\ winner[m] # None /\ task[s].pc = "new"
      /\ marked' = IF \E o \in Slots \ {s} : o[1] = m /\ task[o].pc # "new"
                   THEN marked \cup {m} ELSE marked
      /\ Set(s, IF m \in marked \/ m \notin rooms THEN Done
                ELSE [NewTask EXCEPT !.pc = "record"])
      /\ UNCHANGED <<winner, rooms, reopened, seat, away, profile, credited, crossed>>

\* tryMarkRatingApplied; without a room there is no record to make.
MarkApplied(s) ==
  LET m == s[1]
  IN  /\ winner[m] # None /\ task[s].pc = "new"
      /\ marked' = marked \cup {m}
      /\ Set(s, IF m \in marked \/ m \notin rooms THEN Done
                ELSE [NewTask EXCEPT !.pc = "record"])
      /\ UNCHANGED <<winner, rooms, reopened, seat, away, profile, credited, crossed>>

\* The record is saved, or is not: whoever sits at the table now is rated.
SaveRecord(s) ==
  LET m == s[1]
      Of(t) == {u \in Users : seat[m][u] = t}
      rated == [NewTask EXCEPT !.pc = "read", !.won = Of(winner[m]),
                               !.lost = Of(CHOOSE t \in Team : t # winner[m]),
                               !.left = People(m)]
  IN  /\ task[s].pc = "record"
      /\ Set(s, IF m \notin rooms \/ People(m) = {} THEN Done ELSE rated)
      /\ UNCHANGED <<winner, rooms, reopened, seat, away, marked, profile, credited, crossed>>

\* findByUserId: the users' profiles, read one by one; a failure ends it all.
ReadProfile(s, u) ==
  LET t == task[s]
      seen == [v \in DOMAIN t.seen \cup {u} |-> IF v = u THEN profile[u] ELSE t.seen[v]]
  IN  /\ t.pc = "read" /\ u \in (t.won \cup t.lost) \ DOMAIN t.seen
      /\ \/ Set(s, Done) /\ UNCHANGED crossed
         \/ /\ Set(s, [t EXCEPT !.seen = seen,
                                !.pc = IF DOMAIN seen = t.left THEN "save" ELSE @])
            /\ crossed' = IF \E o \in Slots \ {s} :
                               u \in DOMAIN task[o].seen \cap task[o].left
                          THEN crossed \cup {u} ELSE crossed
      /\ UNCHANGED <<winner, rooms, reopened, seat, away, marked, profile, credited>>

\* Faulty: after a save that failed, everybody is saved again.
SaveProfileRetries(s, u) ==
  LET t == task[s]
  IN  /\ t.pc = "save" /\ u \in t.left
      /\ \/ /\ Set(s, [t EXCEPT !.left = t.won \cup t.lost])
            /\ UNCHANGED <<profile, credited>>
         \/ /\ profile' = [profile EXCEPT ![u] = IF u \in t.won THEN applyWin(t.seen[u])
                                                 ELSE applyLoss(t.seen[u])]
            /\ credited' = [credited EXCEPT ![s[1]][u] = @ + 1]
            /\ Set(s, IF t.left = {u} THEN Done ELSE [t EXCEPT !.left = @ \ {u}])
      /\ UNCHANGED <<winner, rooms, reopened, seat, away, marked, crossed>>

\* repo.save: the changed profile replaces the stored one; a save that fails
\* leaves the others to go on.
SaveProfile(s, u) ==
  LET t == task[s]
      rest == t.left \ {u}
  IN  /\ t.pc = "save" /\ u \in t.left
      /\ \/ UNCHANGED <<profile, credited>>
         \/ /\ profile' = [profile EXCEPT ![u] = IF u \in t.won THEN applyWin(t.seen[u])
                                                 ELSE applyLoss(t.seen[u])]
            /\ credited' = [credited EXCEPT ![s[1]][u] = @ + 1]
      /\ Set(s, IF rest = {} THEN Done ELSE [t EXCEPT !.left = rest])
      /\ UNCHANGED <<winner, rooms, reopened, seat, away, marked, crossed>>

Next ==
  \/ \E m \in Matches :
       \/ Finish(m)
       \/ \E u \in Users : \/ Disconnect(m, u) \/ Reconnect(m, u)
                           \/ LeaveMatch(m, u) \/ JoinAnew(m, u)
  \/ \E s \in Slots :
       \/ MarkApplied(s) \/ SaveRecord(s)
       \/ \E u \in Users : ReadProfile(s, u) \/ SaveProfile(s, u)

Spec == Init /\ [][Next]_vars

-----------------------------------------------------------------------------
(* What must hold *)

(* However many handlers see a match finished, and whoever leaves or comes *)
(* back while it is being rated, it goes into a profile once at most: the  *)
(* mark is only given up with the room, whose seats are gone as well.  A   *)
(* room opened anew for the same match is the one way round it.            *)
CreditedOnce ==
  \A m \in Matches \ reopened : \A u \in Users : credited[m][u] <= 1

(* A profile counts every result put into it, as long as no two matches of *)
(* its user are rated across one another: one save of a team that fails,   *)
(* or a rating that ends early, disturbs nobody else's.                    *)
NoResultLost ==
  \A u \in Users \ crossed :
    profile[u].matchesPlayed = SumFunction([m \in Matches |-> credited[m][u]])

(* Whatever is lost, a profile is always one that some sequence of results *)
(* leads to: its counts add up, its rating lies where they put it, and     *)
(* never below the floor.                                                  *)
ProfileAddsUp ==
  \A u \in Users :
    LET p == profile[u]
    IN  /\ p.wins + p.losses = p.matchesPlayed
        /\ p.rating \in (Start + Delta * (p.wins - p.losses))..(Start + Delta * p.wins)
        /\ p.rating >= Floor
=============================================================================
