-------------------------------- MODULE Table --------------------------------
(***************************************************************************)
(* A table while a hand is played (gateway/game.gateway.ts): the players'  *)
(* requests, the bots, and the timers that wake them.  The stored match is *)
(* read, changed and saved with awaits in between; whose turn it is, the   *)
(* pending proposal, the pending team decision and the timers live in the  *)
(* gateway, which changes them before and after those awaits.  An action   *)
(* is what runs between two awaits; a task is a handler that is between    *)
(* two of them.                                                            *)
(*                                                                         *)
(* Of the match, a hand keeps only what the gateway reads: who has played  *)
(* in the open round, whose bet waits for an answer, and who decides a mao *)
(* de onze.  Cards are left out, so a full round may go to any seat and    *)
(* the second one may end the hand or not.                                 *)
(***************************************************************************)
EXTENDS Integers, Sequences, FiniteSets

CONSTANTS
  TurnOrder,     \* the table: its seats in the order they play
  Humans,        \* the seats people sit on; bots sit on the others
  Unsteady,      \* bound: the people who may reload, drop out and come back
  MaxLevel,      \* bound: the rungs of the bet ladder explored, four at most
  MaxRounds,     \* bound: the rounds a hand may reach, three at most
  Onzes          \* bound: the teams that may have to decide a mao de onze

None == "none"
Team == {"T1", "T2"}
Seats == {TurnOrder[i] : i \in DOMAIN TurnOrder}

ASSUME TableAssumption ==
  /\ TurnOrder \in {<<"T1A", "T2A">>, <<"T1A", "T2A", "T1B", "T2B">>}
  /\ Humans \subseteq Seats /\ Unsteady \subseteq Humans
  /\ MaxLevel \in 1..4
  /\ MaxRounds \in 2..3
  /\ Onzes \subseteq {"T1", "T2"}

VARIABLES
  row,         \* the stored hand
  turn,        \* currentTurnSeatId
  bots,        \* the seats bots play for now
  botTimer,    \* scheduledBotTurns has the match
  proposal,    \* pendingPartnerBetProposalByMatch: the bot that asks, for what
  decision,    \* pendingTeamBetDecisionByMatch, and whether its timer is armed
  resume,      \* pendingBetResumeSeatByMatch
  tasks,       \* the handlers that are between two awaits
  overlapped   \* history: an operation began before another had ended

gateway == <<turn, botTimer, proposal, decision, resume>>
vars == <<row, gateway, bots, tasks, overlapped>>

TeamOf(seat) == IF seat \in {"T1A", "T1B"} THEN "T1" ELSE "T2"
Other(team) == IF team = "T1" THEN "T2" ELSE "T1"
NextSeat(seat) ==
  LET i == CHOOSE k \in DOMAIN TurnOrder : TurnOrder[k] = seat
  IN  TurnOrder[(i % Len(TurnOrder)) + 1]
Partners(seat) == {s \in Seats \ {seat} : TeamOf(s) = TeamOf(seat)}
HasHuman(team) == \E s \in Seats \ bots : TeamOf(s) = team
Mixed(team) == HasHuman(team) /\ \E s \in bots : TeamOf(s) = team
Or(seat, fallback) == IF seat # None THEN seat ELSE fallback

-----------------------------------------------------------------------------
(* The hand: the part of Match's operations the gateway can tell apart *)

Level == 0..MaxLevel      \* the agreed value as a rung: 1, 3, 6, 9, 12

RowType ==
  [ live : BOOLEAN, round : 1..3, played : SUBSET Seats,
    asked : Team \cup {None}, level : Level, authority : Team \cup {None},
    onze : Team \cup {None}, capped : BOOLEAN,
    taken : Seats \cup {"TIE", None} ]

NewRow(onze) ==
  [ live |-> TRUE, round |-> 1, played |-> {}, asked |-> None, level |-> 0,
    authority |-> None, onze |-> onze, capped |-> onze # None, taken |-> None ]
OverRow == [NewRow(None) EXCEPT !.live = FALSE]

MayPlay(r, seat) ==
  r.live /\ r.onze = None /\ r.asked = None /\ seat \notin r.played

\* The hands a card may lead to: whoever takes the round, and whether it
\* decides the hand, is up to the cards.  `taken` is who took the round before,
\* until a card is played in the open one.
Played(r, seat) ==
  LET p == r.played \cup {seat}
      Opened(w) == [r EXCEPT !.round = @ + 1, !.played = {}, !.taken = w]
  IN  IF p # Seats THEN {[r EXCEPT !.played = p, !.taken = None]}
      ELSE (IF r.round < MaxRounds THEN {Opened(w) : w \in Seats \cup {"TIE"}} ELSE {})
             \cup (IF r.round > 1 THEN {OverRow} ELSE {})

\* requestTruco and the raises: `rung` is the value asked for.
MayAsk(r, team, rung) ==
  /\ r.live /\ r.onze = None /\ ~r.capped /\ rung \in Level
  /\ \/ r.asked = Other(team) /\ rung = r.level + 2
     \/ /\ r.asked = None /\ rung = r.level + 1
        /\ r.authority = IF rung = 1 THEN None ELSE team

Asked(r, team) ==
  LET countered == r.asked # None
  IN  [r EXCEPT !.asked = team,
                !.level = IF countered THEN @ + 1 ELSE @,
                !.authority = IF countered THEN team ELSE @]

MayAnswer(r, team) == r.live /\ r.asked = Other(team)
Accepted(r, team) ==
  [r EXCEPT !.asked = None, !.level = @ + 1, !.authority = team]

MayDecideOnze(r, team) == r.live /\ r.onze = team

\* nextDecisionType is "play-card".
CardIsNext(r) == r.live /\ r.onze = None /\ r.asked = None

-----------------------------------------------------------------------------
(* Who must act *)

\* What is looked at to find who must act, and what may be asked for.
Glance(r) == [r EXCEPT !.round = 1, !.played = {}, !.taken = None]

\* resolveBotTurnDecisionActor: the bot the hand r waits for.  People decide
\* a mao de onze for a mixed team; a bet wakes the team's bot all the same.
BotActor(r) ==
  LET BotOf(team) == IF \E s \in bots : TeamOf(s) = team
                     THEN CHOOSE s \in bots : TeamOf(s) = team ELSE None
  IN  IF ~r.live THEN None
      ELSE IF r.onze # None THEN IF HasHuman(r.onze) THEN None ELSE BotOf(r.onze)
      ELSE IF r.asked # None THEN BotOf(Other(r.asked))
      ELSE IF turn \in bots THEN turn ELSE None

\* Faulty: the turn always goes to the next seat at the table.
TurnAfterCardNext(before, after, seat) ==
  IF ~after.live \/ turn = None THEN None ELSE NextSeat(turn)

\* Faulty: whatever the round came to opens the next one, a tie too.
TurnAfterCardTie(before, after, seat) ==
  IF ~after.live THEN None
  ELSE IF after.round > before.round THEN after.taken
  ELSE IF turn = None THEN TurnOrder[1] ELSE NextSeat(turn)

\* resolveNextTurnRoomStateAfterCardPlay: the winner opens the round the card
\* opened; a tie, and a card within a round, pass the turn on.
TurnAfterCard(before, after, seat) ==
  IF ~after.live THEN None
  ELSE IF after.round > before.round /\ after.taken \in Seats THEN after.taken
  ELSE IF after.round > before.round /\ Len(TurnOrder) = 2 THEN NextSeat(seat)
  ELSE IF turn = None THEN TurnOrder[1]
  ELSE NextSeat(turn)

-----------------------------------------------------------------------------
(* Tasks.  A person has one request under way; the bot turns of a match    *)
(* run one at a time, because a turn is shorter than the delay before the  *)
(* next (2050 ms of pacing against 2200 ms).                               *)

Slots == Humans \cup {"bot", "proposal", "decision", "wake"}

Idle == [pc |-> "idle"]

NoProposal == [seat |-> None, rung |-> 0]
NoDecision == [team |-> None, rung |-> 0, timer |-> FALSE]

\* `base` is the hand the operation read first, `see` the hand it acts on.
Task(kind, pc, seat) ==
  [ pc |-> pc, kind |-> kind, seat |-> seat, base |-> OverRow, see |-> OverRow,
    copy |-> OverRow, rung |-> 0, back |-> None ]

Free(slot) == tasks[slot] = Idle
Begin(slot, task) == tasks' = [tasks EXCEPT ![slot] = task]
Go(slot, task, pc) == Begin(slot, [task EXCEPT !.pc = pc])
End(slot) == Begin(slot, Idle)

\* An operation on the hand has begun and has not yet moved the turn.
Operating(slot) ==
  tasks[slot].pc \in {"decide", "check", "read", "load", "save", "then", "after"}

\* An operation begins: another, or a proposal it does not answer, is under way.
Overlap(slot, kind) ==
  overlapped' = (\/ overlapped
                 \/ \E s \in Slots \ {slot} : Operating(s)
                 \/ proposal # NoProposal /\ kind \notin {"approve", "expire"})

Init ==
  /\ row \in {NewRow(onze) : onze \in Onzes \cup {None}}
  /\ turn \in Seats
  /\ bots = Seats \ Humans
  /\ botTimer = FALSE /\ resume = None
  /\ proposal = NoProposal /\ decision = NoDecision
  /\ tasks = [s \in Slots |-> IF s = "wake" THEN Task("wake", "flow", None)
                              ELSE Idle]
  /\ overlapped = FALSE

-----------------------------------------------------------------------------
(* Requests.  A client sends what the state it shows allows.               *)

Request(seat, task) ==
  /\ seat \notin bots /\ Free(seat)
  /\ Begin(seat, task)
  /\ IF task.kind = "wake" THEN UNCHANGED overlapped ELSE Overlap(seat, task.kind)
  /\ UNCHANGED <<row, bots>>

PlayCard(seat) ==
  /\ turn = seat /\ MayPlay(row, seat)
  /\ Request(seat, Task("play", "read", seat))
  /\ UNCHANGED gateway

Ask(seat, rung) ==
  /\ MayAsk(row, TeamOf(seat), rung)
  /\ Request(seat, [Task("ask", "load", seat) EXCEPT !.rung = rung])
  /\ UNCHANGED gateway

RequestTruco(seat) == turn = seat /\ Ask(seat, 1)

\* raise-to-six, raise-to-nine and raise-to-twelve: a raise over an offer needs
\* no turn.
Raise(seat) ==
  /\ turn = seat \/ row.asked # None
  /\ \E rung \in Level \ {0, 1} : Ask(seat, rung)

AcceptBet(seat) ==
  /\ MayAnswer(row, TeamOf(seat))
  /\ Request(seat, [Task("accept", "load", seat) EXCEPT !.back = Or(turn, seat)])
  /\ UNCHANGED gateway

DeclineBet(seat) ==
  /\ MayAnswer(row, TeamOf(seat))
  /\ Request(seat, Task("decline", "load", seat))
  /\ UNCHANGED gateway

AcceptMaoDeOnze(seat) ==
  /\ MayDecideOnze(row, TeamOf(seat))
  /\ Request(seat, Task("onzeYes", "load", seat))
  /\ UNCHANGED gateway

DeclineMaoDeOnze(seat) ==
  /\ MayDecideOnze(row, TeamOf(seat))
  /\ Request(seat, Task("onzeNo", "load", seat))
  /\ UNCHANGED gateway

\* Only the bot's partner may answer its proposal, which is then gone.
TakesProposal(seat) ==
  /\ proposal # NoProposal /\ seat \in Partners(proposal.seat)
  /\ proposal' = NoProposal
  /\ UNCHANGED <<turn, botTimer, decision, resume>>

ApproveProposal(seat) ==
  /\ TakesProposal(seat)
  /\ Request(seat, [Task("approve", "load", proposal.seat)
                      EXCEPT !.rung = proposal.rung])

RejectProposal(seat) ==
  /\ TakesProposal(seat)
  /\ Request(seat, Task("expire", "read", proposal.seat))

\* get-state, which a client sends when it opens or reopens the table.
GetState(seat) ==
  /\ seat \in Unsteady
  /\ Request(seat, Task("wake", "flow", seat))
  /\ UNCHANGED gateway

\* A bot takes the place of a person whose socket closes; the person gets the
\* place back by joining again.  Nothing is woken for an empty table.
Drop(seat) ==
  /\ seat \in Unsteady \ bots /\ Free("wake")
  /\ bots' = bots \cup {seat}
  /\ botTimer' = FALSE
  /\ IF Humans \subseteq bots' THEN UNCHANGED tasks
     ELSE Begin("wake", Task("wake", "flow", seat))
  /\ UNCHANGED <<row, turn, proposal, decision, resume, overlapped>>

\* Faulty: nothing is woken when a person comes back.
JoinAgainSleeps(seat) ==
  /\ seat \in bots /\ bots' = bots \ {seat}
  /\ UNCHANGED <<row, gateway, tasks, overlapped>>

JoinAgain(seat) ==
  /\ seat \in bots /\ Free("wake")
  /\ bots' = bots \ {seat}
  /\ Begin("wake", Task("wake", "flow", seat))
  /\ UNCHANGED <<row, gateway, overlapped>>

-----------------------------------------------------------------------------
(* Timers *)

BotWakes ==
  /\ botTimer /\ Free("bot")
  /\ botTimer' = FALSE
  /\ Begin("bot", Task("bot", "begin", None))
  /\ UNCHANGED <<row, turn, proposal, decision, resume, bots, overlapped>>

ProposalExpires ==
  /\ proposal # NoProposal /\ Free("proposal")
  /\ Begin("proposal", Task("expire", "read", proposal.seat))
  /\ proposal' = NoProposal
  /\ Overlap("proposal", "expire")
  /\ UNCHANGED <<row, turn, botTimer, decision, resume, bots>>

DecisionExpires ==
  /\ decision.timer /\ Free("decision")
  /\ decision' = [decision EXCEPT !.timer = FALSE]
  /\ Begin("decision", Task("timeout", "check", decision.team))
  /\ Overlap("decision", "timeout")
  /\ UNCHANGED <<row, turn, botTimer, proposal, resume, bots>>

-----------------------------------------------------------------------------
(* The steps of a task *)

\* processBotTurns up to the hand it reads: nobody to play for ends it.
BotLooks(slot, task) ==
  /\ task.pc = "begin"
  /\ botTimer' = FALSE
  /\ IF BotActor(row) = None THEN End(slot) /\ UNCHANGED overlapped
     ELSE /\ Begin(slot, [task EXCEPT !.pc = "decide", !.see = Glance(row),
                                      !.seat = BotActor(row)])
          /\ Overlap(slot, task.kind)
  /\ UNCHANGED <<row, turn, proposal, decision, resume>>

\* createPartnerBetProposal: there is a person beside the bot to ask.
Asks(seat) == Partners(seat) \ bots # {}

\* executeBotTurn reads the hand again; what the bot may choose was settled by
\* the hand it saw.  People bet for a mixed team: its bot advises them on an
\* offer, and proposes a raise of its own instead of asking for it.
BotDecides(slot, task) ==
  LET team == TeamOf(task.seat)
      partner == HasHuman(team)
      Do(kind, pc) ==
        Begin(slot, [Task(kind, pc, task.seat) EXCEPT
                       !.base = IF kind = "play" THEN row ELSE @,
                       !.back = IF kind = "accept" THEN Or(turn, task.seat) ELSE @])
      Bid(rung) == Begin(slot, [Task("ask", "load", task.seat) EXCEPT !.rung = rung])
  IN  /\ task.pc = "decide"
      /\ \/ /\ row.onze = team
            /\ Do("onzeYes", "load") \/ Do("onzeNo", "load")
            /\ UNCHANGED proposal
         \/ /\ row.asked = Other(team) /\ partner
            /\ Do("advise", "ensure")
            /\ UNCHANGED proposal
         \/ /\ row.asked = Other(team) /\ ~partner
            /\ \/ Do("accept", "load") \/ Do("decline", "load")
               \/ \E rung \in Level : MayAsk(task.see, team, rung) /\ Bid(rung)
            /\ UNCHANGED proposal
         \/ /\ row.onze # team /\ row.asked # Other(team)
            /\ \/ Do("play", "load") /\ UNCHANGED proposal
               \/ \E rung \in Level :
                    /\ MayAsk(task.see, team, rung)
                    /\ IF partner /\ Asks(task.seat)
                       THEN End(slot) /\ proposal' = [seat |-> task.seat, rung |-> rung]
                       ELSE ~partner /\ Bid(rung) /\ UNCHANGED proposal
      /\ UNCHANGED <<row, turn, botTimer, decision, resume, overlapped>>

\* The hand read before a card is played, to see later which round it opened.
Read(slot, task) ==
  /\ task.pc = "read"
  /\ Begin(slot, [task EXCEPT !.base = row, !.pc = "load"])
  /\ UNCHANGED <<row, gateway, overlapped>>

\* resolveTeamBetDecisionTimeout: nothing is left to decline.
CheckTimeout(slot, task) ==
  /\ task.pc = "check"
  /\ IF MayAnswer(row, task.seat) THEN Go(slot, task, "load") /\ UNCHANGED decision
     ELSE End(slot) /\ decision' = NoDecision
  /\ UNCHANGED <<row, turn, botTimer, proposal, resume, overlapped>>

\* What the operation makes of the hand it loads; nothing when it is refused.
Outcomes(task) ==
  LET team == TeamOf(task.seat)
      If(allowed, hands) == IF allowed THEN hands ELSE {}
  IN  CASE task.kind \in {"play", "expire"} ->
             If(MayPlay(row, task.seat), Played(row, task.seat))
        [] task.kind \in {"ask", "approve"} ->
             If(MayAsk(row, team, task.rung), {Asked(row, team)})
        [] task.kind = "accept" -> If(MayAnswer(row, team), {Accepted(row, team)})
        [] task.kind = "decline" -> If(MayAnswer(row, team), {OverRow})
        [] task.kind = "timeout" -> If(MayAnswer(row, task.seat), {OverRow})
        [] task.kind = "onzeYes" ->
             If(MayDecideOnze(row, team), {[row EXCEPT !.onze = None]})
        [] task.kind = "onzeNo" -> If(MayDecideOnze(row, team), {OverRow})

\* A use case: load, change, and start to save.  A refusal ends the handler.
Load(slot, task) ==
  /\ task.pc = "load"
  /\ \/ /\ Outcomes(task) = {}
        /\ End(slot)
     \/ \E copy \in Outcomes(task) :
          Begin(slot, [task EXCEPT !.copy = copy, !.pc = "save"])
  /\ UNCHANGED <<row, gateway, overlapped>>

Save(slot, task) ==
  /\ task.pc = "save"
  /\ row' = task.copy
  /\ Begin(slot, [task EXCEPT !.copy = OverRow,
                   !.pc = IF task.kind \in {"play", "expire"} THEN "after" ELSE "then"])
  /\ UNCHANGED <<gateway, overlapped>>

\* After a card: the turn follows from the hand read before and the hand now.
MoveTurn(slot, task) ==
  /\ task.pc = "after"
  /\ turn' = TurnAfterCard(task.base, row, task.seat)
  /\ Begin(slot, [task EXCEPT !.base = OverRow, !.see = Glance(row), !.pc = "pace"])
  /\ UNCHANGED <<row, botTimer, proposal, decision, resume, overlapped>>

\* Once the round has been shown, the next bot is woken: for a person's card by
\* the hand as it is now, for a bot's card by the hand as it was.
Pace(slot, task) ==
  LET seen == IF slot \in Humans /\ task.kind = "play" THEN row ELSE task.see
  IN  /\ task.pc = "pace"
      /\ botTimer' = (botTimer \/ (CardIsNext(seen) /\ turn \in bots))
      /\ End(slot)
      /\ UNCHANGED <<row, turn, proposal, decision, resume, overlapped>>

\* After anything else: what the handler does before it next waits.
Then(slot, task) ==
  /\ task.pc = "then"
  /\ turn' = CASE task.kind = "accept" -> Or(resume, task.back)
               [] task.kind = "onzeYes" -> task.seat
               [] OTHER -> turn
  /\ resume' = CASE task.kind = "ask" -> Or(turn, task.seat)
                 [] task.kind = "approve" -> task.seat
                 [] task.kind \in {"accept", "decline", "timeout"} -> None
                 [] OTHER -> resume
  /\ decision' = IF task.kind \in {"onzeYes", "onzeNo"} THEN decision ELSE NoDecision
  /\ proposal' = IF task.kind = "ask" /\ slot \in Humans THEN NoProposal ELSE proposal
  /\ Begin(slot, Task(task.kind, IF task.kind \in {"ask", "approve"}
                                 THEN "ensure" ELSE "flow", task.seat))
  /\ UNCHANGED <<row, botTimer, overlapped>>

\* Faulty: the decision is remembered and its timer is not armed.
EnsureUntimed(slot, task) ==
  /\ task.pc = "ensure"
  /\ decision' = IF row.live /\ row.asked # None /\ Mixed(Other(row.asked))
                 THEN [team |-> Other(row.asked), rung |-> row.level + 1, timer |-> FALSE]
                 ELSE NoDecision
  /\ IF task.kind = "advise" THEN End(slot) ELSE Go(slot, task, "flow")
  /\ UNCHANGED <<row, turn, botTimer, proposal, resume, overlapped>>

\* ensureMixedTeamBetDecision: a bet on a mixed team gets a decision with a
\* timer; a decision on the same bet keeps the one it has.
Ensure(slot, task) ==
  LET team == Other(row.asked)
      rung == row.level + 1
  IN  /\ task.pc = "ensure"
      /\ decision' =
           IF ~row.live \/ row.asked = None THEN NoDecision
           ELSE IF Len(TurnOrder) = 2 \/ ~Mixed(team) THEN NoDecision
           ELSE IF decision.team = team /\ decision.rung = rung THEN decision
           ELSE [team |-> team, rung |-> rung, timer |-> TRUE]
      /\ IF task.kind = "advise" THEN End(slot) ELSE Go(slot, task, "flow")
      /\ UNCHANGED <<row, turn, botTimer, proposal, resume, overlapped>>

\* The state sent to the players is also the one the bots are woken by.
Flow(slot, task) ==
  /\ task.pc = "flow"
  /\ Begin(slot, [task EXCEPT !.see = Glance(row), !.pc = "arm"])
  /\ UNCHANGED <<row, gateway, overlapped>>

\* Faulty: a bot that owes an answer, and no card, is not woken.
ArmTurnOnly(slot, task) ==
  /\ task.pc = "arm"
  /\ botTimer' = (botTimer \/ (CardIsNext(task.see) /\ turn \in bots))
  /\ End(slot)
  /\ UNCHANGED <<row, turn, proposal, decision, resume, overlapped>>

\* continueAutomaticGameFlow, armPendingBotTurnFromCurrentState and the ends of
\* the handlers that schedule a bot themselves.
Arm(slot, task) ==
  LET person == slot \in Humans
      wakes == CASE task.kind = "accept" /\ person ->
                      CardIsNext(task.see) /\ turn \in bots
                 [] task.kind = "onzeYes" /\ person -> CardIsNext(task.see)
                 [] OTHER -> BotActor(task.see) # None
  IN  /\ task.pc = "arm"
      /\ botTimer' = (botTimer \/ wakes)
      /\ IF task.kind = "accept" /\ person /\ ~wakes
         THEN Begin(slot, Task("wake", "flow", task.seat))
         ELSE End(slot)
      /\ UNCHANGED <<row, turn, proposal, decision, resume, overlapped>>

Step(slot) ==
  /\ ~Free(slot)
  /\ LET task == tasks[slot]
     IN  \/ BotLooks(slot, task) \/ BotDecides(slot, task) \/ Read(slot, task)
         \/ CheckTimeout(slot, task) \/ Load(slot, task) \/ Save(slot, task)
         \/ MoveTurn(slot, task) \/ Pace(slot, task) \/ Then(slot, task)
         \/ Ensure(slot, task) \/ Flow(slot, task) \/ Arm(slot, task)
  /\ UNCHANGED bots

Next ==
  \/ \E seat \in Humans :
       \/ PlayCard(seat) \/ RequestTruco(seat) \/ Raise(seat)
       \/ AcceptBet(seat) \/ DeclineBet(seat)
       \/ AcceptMaoDeOnze(seat) \/ DeclineMaoDeOnze(seat)
       \/ ApproveProposal(seat) \/ RejectProposal(seat)
       \/ GetState(seat) \/ Drop(seat) \/ JoinAgain(seat)
  \/ BotWakes \/ ProposalExpires \/ DecisionExpires
  \/ \E slot \in Slots : Step(slot)

\* A timer fires and an await returns; what people do is up to them.  A closing
\* socket clears the bot's timer before it arms it again, hence the strong
\* fairness: sockets do not close for ever within 2.2 s of each other.
Fairness ==
  /\ SF_vars(BotWakes) /\ WF_vars(ProposalExpires) /\ WF_vars(DecisionExpires)
  /\ \A slot \in Slots : WF_vars(Step(slot))

Spec == Init /\ [][Next]_vars
FairSpec == Spec /\ Fairness

-----------------------------------------------------------------------------
(* What must hold *)

(* The types of the gateway's maps and of the hand it reads.               *)
TypeOK ==
  /\ row \in RowType
  /\ turn \in Seats \cup {None} /\ resume \in Seats \cup {None}
  /\ bots \subseteq Seats /\ botTimer \in BOOLEAN /\ overlapped \in BOOLEAN
  /\ proposal = NoProposal \/ (proposal.seat \in Seats /\ proposal.rung \in 1..MaxLevel)
  /\ decision = NoDecision \/ (decision.team \in Team /\ decision.rung \in 1..MaxLevel)

\* The seats of the k places before a seat.
Before(seat, k) ==
  LET n == Len(TurnOrder)
      i == CHOOSE p \in DOMAIN TurnOrder : TurnOrder[p] = seat
  IN  {TurnOrder[((i - 1 - j) % n) + 1] : j \in 1..k}

(* Between operations the turn is where the cards on the table put it: the *)
(* seats before it, in table order, are the ones that have played in the   *)
(* open round, and who took the last round opens this one.  So it never    *)
(* rests on a seat whose card would be refused, whoever raised, answered,  *)
(* dropped out, came back or reloaded meanwhile.                           *)
TurnFollowsCards ==
  (~overlapped /\ CardIsNext(row) /\ \A s \in Slots : ~Operating(s)) =>
    /\ turn \in Seats
    /\ row.played = Before(turn, Cardinality(row.played))
    /\ row.taken \in Seats => turn = row.taken

\* Bounds the exploration to operations that do not overlap.
Apart == ~overlapped

\* Bounds the exploration to one operation at a time, proposals apart.
OneOperation == \A s, t \in Slots : Operating(s) /\ Operating(t) => s = t

\* A bot is to play, to answer, or to advise those who answer, and somebody is
\* there to see it.
BotIsDue == row.live /\ BotActor(row) # None /\ ~(Humans \subseteq bots)

\* A handler that will find the bot that is due before it ends: it has yet to
\* read the hand, or what it has read is the hand as it is.
Attends(slot, task) ==
  \/ task.pc \in {"begin", "decide", "check", "read", "load", "save", "after",
                  "then", "flow"}
  \/ /\ task.pc = "ensure"
     /\ task.kind = "advise" => row.asked # None /\ Mixed(Other(row.asked))
  \/ /\ task.pc = "pace" /\ CardIsNext(row)
     /\ CardIsNext(task.see) \/ (slot \in Humans /\ task.kind = "play")
  \/ /\ task.pc = "arm" /\ task.see = Glance(row)
     /\ slot \in Humans /\ task.kind = "onzeYes" => CardIsNext(row)

\* The bet waits for a mixed team, and the timer that declines it runs.
DecisionRuns ==
  /\ row.asked # None /\ Mixed(Other(row.asked))
  /\ decision = [team |-> Other(row.asked), rung |-> row.level + 1, timer |-> TRUE]

Attended ==
  \/ botTimer \/ proposal # NoProposal \/ DecisionRuns
  \/ \E slot \in Slots : Attends(slot, tasks[slot])

(* Whenever a bot is due something will make it act: its timer or that of  *)
(* the decision it gave advice on, a proposal that will be answered or     *)
(* expire, or a handler that has not looked yet.  Every way out of every   *)
(* handler, a refusal and a closed socket too, hands this on.              *)
DueBotIsAttended == BotIsDue /\ ~overlapped => Attended

WaitsForBot == BotIsDue /\ (row.asked # None => ~HasHuman(Other(row.asked)))

(* A bot never leaves the table hanging: whenever the hand waits for one,  *)
(* every path that gave it the turn has woken it, or it waits for its      *)
(* partner's answer with a timer running, and the hand gets past the bots. *)
BotsMoveOn == WaitsForBot ~> (~WaitsForBot \/ overlapped)

BetWaits(team) ==
  /\ row.live /\ row.asked = Other(team)
  /\ \E s \in bots : TeamOf(s) = team
  /\ ~(Humans \subseteq bots)

(* A bet put to a team with a bot is answered, by the bots, by a person or *)
(* by the timer that declines for a mixed team: it does not wait for good. *)
BetIsAnswered == \A team \in Team : BetWaits(team) ~> (~BetWaits(team) \/ overlapped)

(* An accepted bet gives the turn back to the seat it interrupted: nobody  *)
(* plays while a bet waits, so the answer leaves the turn where it is.     *)
AcceptResumesTurn ==
  [][\A slot \in Slots :
       (tasks[slot].pc = "then" /\ tasks[slot].kind = "accept" /\ Step(slot))
         => turn' = turn]_vars

=============================================================================
