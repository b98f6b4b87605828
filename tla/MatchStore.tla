------------------------------ MODULE MatchStore ------------------------------
(***************************************************************************)
(* The stored match and the use cases that change it                       *)
(* (src/application/use-cases, PrismaMatchRepository).  Each loads the     *)
(* whole match, changes its own copy and saves the whole copy, awaiting    *)
(* the load and the save, and nothing checks that the row is still the one *)
(* it loaded: requests, bots and timers of one table may do so at once.    *)
(*                                                                         *)
(* Match's variables are the columns of the row; its operators make the    *)
(* copies.  A command the aggregate refuses throws and saves nothing.      *)
(***************************************************************************)
EXTENDS Match

CONSTANTS
  Handlers,     \* bound: the use cases under way at once
  MaxCommands   \* bound: the commands given in all

ASSUME StoreAssumption == MaxCommands \in Nat

VARIABLES
  tasks,   \* per handler: the copy it saves, and the commands that led to it
  given,   \* history: how many commands have been given
  log,     \* history: the commands whose effects are in the stored match
  solo     \* history: the commands saved while no other save was under way

storeVars == <<state, score, hand, tasks, given, log, solo>>

-----------------------------------------------------------------------------

Idle == [pc |-> "idle"]

Saving(h) == tasks[h].pc = "saving"

\* What resolveFinishedHandIfNeeded makes of a copy whose hand is now g.
Settled(g) ==
  LET total == [score EXCEPT ![g.winner] = @ + g.awarded]
  IN  IF ~g.finished THEN [state |-> state, score |-> score, hand |-> g]
      ELSE [ state |-> IF \E t \in Team : total[t] >= PointsToWin
                       THEN "finished" ELSE "waiting",
             score |-> total, hand |-> g ]

With(g) == [state |-> state, score |-> score, hand |-> g]

\* The handler has loaded the row and changed its copy to m.
Changed(h, m) ==
  /\ tasks[h] = Idle /\ given < MaxCommands
  /\ given' = given + 1
  /\ tasks' = [tasks EXCEPT ![h] = [ pc |-> "saving", id |-> given', match |-> m,
                                     log |-> log \cup {given'} ]]
  /\ UNCHANGED <<state, score, hand, log, solo>>

\* A match in progress is not started again, but saved as it was.
StartHandUseCase(h) ==
  \/ /\ state = "waiting"
     /\ \E deal \in Deals :
          Changed(h, [With(InitialHand(deal, score)) EXCEPT !.state = "in_progress"])
  \/ state = "in_progress" /\ Changed(h, With(hand))

PlayCardUseCase(h) ==
  /\ state = "in_progress"
  /\ \E owner \in Owners, card \in Card :
       MayPlay(hand, owner, card) /\ Changed(h, Settled(AfterPlay(hand, owner, card)))

\* request-truco, raise-to-six, raise-to-nine and raise-to-twelve.
RequestBetUseCase(h) ==
  /\ state = "in_progress"
  /\ \E team \in Team, v \in {3, 6, 9, 12} :
       MayRequest(hand, team, v) /\ Changed(h, With(AfterRequest(hand, team, v)))

AcceptBetUseCase(h) ==
  /\ state = "in_progress"
  /\ \E team \in Team :
       MayAnswer(hand, team) /\ Changed(h, With(AfterAccept(hand, team)))

DeclineBetUseCase(h) ==
  /\ state = "in_progress"
  /\ \E team \in Team :
       MayAnswer(hand, team) /\ Changed(h, Settled(AfterDecline(hand)))

AcceptMaoDeOnzeUseCase(h) ==
  /\ state = "in_progress"
  /\ \E team \in Team :
       MayDecideOnze(hand, team) /\ Changed(h, With(AfterAcceptOnze(hand)))

DeclineMaoDeOnzeUseCase(h) ==
  /\ state = "in_progress"
  /\ \E team \in Team :
       MayDecideOnze(hand, team) /\ Changed(h, Settled(AfterDeclineOnze(hand, team)))

\* What a save does besides the row: the handler goes on to its answer.
Saved(h) ==
  /\ tasks' = [tasks EXCEPT ![h].pc = "answering"]
  /\ log' = tasks[h].log
  /\ solo' = IF \E other \in Handlers \ {h} : Saving(other) THEN solo
             ELSE solo \cup {tasks[h].id}
  /\ UNCHANGED given

\* Faulty: the score has a query of its own, which may not come to run.
SaveScoreApart(h) ==
  /\ Saving(h)
  /\ state' = tasks[h].match.state /\ hand' = tasks[h].match.hand
  /\ score' \in {score, tasks[h].match.score}
  /\ Saved(h)

\* Faulty: a save whose acknowledgement is lost is sent once more.
SaveAgain(h) ==
  /\ tasks[h].pc \in {"saving", "answering"}
  /\ state' = tasks[h].match.state
  /\ score' = tasks[h].match.score
  /\ hand' = tasks[h].match.hand
  /\ Saved(h)

\* One update writes every column.
Save(h) ==
  /\ Saving(h)
  /\ state' = tasks[h].match.state
  /\ score' = tasks[h].match.score
  /\ hand' = tasks[h].match.hand
  /\ Saved(h)

\* The answer is sent, or the save failed and an error is.
Answer(h) ==
  /\ tasks[h] # Idle
  /\ tasks' = [tasks EXCEPT ![h] = Idle]
  /\ UNCHANGED <<state, score, hand, given, log, solo>>

StoreInit ==
  /\ Init
  /\ tasks = [h \in Handlers |-> Idle]
  /\ given = 0 /\ log = {} /\ solo = {}

StoreNext ==
  \E h \in Handlers :
    \/ StartHandUseCase(h) \/ PlayCardUseCase(h) \/ RequestBetUseCase(h)
    \/ AcceptBetUseCase(h) \/ DeclineBetUseCase(h)
    \/ AcceptMaoDeOnzeUseCase(h) \/ DeclineMaoDeOnzeUseCase(h)
    \/ Save(h) \/ Answer(h)

StoreSpec == StoreInit /\ [][StoreNext]_storeVars

-----------------------------------------------------------------------------
(* What must hold *)

(* Whatever use cases overlap, and whichever saves last, the stored match  *)
(* is one the rules allow: bets, special hands and rounds fit together,    *)
(* the match is in progress exactly while its hand is live, and only one   *)
(* team has won, at once.                                                  *)
StoredMatchSound ==
  /\ StateInvariants /\ LadderInv /\ EndsWhenSecured
  /\ HandOpenIffInProgress /\ OneWinner /\ SpecialHandFitsScore

(* A save may undo the commands of others, and bring back some that had    *)
(* been undone, but a command that was saved while no other save was under *)
(* way is in the match for good.                                           *)
SoloCommandsStay == solo \subseteq log
=============================================================================
