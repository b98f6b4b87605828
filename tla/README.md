# Truco Paulista in TLA+

The server of this repository plays Truco Paulista: a domain model of the game
(`src/src/domain`), use cases that load, change and save it (`src/src/application`,
`src/src/infrastructure/persistence`) and a socket gateway (`src/src/gateway`) that seats
players, keeps sessions over reconnections, plays bots' turns, runs timers and pairs players
in queues. This directory specifies the part of it that decides what happens at a table,
checks it with TLC on small instances and proves the main results with TLAPS for every value
of the constants.

Paths below are relative to the repository (`domain/...` is `src/domain/...` and so on).

## 1. Inventory

### Card rules and rounds (`domain/services/truco-rules.ts`, `domain/entities/round.ts`)
No state beyond a round's plays. A round takes one play per seat (two or four), finds the
best plays by comparing each card with the first of the best so far, and gives a team or a
tie; it also keeps a second representation, one card per team. Hard: the rank order wraps
when the vira is a 3, cards of a manilha's rank are ordered by suit and all others tie, and
in 2v2 a partner's level card is not a tie of teams.
*Correct when* the result is that of the strongest cards whatever the order of play, a
manilha is never tied, the leader of the next round is the first player of the strongest
card, and the two representations agree.

### Match and hand (`domain/entities/match.ts`, `domain/entities/hand.ts`, `domain/value-objects`)
State: score, target, the hand's value, pending offer, who may raise, special hand, pending
mao de onze decision, cards left per seat, rounds, winner. Operations: start, play, request
truco/6/9/12, accept, decline, accept or decline a mao de onze. Every operation that may end
a hand also pays it. Hard: a negotiation is spread over several fields and operations (a
counter-raise accepts the offer it answers), the end of a hand depends on the order of ties,
special hands on both scores.
*Correct when* the ladder is climbed step by step and alternately, a hand ends exactly when
it is decided and goes to the right team, is paid once with the value last agreed, cards are
neither lost nor doubled, and one team at most reaches the target.

### Room manager (`gateway/multiplayer/room-manager.ts`)
State: rooms (mode, entries of seats, turn, whether a hand has begun, a reserved seat,
flexible or not), sessions by socket, sessions by player and match kept over a disconnect,
the rating mark. Operations: join, select-seat, set-ready, leave, leave on disconnect, bot
fill, begin a hand, advance or set the turn. All of them synchronous.
*Correct when* a player plays through one socket, a session and the entry of its seat are the
same person's, nobody is unseated by a newcomer, and a table that plays has somebody to play
each seat.

### Gateway (`gateway/game.gateway.ts`)
State, per match: start locks, the timer of the next bot turn, the bot's proposal that waits for
its human partner (with a timer), the decision a mixed team owes to a bet (with a timer), the
seat that gets the turn back after a bet. Handlers run interleaved at every `await`: profile
lookups, loads and saves of the match, pauses that let the table see a card. The gateway calls
the room manager for seats and turns and the use cases for the game, and broadcasts views. Hard:
what a handler read before an await is stale after it; a socket may close, a timer fire or a
second request arrive in between; a bot moves only if some path has armed its timer.
*Correct when* between operations the turn is where the cards on the table put it, a hand that
waits for a bot goes on, a bet put to a team with a bot is answered, and an accepted bet gives
the turn back to the seat it interrupted.

### Use cases and repository (`application/use-cases`, `infrastructure/persistence/prisma`)
Each loads the match, calls one operation and saves the result, with awaits in between and no
version check: of two in flight the later save wins, and the earlier command is gone although
it was acknowledged. *Correct when* what is stored is a legal match whatever overlaps, and a
command that was saved while no other save was under way is never undone.

### Partner signals (`gateway/game.gateway.ts`)
State, per match: the signals of a person and its bot partner, each with the time it ends, the
hand's round it is about and its sender; a cooldown per seat and kind; the last decision of a
bot, with the signal it heard. Operations: send a signal (checked, then the stored match is
awaited, then remembered), greet at the start of a hand, advise on a bet, clear at the start of
a hand and at the end of a round, use up what a decision heard. Hard: four things end a signal,
on different paths, while a message is waiting for the match.
*Correct when* what the bot can hear fits the hand it plays, and a signal gives way only to a
later one, to the same one only after the cooldown.

### Matchmaking (`gateway/matchmaking`)
State: a queue per mode, pending offers to play a bot instead. Operations: join, leave, expire,
find a pair, complete it, take up or decline the offer. The match is created in the database
between finding a pair and removing it from its queue; a join and a seat wait for a profile.
Waiting too long is noticed only when somebody asks something.
*Correct when* a player has one place over all queues and offers, nobody sits and waits at once,
and two who wait in one queue do not wait side by side.

### Ratings (`UpdateRatingUseCase`, `finalizeMatchIfFinished`, the room manager's mark)
State: the mark that a match was rated (dropped with its room), the profiles. Several handlers
may see the same match finished; the mark is set before the record is saved, the players are
looked up after it; profiles are read and saved one by one.
*Correct when* a match goes into a profile once at most, no result is lost, and a profile is one
that some sequence of results leads to.

### Socket rate limit (`gateway/security/socket-rate-limit.guard.ts`)
State: hits and block per client. A guard of the whole application (`app.module.ts:22`): every
message passes it, a disconnect does not. *Correct when* no window holds more served events than
allowed, a refused client waits as long as it was told and no longer than it earned, and
compacting the table changes none of this.

### Views (`application/mappers/match-to-view-match-state.mapper.ts`)
No state. From a snapshot: the actions a viewer is offered, the decision the table waits for,
the cards the viewer may see. *Correct when* what is offered is what the match accepts, the
decision named has a team that can take it, and a hand stays hidden from the other seats.

### The rest
Bots that choose among legal moves (heuristics in TypeScript, a service in Python),
authentication, profiles and rankings (database queries), HTTP and start-up, and a frontend of
some 40,000 lines of TypeScript that renders what it is sent.

How parts interact: `gateway -> room manager` (method calls), `gateway -> use case ->
repository -> match` (awaited), `gateway -> matchmaking` (method calls, then table handlers),
`timers -> gateway` (callbacks). Only the gateway knows both the room and the match; nothing
keeps the two in one transaction. `PROJECT.json` lists every component and every hazard at
its line.

## 2. Modules

| module | models | proved in |
| --- | --- | --- |
| `TrucoRules` | card order, results of rounds and hands, as operators; reference definitions to compare them with | `RoundProofs`, `MatchProofs` |
| `Round` | a round as a state machine: plays in any order | `RoundProofs` |
| `Match` | the aggregate: match, hand and rounds, one action per operation | `MatchProofs` |
| `Scoreboard` | what players see of a match: score, value, offer | |
| `MatchRefinement` | the mapping by which `Match` implements `Scoreboard` | `MatchProofs` |
| `MatchView` | what a viewer is offered and shown, read beside `Match` | `MatchProofs` |
| `MatchStore` | the stored match under use cases that overlap: load, change a copy, save the whole copy | `MatchProofs` |
| `RoomManager` | rooms, sessions, bots, and the gateway's handlers that use them | `RoomManagerProofs` |
| `Table` | a hand as the gateway plays it: requests, bots, proposals, team decisions, timers | `TableProofs` |
| `Signals` | what a person and its bot partner tell each other, how long it counts and what uses it up | `SignalsProofs` |
| `Matchmaking` | queues, pairing, offers, seating of a pair | `MatchmakingProofs` |
| `Ratings` | what a finished match does to its players | `RatingsProofs` |
| `RateLimit` | the sliding window and the block | `RateLimitProofs` |
| `MCRound`, `MCMatch`, `MCMatchStore`, `MCRoomManager`, `MCTable`, `MCSignals`, `MCMatchmaking`, `MCRatings`, `MCRateLimit` | the instances TLC checks | |

**TrucoRules.** A rank is its index in `RANKS` (0 is a 4, 9 is a 3), a suit a letter; a card
is a record. `BestPlays`, `RoundResult`, `WinningOwner`, `TeamBest` and `HandWinner` follow
the code's loops as folds or sets. The reference they are compared with is `Strength`, one
number per card, the set of strongest plays it defines, and `Verdict`, the winner of a full
hand by counting rounds.

**Match.** `hand` is one record with the fields of `hand.ts`, `NoHand` before the first
start. Owners are the two players in 1v1, the four seats in 2v2, where `playerOneHand` and
`playerTwoHand` are copies of the hands of T1A and T2A, made anew after every play, and so no state
of their own. Every action is a command
that either team may send at any time; a command the code refuses by throwing is a command
that is not enabled, because the use case then saves nothing. Each action includes the
settlement (`Resolve`) that follows it in the code. A deal is any vira with three different
cards per owner; shuffling is not modelled. The match does not know whose turn it is: that is
the gateway's, so in a run with four seats `SeatsInOrder` restricts plays to the table's order
(this keeps the run small; in 1v1 plays come in any order).

**Scoreboard** is what players are promised, without cards: teams bid in turn, one rung at a
time, nobody bids in a mao de onze, a bid over an open offer agrees to it first, a refused
offer goes to its bidder at the value before it, and each hand pays what it is worth to one
team, once. `Match` implements it under the mapping of `MatchRefinement`, which reads the last
bidder off the offer or, once it is agreed, off the right to raise that the other team got.

**MatchStore.** `state`, `score` and `hand`, `Match`'s variables, are the columns of the row. A
use case in a handler loads the row and makes its copy with `Match`'s operators in one step
(`PlayCardUseCase` and the others: nothing is awaited between the load and the change), saves the
copy in the next (`Save`, one update of every column, as the repository writes it) and answers.
A save may fail: `Answer` then follows without it. `log` and `solo` are history: the commands
whose effects are in the row (a save brings back the log of its copy), and those saved while no
other handler was saving. `MatchStore` says of every overlap what `Table` leaves aside.

**RoomManager.** `rooms[m]` is `ensureRoom`'s record, `seats` a function from seats to entries
(human, bot or vacant), `sessions` and `stored` are `sessionsBySocketId` and
`sessionByTokenAndMatch`. The stored match is reduced to `hand`: absent, none (created), live,
over (a hand has ended). Room-manager methods are atomic, as in the code; handlers are cut at
the awaits where something changes:

* creating a match or a room, then waiting for the player's profile, then the join
  (`Create`/`AskJoin`, `FinishJoin`): the socket may close in between, and the join then goes
  on without it;
* a start: the stored match is read, checks and lock follow, the started match is saved, the
  hand begins, the lock is released (`ReadForStart`, `CheckStart`, `SaveStart`, `BeginHand`,
  `EndStart`).

`PassTurn` and `EndHand` stand for the card and bet handlers: any seat the room manager
accepts may get the turn, any hand may end. A finished match is not modelled here: `EndHand`
can always be followed by another start.

**MatchView** has operators only. It extends `Match`, so a run of `Match` checks the view in
every state: `OffersAreLegal` and `NothingWithheld` compare what is offered with what the
actions' guards accept, `DecisionHasItsTeam` and `HandsStayHidden` are about what a viewer is
told. With no viewer the mapper shows every hand; the gateway never sends such a view as it is
(`toPublicMatchState`, game.gateway.ts:1742-1771, masks it), so viewers here are seats.

**Table** is the gateway while a hand is played. It composes the room manager's turn and seats
with the part of the match the gateway can tell apart: who has played in the open round, whose
bet waits at which rung, who owes a mao de onze decision, who took the last round. Cards are
left out, so a full round may go to any seat or be tied. `turn`, `proposal`, `decision`, `resume` and `botTimer`
are the gateway's maps. A handler is a *task* in a slot, one per person (a client awaits its
answer) and one each for bot turns, the two timers and the reconnection path; its `pc` says
between which awaits it is:

* a card: `Read`, `Load`, `Save`, `MoveTurn`, `Pace`;
* a bet, an answer, a mao de onze decision: `Load`, `Save`, `Then`, (`Ensure`), `Flow`, `Arm`;
* a bot turn: `BotLooks`, `BotDecides`, then as a card or a bet;
* a team's timeout: `CheckTimeout`, then as a declined bet; an expired or rejected proposal: as
  a card of the bot that proposed.

Two assumptions. Bot turns of a match run one at a time: a turn is paced at 2050 ms, the next is
due 2200 ms after it was armed. A request passes the checks made on arrival in the state it
arrives in; requests the handler refuses change nothing and are not steps. `overlapped` is a
history variable: an operation on the hand began while another was under way. The repository
keeps the later save then, so nothing can be promised; the properties are about the executions
without it (constraint `Apart`), in which everything else still interleaves: timers, reloads, dropped sockets, bots woken
twice, and what follows a save.

**Signals.** `signals` is `partnerSignalsByMatch` for one team of a person and a bot, `cooldown`
`partnerSignalCooldownBySeat`. A message is cut at its await: `AskSignal` looks at the cooldown,
`ReadHand` reads the match and checks the signal against the hand, `RememberSignal` replaces
what the sender said before of the same scope and notes the cooldown. A bot's turn is cut
between looking, deciding and playing; a proposal waits for its answer. Starting a hand is
`SaveHand`, `ClearSignals`, `Greet`; the end of a round reaches the list only when the card's
handler goes on (`EndRound`). The stored match is reduced to its hand, its round, and whether
the person has a manilha; bets only end hands. Two history fields: `alone` of a message, no
other was under way with it, and `past` of a signal, the hand or round that was cleared while
its message was under way. `heard` says whether the last decision of any bot of the match
named the person's signal: that is how the code finds what to use up.

**Matchmaking.** `lobby` is the queue manager's two maps. A queue is a set of entries with
`joinedAt`; `FindPair` takes the neighbours of the least spread of ratings, as the policy does.
`AskJoin` and `FinishJoin` are cut at the profile; `Created` and `CreateFails` at the
match's creation, `Assign` and `AssignFails` at each seat. `TakeSeat` stands for any other way to a table (join-match, create-match).
Two history variables name what the code does not exclude: `crossed` (two pairings of one queue
at once, or one that failed), `late` (a socket seated at one table while its pairing, join or offer was
under way).

**Ratings.** A handler that sees a match finished marks it (`MarkApplied`), saves the record
(`SaveRecord`), then reads and saves the profiles of whoever is at the table then. `reopened`
remembers matches whose room was deleted, with its mark, and made anew by a join; `crossed` the
users whose profile was read while another match's save was pending.

**RateLimit.** One step per message; a client is what the code's tracker key makes of a socket.
`served` and `told` are history: what was let through, and the time the last refusal named.

## 3. Runs

| run | checks | shows |
| --- | --- | --- |
| `Round2v2` | `ResultIsStrongest`, `LeaderPlayedStrongestFirst`, `ShownCardsAgree` | the result of a round is right for every order of play, partners' level cards included |
| `Match1v1` | `TypeOK`, `LadderInv`, `EndsWhenSecured`, `OneWinner`, `SpecialHandFitsScore`, `OffersAreLegal`, `NothingWithheld`, `DecisionHasItsTeam`, `ImplementsScoreboard` | the aggregate over several hands to 12 points, every negotiation, special hands, and the view of every state |
| `Match2v2` | `CardsConserved`, `LiveHandPlayable`, `HandsStayHidden` | four seats: cards per seat, hands never stuck, hands hidden |
| `MatchStore` | `StoredMatchSound`, `SoloCommandsStay` | use cases that overlap lose commands, but leave a legal match, and never undo a command saved by itself |
| `Rooms` | `TypeOK`, `OneSessionPerPlayer`, `AgreementLostOnlyTo`, `AgreedTableKept`, `SeatPassesOnlyToReturning` | sessions and seats part in two known ways only; until then a table keeps its seats; newcomers, moves and reservations unseat nobody |
| `TableDuel` | `TypeOK`, `DueBotIsAttended`, `BotsMoveOn` | a person and a bot, with reloads, drops and returns at any time: something is always on its way to wake the bot, and the bot acts |
| `TableFour` | `TurnFollowsCards`, `BetIsAnswered` | the turn is where the cards put it, and bets are answered: a person with a bot partner against two bots: proposals, team decisions and both timers |
| `TableResume` | `AcceptResumesTurn` (violated) | an accepted bet can give the turn back to a bot that has played |
| `Signals` | `SignalsFitTheHand`, `ReplacedInTurn` | what a bot can hear fits its hand and round, unless the message was overtaken by the next one; signals give way in turn |
| `Matchmaking` | `OnePlacePerPlayer`, `SeatedIsNotWaiting`, `NoIdlePair`, `PairIsServed` | one place per player, pairs are served, whatever closes or fails |
| `Ratings` | `CreditedOnce`, `NoResultLost`, `ProfileAddsUp` | a match is rated once, results are lost only across one another |
| `RateLimit` | `TypeOK`, `WindowHolds`, `WaitIsKept`, `BlockIsEarned` | the window holds and blocks are earned, compaction or not |

**Bounds, and why they are enough.**
* `Round2v2`: four seats and six cards, two suits of the ranks 4, 2 and 3, with a 2 and a 3
  turned up. They hold both a plain and a wrapping manilha, ties within a team and across
  teams, and manilhas of two suits. The comparison of two cards is settled for the whole deck
  by `CompareIsStrength`.
* `Match1v1`: two deals, one in which every round is open to both teams (with a manilha), one
  in which three ties are possible; scores start at 9 or 11 each, so that every special hand, a
  decided match and matches that need several hands occur with the real target of 12.
* `Match2v2`: one deal, target 1, one hand: the subject is the four seats' cards and rounds.
* `MatchStore`: three use cases at once, four commands in all (symmetric handlers), on a match that
  P1 enters with eleven points and P2 with nine or eleven: one command decides a mao de onze, ends
  a hand or the match, so an old copy can meet every kind of newer row. Two overlapping saves
  suffice to lose a command; the third brings one back.
* `Rooms`: two players, one with a second socket, suffice for a stale session, a displaced bot
  and a reconnection, for a reserved seat and for a newcomer; a 1v1 room for two humans, private,
  flexible and bot-filled 2v2 rooms. First hands are started in 1v1 rooms only
  (`FirstHandsIn1v1`), 2v2 rooms are there for their seats. `Starters`, `Moves` and `Again` bound
  who asks for starts, which seats are asked for and joins of a socket already seated. A socket
  connects and closes once. What the run shows here for two players is proved for
  any number where section 4 says so.
* Table: `Unsteady` says who may reload, drop out and return; `MaxLevel` 2 gives truco, a raise
  over it and a right to raise back (the ladder's upper rungs repeat these and are checked to
  the top in `Match1v1`); `MaxRounds` 3 in the duel, 2 with four seats (a hand then ends in the
  second round or never opens a third); `Onzes` the teams that may owe a mao de onze decision.
  `TableResume` explores one operation at a time (`OneOperation`) and stops at its counterexample.
* `Signals`: two messages or bot's turns in all (`MaxTalk`), which may overlap, two hands, two
  rounds, a clock to 3 with a lifetime of 2 and a cooldown of 1, so that a signal may be repeated,
  expire, or arrive in the next hand; one kind per scope, and both kinds about manilhas.
* Matchmaking: three players of two ratings, the first with two windows, so that the nearest
  pair is not always the first; two matches made at once (`Jobs`); the clock goes one past the longest
  wait; four requests in all (`MaxRequests`), of the joins in `Joins`.
* Ratings: two users who meet, one of whom also plays a second match; two handlers see the first
  match finished (`Slots`); people come and go in the first (`Restless`); ratings start at the floor
  (`Start`), where the floor matters.
* RateLimit: two clients, two events per two units of time, a block of three, a table compacted
  as soon as both are in it; six units of time let a client be blocked, freed and blocked again.

**Deadlock** is not checked: a finished match refuses every command, a round that is complete
takes no play, when every socket has closed no request comes, and clocks and request counts are
bounded. These are states in which the system really stops.

**Fairness.** `Table`: an await returns, so `WF` of each task's step; a timer fires, so `WF` of
`ProposalExpires` and `DecisionExpires`. The bot's timer gets `SF`: a closing socket clears it
and arms it anew, so it is not enabled continuously, but sockets do not close for ever within
2.2 s of each other. Nothing is assumed of people. `Matchmaking`: `WF` of the steps of a match
being made, because the database answers or fails. `BotsMoveOn` and `BetIsAnswered` end when
the table has no person left and stop promising when operations overlap.

**Findings.** `TableResume` contradicts game.gateway.ts:1827 ("Accepted bets must resume the
interrupted card turn, not the requesting seat"): while a bot's proposal waits for its partner,
a reload or a reconnection (`GetState`, `JoinAgain`) wakes the bot, which plays its card; the approval then remembers the bot's
seat as the one to resume, its card is refused, and the table stops.

Met while modelling, and visible in the modules, without a run of their own:
* a mao de ferro can be raised like any hand, against docs/phase-17.md:69-70 (`Match`,
  `RequestBet`);
* the automatic start of a flexible room (get-state) can begin a first hand with an empty seat,
  and a next hand starts without a disconnected human; start-hand has other gates than
  get-state (`CheckStart`);
* a returning player may find the room new, and its seat another's, against docs/phase-13.md:111
  (`JoinAnew`);
* a live table can lose a seat, against room-manager.ts:817-819 ("A leaving human becomes a bot in
  the same seat"): a session outlives its seat, and its disconnect removes the bot that plays there
  (`DroppedBy`); under the conditions of `AgreedTableKept` a table does keep its seats;
* a signal sent while a new hand starts can be remembered after that hand's clearing (`past`);
* a second start can choose an opener again in a running hand (`BeginHand`);
* the queue's expiry runs only within requests, and the client does not poll get-queue-state,
  so an offer to somebody who waits alone may never come, against docs/phase-13.md:40-46 (`Expire`);
* when a player's profile cannot be read at a new table, whoever of the pair is not seated yet stays
  unseated, and out of the queue (`AssignFails`);
* the rating mark goes with the room, so a match reopened after its end can be rated twice
  (`reopened`), and two matches that end together can lose a result (`crossed`), against
  docs/phase-3.md:55 and docs/phase-5.md:37.

## 4. Proofs

All theorems hold for every value of the constants that satisfies the module's assumption: for
every deal, target, number of rounds, seats, players, sockets, matches, handlers and clocks, not
only those of the runs. No leaf is left open. Every invariant and every safety action property a
passing run checks is also a theorem; the runs show on an instance that the formula is not
vacuous and that a faulty definition breaks it, the proofs that no larger instance differs.
The assumptions are types of the constants, and in `Ratings` that matches are finite in number.

**RoundProofs.** On the card order: `CompareIsStrength`, the code's comparison is that of one
number per card, for every vira, so it is a total preorder and the loop of `BestPlays` may
compare with the first best only; `TieIsEqualRank`, cards that are not both one manilha tie only
on equal ranks below the manilha. On the round: `ResultsAreStrongest`, `LeadersAreFirst` and
`ShownCardsDecide`, for any cards and any order of play. The loops are folds. A fold over a
sequence is a fold over its indices, whose values on the first k plays are one function of k
(`BestFoldExists`, `TeamFoldExists`); what holds of every prefix is then shown by induction on
k, as the least k for which it fails (`UpTo`). The best plays of a prefix are the strongest, in
order of play (`BestPlaysAreTops`); a team's shown card is its first strongest (`TeamBestIsTop`).
`IInv` adds that every owner plays once.

**MatchProofs.** `HandWinnerSecured`: the code's table for ends of hands is "no further round
could change it". On the match: the inductive invariant `IInv` is `TypeOK`, `HandOK` (types,
ladder and rounds of a hand), `HandOpenIffInProgress`, `OneWinner` and `SpecialHandFitsScore`.
`StateInvariants` (the code's own `assertStateInvariants`) is not inductive: it does not bind
the pending offer to the value it raises, nor the right to raise to who made the last offer;
the ladder does. `RoundsOK` says that a live hand's finished rounds leave it undecided, without
which a play could not be shown to end the hand in time, and that the rounds of a hand whose last
round is over are those that decide it, so that none ends early. From it: `TypeCorrect`,
`LadderHolds`, `AssertionsHold`, `EndsCorrectly`, `PaidOnce` (each step: a hand that ends is paid
then, at the value agreed before, and the score is left alone otherwise), `SingleWinner`, `SpecialHands`,
and `MatchImplementsScoreboard`, the refinement, step by step.
*Cards.* `CInv` adds `CardsOK`: cards in hand and cards played are three per owner and apart,
nobody plays twice in a round. It gives `CardsKept`, and, with the count of plays in finished
rounds (each owner one), `HandsGoOn`: who has not played in an open round has a card left.
*View.* From `IInv`: `OfferedIsAccepted` and `AcceptedIsOffered`, so the buttons a player is
shown are the commands the match takes; `DecisionHasATeam`, where a card to play is `HandsGoOn`;
from `CInv`, `ViewsHideHands`.
*Store.* `Sound` is `IInv` of any row, and `StoreInv` says it of the row and of every copy, with
two facts about history: whoever is saving has in its copy's log its own command and all that
were saved alone, and the row's log has those too. `SoloCommandsStay` by itself is not inductive:
a save replaces the log by its copy's, so the copies must be known to contain the solo commands.
One lemma per kind of copy (a live hand, a settled one, a new hand) carries the lemmas on `Match`
from the row to the copy. From it: `StoredSound` and `SoloStays`, for any number of handlers and
commands.

**RoomManagerProofs.** `IInv` is `Typed` (types of all maps, pending joins and starts
included), `SessionsFit` (a session's socket and token are its keys, and the socket's session
equals the stored one) and `RoomsFit` (no room and no session before a match is created, a
pending private join is of a 2v2 room, and a stored session's seat is a seat of its room).
`OneSessionPerPlayer` alone is not inductive: a rejoin clears the socket named *in* the stored
session, which frees the right one only if that name is the key; and a seat can be looked up in
its room only by `RoomsFit`, which in turn needs to know that a room that is deleted and made
anew is a 2v2 one, with every seat there is. One lemma per action; joins, requests of a seated
socket and steps that touch no session share `JoinedKeeps`, `OwnStepKeeps` and
`TableStepKeeps`. From it: `TypeCorrect`, `SessionsAgree`, and `TableKeptWhileAgreed`, whose
step case is that a connected player of an agreed match has its own entry (`OwnEntry`), so the
branch that removes a bot's entry is not taken. `SeatsPassToReturning` and `AgreementIsKept` need
`TokensFit` besides: an entry's socket is its token's own, and so is a stored session's. Every
action is then shown to keep it and to change no seat and no agreement but as the properties allow
(`SeatsKept`): what differs is the seat of a join (a stored seat, a reserved one or a free one),
and an entry that a join takes from a bot, the one way for agreement to go while the room stays.

**TableProofs.** Types first (`TInv`): a hand whose offer leaves a rung to raise to, a mao de onze
that is decided before anything else, and tasks that act for a seat (a timeout for a team) at the
`pc`s their kind passes (`Acts`). On the turn, `TurnFollowsCards` says nothing while an operation
is under way, so it is far from inductive. `AInv` has three cases: operations have overlapped;
or nobody operates on the hand (`Quiet`), the turn fits the cards, a pending bet will give the
turn back to the seat that has it, and a proposal is of the seat whose turn it is; or one handler
operates (`Busy`), no proposal waits, and `OpOK` says what that handler knows at its `pc`. Until it
saves, the hand is the one it began with and a card it plays is the turn's; between its save and
its move of the turn, the stored hand is one its card leads to, or what its bet or answer makes of
the hand. Steps then are of four kinds, with a lemma each: of no operation (`AsideStep`), the
beginning of one (`Begins`), within one (`OpStep`), its end (`EndStep`). The heart is
`TurnMoves`: who is before the next seat by k + 1 places is who was before this one by k, and this
seat (`BeforeNext`), at both tables. From it: `TableTypes`, `TurnsFollow`.
*Bots.* `DueBotIsAttended` is what liveness rests on: while a bot is to play, to answer or to
advise, its timer, its proposal, the decision it advises on or a handler that has yet to look is
there. An operation that is refused ends its handler without looking, so by itself this is not
inductive. `KInv` adds that, unless operations have overlapped, no refusal comes: what a handler
has decided is still allowed (`Ready`), a proposal may be made a bet (`Proposed`), a decision is
about the bet that waits or is about to be dropped (`Dated`), and one whose timer does not run has
its timeout under way (`Armed`). `More` says of the hand what these need: a mao de onze takes no
bets, after it is decided too, and a full round is closed. One lemma per action; those that change
neither hand nor bots share `StepKnown` and `StillAttended`. From it: `BotsAreAttended`.

**SignalsProofs.** `FitInv` is the types, "a manilha is known only of a dealt hand", and two
facts of the same shape: what is in the list fits the hand and round it was said in, and a
message that has read the match fits them as the signal it will become (`OnTheirWay`). The
second is what is missing from `SignalsFitTheHand`: a message is put into the list a step after
it was read. `TurnInv` adds that a person's signal has noted its cooldown and is not from the
future (`Noted`), and that a message that runs alone came after everything the person has said
(`Alone`). From them `WhatIsHeardFits` and `SignalsInTurn`, for any number of signals.

**MatchmakingProofs.** `OnePlacePerPlayer` over both maps is inductive once the lobby's types are
with it (`LobbyOK`); one lemma per manager operation says that it keeps it, and the handlers are
compositions of these. `PInv` adds the matches being made, and the two facts the other properties
are without: a socket that is seated, and was not while something of it was under way, is at rest
(`AtRest`); and of two entries in one queue every pairing of that queue knows (`Attended`: while
one is being made, whoever waits is to be seated by it, and after it at most one is left).
`PairsAreSought` follows from the second, `SeatedApart` from the first, for any number of players,
windows, modes and matches being made.

**RatingsProofs.** `MatchOK`, of a match whose room was not reopened: a handler that rates it, and
a profile it was put into, imply that the mark is set or the room gone, so that nobody else
starts; one handler rates it at most, and the profiles it has been put into are no longer among
those this handler has to save. From it `RatedOnce`. `ProfilesOK` adds that every profile, and
every profile a handler has read, is sound, and, for users whose matches were not rated across one
another, that what a handler is about to replace is what is stored, and nobody else is about to
(`Exact`). From it `ProfilesAddUp` and `ResultsKeptCount`; the sum over matches is a fold over a
set, and changes by one where one of its terms does (`SumBumped`, by the smallest set for which
it would not).

**RateLimitProofs.** `Good`, of a client's entry, says what the table may not forget: it remembers
every event served within the window, its other hits are those that started blocks and are as
old as these, and a running block is the one the client was told of. An absent entry is a fresh
one, and `IdleNeedsNothing` says that only entries with nothing to remember are compacted. `IInv`
is `Good` of every client with the window's bound. From it: `TypeCorrect`, `WindowIsKept`,
`WaitRespected`, `BlocksEarned`, for every window, limit, block and threshold.

**Only model-checked.** Liveness under fairness (`PairIsServed`, `BotsMoveOn`, `BetIsAnswered`):
this prover has neither fairness nor `ENABLED`. `AcceptResumesTurn`, which does not hold. The
library's induction theorems take an operator as a parameter and cannot be used here: an
induction goes through the least counterexample instead (`WFMin` on prefixes and on subsets), and
no module that is proved about declares a recursive operator.

## 5. What is not modelled

* In `Table`, what follows two overlapping commands on one match: it knows when it happens
  (`overlapped`) and promises nothing from there on. `MatchStore` says what holds of the stored
  match then; the lost command itself is lost, in the code as in the module.
* Between partners, which manilha a person holds (one or none), the debug records of signals,
  and the signals of the other team, which never meet these.
* The start of a hand is in `RoomManager`, not in `Table`, which begins with one.
* Shuffling (any deal), broadcasts (functions of the state), display data of seats and bot
  profiles, metrics, logs, errors sent to a client (steps that change nothing).
* Bots' choices: any legal move. The heuristics score moves; no property here tells one legal
  move from another.
* Identity, profiles, rankings, HTTP and start-up: single database queries and wiring.
* The frontend: some 40,000 of the repository's 59,600 lines of implementation, nearly all of
  it layout, style and labels, with no state of the game of its own. It is the reason why
  the modules stand for a small share of the repository's lines.

## 6. Plan

1. The frontend's felt (`useMatchTableTransition.ts`): how long a resolved round stays on the
   table while newer states arrive.
2. The start of a hand in `Table`, so that the turn is followed from hand to hand.
3. Two tables with signals of both teams, and the bots' reading of them.
4. Proofs: that `Attended` makes progress, as a measure over the handlers' steps that every step
   of an attending handler decreases, so that of the liveness properties only fairness is left to
   the runs; and the same safety beneath `PairIsServed`.
