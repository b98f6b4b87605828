------------------------------- MODULE Signals -------------------------------
(***************************************************************************)
(* Partner signals in a 2v2 match (src/gateway/game.gateway.ts): what a    *)
(* person tells its bot partner, what the bot says back, and which of it a *)
(* bot's decision finds and uses up.  Signals expire, are superseded, go   *)
(* with their round or their hand, and are consumed; a cooldown limits how *)
(* often one is repeated.  A person's message waits for the stored match   *)
(* between the cooldown's check and its signal, while all of this goes on. *)
(*                                                                         *)
(* One team of a person and a bot.  The other team's signals lie in the    *)
(* same list but are read and removed by their own sender, so only its     *)
(* bots' decisions matter here: there is one record of the last decision.  *)
(* A signal may be about manilhas; the person has one or has none.         *)
(***************************************************************************)
EXTENDS Integers

CONSTANTS
  Slots,           \* bound: the person's messages under way at once
  Kinds,           \* what the person may send
  Greetings, Advice,   \* what the bot may say of its cards, of a bet
  Ttl, Cooldown,   \* PARTNER_SIGNAL_TTL_MS, PARTNER_SIGNAL_COOLDOWN_MS
  MaxTalk,         \* bound: messages and the bot's turns, in all
  MaxTime, MaxHands, MaxRounds   \* bounds

Scope(kind) ==
  CASE kind \in {"hold", "kill-round", "low-card"} -> "round-tactic"
    [] kind \in {"pressure", "avoid-bet"} -> "bet-intent"
    [] OTHER -> "hand-memory"

ASSUME SignalAssumption ==
  /\ Cooldown \in Nat \ {0} /\ Ttl \in Nat /\ Cooldown <= Ttl
  /\ {MaxTalk, MaxTime, MaxHands, MaxRounds} \subseteq Nat
  /\ \A kind \in Greetings : Scope(kind) = "hand-memory"
  /\ \A kind \in Advice : Scope(kind) = "bet-intent"

VARIABLES
  now,
  hand, round, live,   \* the stored match: its hands so far, round, being played
  dealt, manilha,      \* the person was dealt a manilha in this hand, still has one
  starting,            \* how far start-hand has come: "no", "saved", "cleared"
  closing,             \* a round is over and its handler has not said so yet
  signals, cooldown,   \* partnerSignalsByMatch, partnerSignalCooldownBySeat
  messages,            \* per slot, a send-partner-signal under way
  turn,                \* the bot's turn: what it decides, whether it heard
  proposal,            \* its bet proposal: "none", "pending", "approved", "rejected"
  heard,               \* lastBotDecision named the person's signal
  talk                 \* how many messages and turns there have been

vars == <<now, hand, round, live, dealt, manilha, starting, closing, signals,
          cooldown, messages, turn, proposal, heard, talk>>

table == <<hand, round, live, dealt, manilha, starting, closing>>
bot == <<turn, proposal, heard>>

Talk == talk < MaxTalk /\ talk' = talk + 1

Quiet == [who \in {"human", "bot"} |-> [k \in Kinds \cup Advice |-> 0]]

Idle == [step |-> "idle"]

Init ==
  /\ now = 1 /\ hand = 0 /\ round = 1 /\ live = FALSE
  /\ dealt = FALSE /\ manilha = FALSE
  /\ starting = "no" /\ closing = FALSE
  /\ signals = {} /\ cooldown = Quiet
  /\ messages = [i \in Slots |-> Idle]
  /\ turn = Idle /\ proposal = "none" /\ heard = FALSE /\ talk = 0

-----------------------------------------------------------------------------
(* The list *)

\* A signal, with the hand it was said in, the round if it is about one, and
\* which of them was left behind while its message was under way.
Signal(from, kind, at, h, r, past) ==
  [from |-> from, kind |-> kind, at |-> at, hand |-> h, round |-> r, past |-> past]

\* clearExpiredPartnerSignals
Fresh(S) == {x \in S : x.at + Ttl > now}

\* rememberPartnerSignal
Remembered(x) ==
  {y \in Fresh(signals) : y.from # x.from \/ Scope(y.kind) # Scope(x.kind)} \cup {x}

\* clearPartnerSignalsByScope, after a round
WithoutTactics == {x \in Fresh(signals) : Scope(x.kind) # "round-tactic"}

\* What a decision that was carried out uses up of the person's signals.
Unconsumed(scope) ==
  {x \in signals : ~(heard /\ x.from = "human" /\ Scope(x.kind) = scope)}

RoundOf(kind) == IF Scope(kind) = "round-tactic" THEN round ELSE 0

\* Faulty: having no manilha can be said by who has one.
ValidUnlessClaimed(kind) == kind = "has-manilha" => manilha

\* validatePartnerSignalAgainstHand
Valid(kind) ==
  /\ kind = "has-manilha" => manilha
  /\ kind = "no-manilha" => ~manilha

-----------------------------------------------------------------------------
(* send-partner-signal *)

\* The cooldown is looked at when the message arrives.  "alone" is history: no
\* other message was under way at any time with it.
AskSignal(i, kind) ==
  /\ Talk /\ messages[i] = Idle /\ cooldown["human"][kind] <= now
  /\ LET others == {j \in Slots : messages[j] # Idle}
     IN  messages' = [j \in Slots |->
           IF j = i THEN [step |-> "asked", kind |-> kind, at |-> now, alone |-> others = {}]
           ELSE IF j \in others THEN [messages[j] EXCEPT !.alone = FALSE]
           ELSE messages[j]]
  /\ UNCHANGED <<now, signals, cooldown, table, bot>>

\* The stored match, as it is when it is read.
ReadHand(i) ==
  /\ messages[i].step = "asked"
  /\ LET m == messages[i]
     IN  messages' = [messages EXCEPT ![i] =
           IF live /\ Valid(m.kind)
           THEN [ step |-> "read", kind |-> m.kind, at |-> m.at, alone |-> m.alone,
                  hand |-> hand, round |-> RoundOf(m.kind), past |-> {} ]
           ELSE Idle]
  /\ UNCHANGED <<now, signals, cooldown, table, bot, talk>>

\* Faulty: no cooldown is noted.
RememberFree(i) ==
  /\ messages[i].step = "read"
  /\ LET m == messages[i]
     IN  signals' = Remembered(Signal("human", m.kind, m.at, m.hand, m.round, m.past))
  /\ messages' = [messages EXCEPT ![i] = Idle]
  /\ UNCHANGED <<now, cooldown, table, bot, talk>>

RememberSignal(i) ==
  /\ messages[i].step = "read"
  /\ LET m == messages[i]
     IN  /\ signals' = Remembered(Signal("human", m.kind, m.at, m.hand, m.round, m.past))
         /\ cooldown' = [cooldown EXCEPT !["human"][m.kind] = m.at + Cooldown]
  /\ messages' = [messages EXCEPT ![i] = Idle]
  /\ UNCHANGED <<now, table, bot, talk>>

\* A message that has read the match is left behind by the clearing of "hand",
\* or of "round" if it is about one.
Overtaken(what) ==
  [i \in Slots |->
     LET m == messages[i]
     IN  IF m.step = "read" /\ (what = "round" => m.round # 0)
         THEN [m EXCEPT !.past = @ \cup {what}] ELSE m]

-----------------------------------------------------------------------------
(* The hand *)

\* A card is saved: a manilha may go, the round or the hand may end.
Card(who) ==
  /\ live /\ ~closing
  /\ manilha' \in IF who = "human" THEN {FALSE, manilha} ELSE {manilha}
  /\ \E ends \in {"nothing", "round", "hand"} :
       /\ ends = "round" => round < MaxRounds
       /\ closing' = (ends # "nothing") /\ live' = (ends # "hand")
       /\ round' = IF ends = "round" THEN round + 1 ELSE round
  /\ UNCHANGED <<hand, dealt, starting>>

PlayCard ==
  Card("human") /\ UNCHANGED <<now, signals, cooldown, messages, bot, talk>>

\* Cards of the other team end rounds, too, and a declined bet ends the hand.
OthersPlay ==
  /\ live /\ ~closing
  /\ \E ends \in {"round", "hand", "bet"} :
       /\ ends = "round" => round < MaxRounds
       /\ closing' = (ends # "bet") /\ live' = (ends = "round")
       /\ round' = IF ends = "round" THEN round + 1 ELSE round
  /\ UNCHANGED <<now, hand, dealt, manilha, starting, signals, cooldown, messages, bot, talk>>

\* The card's handler goes on: the turn moves and tactics of the round go.
EndRound ==
  /\ closing /\ closing' = FALSE
  /\ signals' = WithoutTactics /\ messages' = Overtaken("round")
  /\ UNCHANGED <<now, hand, round, live, dealt, manilha, starting, cooldown, bot, talk>>

\* start-hand saves the match.  One that read it before the hand began goes
\* through as well, and starts nothing.
SaveHand ==
  /\ starting = "no" /\ starting' = "saved"
  /\ \/ /\ ~live /\ hand < MaxHands
        /\ hand' = hand + 1 /\ round' = 1 /\ live' = TRUE
        /\ dealt' \in BOOLEAN /\ manilha' = dealt'
     \/ live /\ UNCHANGED <<hand, round, live, dealt, manilha>>
  /\ UNCHANGED <<now, closing, signals, cooldown, messages, bot, talk>>

\* clearPartnerSignals
ClearSignals ==
  /\ starting = "saved" /\ starting' = "cleared"
  /\ signals' = {} /\ cooldown' = Quiet
  /\ proposal' = IF proposal = "pending" THEN "none" ELSE proposal
  /\ heard' = FALSE /\ messages' = Overtaken("hand")
  /\ UNCHANGED <<now, hand, round, live, dealt, manilha, closing, turn, talk>>

\* emitInitialBotPartnerSignals: the bot says how good its cards are, or nothing.
Greet ==
  /\ starting = "cleared" /\ starting' = "no"
  /\ \/ \E kind \in Greetings :
          signals' = Remembered(Signal("bot", kind, now, hand, 0, {}))
     \/ signals' = signals
  /\ UNCHANGED <<now, hand, round, live, dealt, manilha, closing, cooldown, messages, bot, talk>>

-----------------------------------------------------------------------------
(* The bot *)

\* buildBotDecisionContext: its card is asked for, or its answer to a bet.
BotLooks ==
  /\ Talk /\ turn = Idle /\ live /\ ~closing
  /\ signals' = Fresh(signals)
  /\ \E what \in {"round-tactic", "bet-intent"} :
       turn' = [step |-> "looked", what |-> what,
                hears |-> \E x \in signals' : /\ x.from = "human"
                                              /\ Scope(x.kind) \in {what, "hand-memory"}]
  /\ UNCHANGED <<now, table, cooldown, messages, proposal, heard>>

\* tryEmitBotPartnerBetAdviceSignal
Advise(kind) ==
  IF \/ \E x \in Fresh(signals) : x.from = "bot" /\ x.kind = kind
     \/ cooldown["bot"][kind] > now
  THEN signals' = Fresh(signals) /\ UNCHANGED cooldown
  ELSE /\ signals' = Remembered(Signal("bot", kind, now, hand, 0, {}))
       /\ cooldown' = [cooldown EXCEPT !["bot"][kind] = now + Cooldown]

\* executeBotTurn: a bet is its partner's to answer and a raise its partner's to
\* approve; the bot advises.  A card it will play.
BotDecides ==
  /\ turn.step = "looked" /\ heard' = turn.hears
  /\ \/ /\ \E kind \in Advice : Advise(kind)
        /\ turn' = Idle
        /\ proposal' = IF turn.what = "bet-intent" THEN proposal ELSE "pending"
     \/ /\ turn.what = "round-tactic" /\ turn' = [step |-> "playing"]
        /\ UNCHANGED <<signals, cooldown, proposal>>
  /\ UNCHANGED <<now, table, messages, talk>>

\* A card that is refused, because the hand has gone on, uses nothing up.
BotPlays ==
  /\ turn.step = "playing" /\ turn' = Idle
  /\ \/ Card("bot") /\ signals' = Unconsumed("round-tactic")
     \/ (~live \/ closing) /\ UNCHANGED <<table, signals>>
  /\ UNCHANGED <<now, cooldown, messages, proposal, heard, talk>>

AnswerProposal ==
  /\ proposal = "pending" /\ proposal' \in {"approved", "rejected"}
  /\ UNCHANGED <<now, table, signals, cooldown, messages, turn, heard, talk>>

\* executePartnerBetProposalAction
ProposedBet ==
  /\ proposal = "approved" /\ proposal' = "none"
  /\ signals' = IF live THEN Unconsumed("bet-intent") ELSE signals
  /\ UNCHANGED <<now, table, cooldown, messages, turn, heard, talk>>

\* rejectPartnerBetProposalById: the card it would have played instead.
FallbackCard ==
  /\ proposal = "rejected" /\ proposal' = "none"
  /\ \/ Card("bot") /\ signals' = Unconsumed("round-tactic")
     \/ (~live \/ closing) /\ UNCHANGED <<table, signals>>
  /\ UNCHANGED <<now, cooldown, messages, turn, heard, talk>>

\* The last decision is another bot's, which had nobody's signals to hear.
RivalDecides ==
  /\ live /\ heard /\ heard' = FALSE
  /\ UNCHANGED <<now, table, signals, cooldown, messages, turn, proposal, talk>>

Tick ==
  /\ now < MaxTime /\ now' = now + 1
  /\ UNCHANGED <<table, signals, cooldown, messages, bot, talk>>

Next ==
  \/ \E i \in Slots :
       \/ \E kind \in Kinds : AskSignal(i, kind)
       \/ ReadHand(i) \/ RememberSignal(i)
  \/ PlayCard \/ OthersPlay \/ EndRound \/ SaveHand \/ ClearSignals \/ Greet
  \/ BotLooks \/ BotDecides \/ BotPlays
  \/ AnswerProposal \/ ProposedBet \/ FallbackCard \/ RivalDecides \/ Tick

Spec == Init /\ [][Next]_vars

-----------------------------------------------------------------------------
(* What must hold *)

(* What the bot can hear fits the hand it plays: a signal left from an     *)
(* earlier hand or round was overtaken by it on its way, a person who said *)
(* to have a manilha was dealt one, and one who said to have none has      *)
(* none, also after cards have been played.                                *)
SignalsFitTheHand ==
  \A x \in signals :
    /\ x.hand # hand => starting = "saved" \/ "hand" \in x.past
    /\ x.hand = hand =>
         /\ x.from = "human" /\ x.kind = "has-manilha" => dealt
         /\ x.from = "human" /\ x.kind = "no-manilha" => ~manilha
         /\ Scope(x.kind) = "round-tactic" /\ x.round # round =>
              closing \/ "round" \in x.past

(* Unless two messages were under way together, a signal is replaced by a  *)
(* later one only, and by the same one only after the cooldown.            *)
ReplacedInTurn ==
  [][\A i \in Slots :
       messages[i] # Idle /\ messages[i].alone /\ messages'[i] = Idle =>
         \A x \in signals' \ signals, y \in signals \ signals' :
           y.from = x.from /\ Scope(y.kind) = Scope(x.kind) =>
             y.at + (IF y.kind = x.kind THEN Cooldown ELSE 0) <= x.at]_vars
=============================================================================
