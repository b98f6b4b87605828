----------------------------- MODULE SignalsProofs -----------------------------
(* What the bot can hear fits its hand, and signals give way in turn, for  *)
(* any number of messages, kinds, hands, rounds, lifetimes and cooldowns.  *)
EXTENDS Signals, TLAPS

Past == SUBSET {"hand", "round"}

SignalType == [from : {"human", "bot"}, kind : Kinds \cup Advice \cup Greetings,
               at : Nat, hand : Nat, round : Nat, past : Past]

Asked == [step : {"asked"}, kind : Kinds, at : Nat, alone : BOOLEAN]

Read == [step : {"read"}, kind : Kinds, at : Nat, alone : BOOLEAN,
         hand : Nat, round : Nat, past : Past]

Typed ==
  /\ now \in Nat /\ hand \in Nat /\ round \in Nat \ {0}
  /\ signals \subseteq SignalType
  /\ cooldown \in [{"human", "bot"} -> [Kinds \cup Advice -> Nat]]
  /\ messages \in [Slots -> {Idle} \cup Asked \cup Read]

\* What the hand, the round and the person's cards owe to a signal of this kind
\* said in hand h and round r.
Fits(from, kind, h, r, past) ==
  /\ h <= hand
  /\ h # hand => starting = "saved" \/ "hand" \in past
  /\ h = hand =>
       /\ from = "human" /\ kind = "has-manilha" => dealt
       /\ from = "human" /\ kind = "no-manilha" => ~manilha
       /\ Scope(kind) = "round-tactic" /\ r # round => closing \/ "round" \in past

Heard(S) == \A x \in S : Fits(x.from, x.kind, x.hand, x.round, x.past)

\* A message that has read the match must fit as the signal it becomes.
OnTheirWay(ms) ==
  \A i \in Slots : ms[i].step = "read" =>
    /\ Fits("human", ms[i].kind, ms[i].hand, ms[i].round, ms[i].past)
    /\ Scope(ms[i].kind) = "round-tactic" => ms[i].round # 0

FitInv ==
  /\ Typed
  /\ manilha => dealt
  /\ Heard(signals) /\ OnTheirWay(messages)

-----------------------------------------------------------------------------
LEMMA FitInit == Init => FitInv
<1> SUFFICES ASSUME Init PROVE FitInv
  OBVIOUS
<1>1. Typed
  BY DEF Init, Typed, Quiet, Idle
<1>2. Heard(signals) /\ (manilha => dealt)
  BY DEF Init, Heard
<1>3. OnTheirWay(messages)
  BY DEF Init, OnTheirWay, Idle
<1> QED BY <1>1, <1>2, <1>3 DEF FitInv

LEMMA FewerHeard ==
  ASSUME NEW S, NEW T, S \subseteq T, Heard(T)
  PROVE  Heard(S)
BY DEF Heard

-----------------------------------------------------------------------------
(* Steps of the hand *)

\* The hand goes on, or a new one begins and its start has not cleared yet.
MovesOn ==
  /\ hand' \in Nat /\ round' \in Nat \ {0}
  /\ manilha' => dealt'
  /\ \/ /\ hand' = hand /\ dealt' = dealt /\ (manilha' => manilha)
        /\ starting = "saved" => starting' = "saved"
        /\ closing => closing'
        /\ round' # round => closing'
     \/ hand' > hand /\ starting' = "saved"

LEMMA FitsStill ==
  ASSUME FitInv, MovesOn, NEW from, NEW kind, NEW h \in Nat, NEW r, NEW past,
         Fits(from, kind, h, r, past)
  PROVE  Fits(from, kind, h, r, past)'
BY DEF FitInv, Typed, MovesOn, Fits

LEMMA HeardStill ==
  ASSUME FitInv, MovesOn, NEW S \in SUBSET SignalType, Heard(S)
  PROVE  Heard(S)'
<1> SUFFICES ASSUME NEW x \in S
             PROVE  Fits(x.from, x.kind, x.hand, x.round, x.past)'
  BY DEF Heard
<1>1. x.hand \in Nat /\ Fits(x.from, x.kind, x.hand, x.round, x.past)
  BY DEF Heard, SignalType
<1> QED BY <1>1, FitsStill

LEMMA OnTheirWayStill ==
  ASSUME FitInv, MovesOn, NEW ms \in [Slots -> {Idle} \cup Asked \cup Read],
         OnTheirWay(ms)
  PROVE  OnTheirWay(ms)'
<1> SUFFICES ASSUME NEW i \in Slots, ms[i].step = "read"
             PROVE  /\ Fits("human", ms[i].kind, ms[i].hand, ms[i].round, ms[i].past)'
                    /\ Scope(ms[i].kind) = "round-tactic" => ms[i].round # 0
  BY DEF OnTheirWay
<1>1. ms[i].hand \in Nat
  BY DEF Idle, Asked, Read
<1>2. /\ Fits("human", ms[i].kind, ms[i].hand, ms[i].round, ms[i].past)
      /\ Scope(ms[i].kind) = "round-tactic" => ms[i].round # 0
  BY DEF OnTheirWay
<1> QED BY <1>1, <1>2, FitsStill

\* A step of the hand that says nothing and may use signals up.
LEMMA HandStep ==
  ASSUME FitInv, MovesOn, now' \in Nat, signals' \subseteq signals,
         messages' = messages, cooldown' = cooldown
  PROVE  FitInv'
<1>1. Typed'
  BY DEF FitInv, Typed, MovesOn
<1>2. Heard(signals)'
  BY HeardStill, FewerHeard DEF FitInv, Typed
<1>3. OnTheirWay(messages)'
  <2>1. messages \in [Slots -> {Idle} \cup Asked \cup Read] /\ OnTheirWay(messages)
    BY DEF FitInv, Typed
  <2>2. OnTheirWay(messages')
    BY <2>1
  <2>3. messages' \in [Slots -> {Idle} \cup Asked \cup Read]
    BY <2>1
  <2> QED BY <2>2, <2>3, OnTheirWayStill
<1> QED BY <1>1, <1>2, <1>3 DEF FitInv, MovesOn

LEMMA CardMovesOn ==
  ASSUME FitInv, NEW who, Card(who)
  PROVE  MovesOn
<1>1. /\ hand' = hand /\ dealt' = dealt /\ starting' = starting /\ ~closing
      /\ manilha' => manilha
      /\ round' = round \/ (round' = round + 1 /\ closing')
  <2>1. PICK ends \in {"nothing", "round", "hand"} :
          /\ closing' = (ends # "nothing")
          /\ round' = IF ends = "round" THEN round + 1 ELSE round
    BY DEF Card
  <2>2. round' = round \/ (round' = round + 1 /\ closing')
    BY <2>1
  <2>3. manilha' => manilha
    BY DEF Card
  <2> QED BY <2>2, <2>3 DEF Card
<1>2. hand \in Nat /\ round \in Nat \ {0} /\ (manilha => dealt)
  BY DEF FitInv, Typed
<1>3. hand' \in Nat /\ round' \in Nat \ {0}
  BY <1>1, <1>2
<1> QED BY <1>1, <1>2, <1>3 DEF MovesOn

-----------------------------------------------------------------------------
(* Messages, the bot's signals, and what clears them *)

LEMMA FewerSignals ==
  ASSUME FitInv, signals' \subseteq signals,
         UNCHANGED <<table, messages>>, now' \in Nat,
         cooldown' \in [{"human", "bot"} -> [Kinds \cup Advice -> Nat]]
  PROVE  FitInv'
<1>1. Typed'
  BY DEF FitInv, Typed, table
<1>2. Heard(signals')
  BY FewerHeard DEF FitInv
<1>3. Heard(signals)'
  BY <1>2 DEF Heard, Fits, table
<1>4. OnTheirWay(messages)'
  BY DEF FitInv, OnTheirWay, Fits, table
<1> QED BY <1>1, <1>3, <1>4 DEF FitInv, table

LEMMA OneMoreSignal ==
  ASSUME FitInv, NEW x \in SignalType, Fits(x.from, x.kind, x.hand, x.round, x.past),
         signals' = Remembered(x)
  PROVE  /\ signals' \subseteq SignalType
         /\ Heard(signals')
<1>1. signals' \subseteq signals \cup {x}
  BY DEF Remembered, Fresh
<1> QED BY <1>1 DEF FitInv, Typed, Heard

LEMMA AskStep ==
  ASSUME FitInv, NEW i \in Slots, NEW kind \in Kinds, AskSignal(i, kind)
  PROVE  FitInv'
<1> DEFINE m == [step |-> "asked", kind |-> kind, at |-> now,
                 alone |-> {j \in Slots : messages[j] # Idle} = {}]
<1>1. m \in Asked /\ m.step = "asked"
  BY DEF FitInv, Typed, Asked
<1>2. \A j \in Slots : \/ messages'[j] = m
                       \/ messages'[j] = messages[j]
                       \/ messages[j] # Idle /\ messages'[j] = [messages[j] EXCEPT !.alone = FALSE]
  BY DEF AskSignal
<1> HIDE DEF m
<1>3. \A j \in Slots :
        \/ messages'[j] = m \/ messages'[j] = messages[j]
        \/ /\ messages[j] # Idle
           /\ messages'[j] \in Asked \cup Read
           /\ messages'[j].step = messages[j].step
           /\ messages[j].step = "read" =>
                /\ messages'[j].kind = messages[j].kind
                /\ messages'[j].hand = messages[j].hand
                /\ messages'[j].round = messages[j].round
                /\ messages'[j].past = messages[j].past
  <2> SUFFICES ASSUME NEW j \in Slots, messages[j] # Idle,
                      messages'[j] = [messages[j] EXCEPT !.alone = FALSE]
               PROVE  /\ messages'[j] \in Asked \cup Read
                      /\ messages'[j].step = messages[j].step
                      /\ messages[j].step = "read" =>
                           /\ messages'[j].kind = messages[j].kind
                           /\ messages'[j].hand = messages[j].hand
                           /\ messages'[j].round = messages[j].round
                           /\ messages'[j].past = messages[j].past
    BY <1>2
  <2>1. messages[j] \in Asked \cup Read
    BY DEF FitInv, Typed
  <2>2. CASE messages[j] \in Asked
    BY <2>2 DEF Asked
  <2>3. CASE messages[j] \in Read
    BY <2>3 DEF Read
  <2> QED BY <2>1, <2>2, <2>3
<1>4. messages' \in [Slots -> {Idle} \cup Asked \cup Read]
  <2>1. messages' = [j \in Slots |-> messages'[j]]
    BY DEF AskSignal
  <2> QED BY <1>1, <1>3, <2>1 DEF FitInv, Typed
<1>5. /\ now' = now /\ signals' = signals /\ cooldown' = cooldown
      /\ hand' = hand /\ round' = round /\ dealt' = dealt /\ manilha' = manilha
      /\ starting' = starting /\ closing' = closing
  BY DEF AskSignal, table
<1>6. Typed'
  BY <1>4, <1>5 DEF FitInv, Typed
<1>7. Heard(signals)'
  BY <1>5 DEF FitInv, Heard, Fits
<1>8. OnTheirWay(messages)'
  <2> SUFFICES ASSUME NEW j \in Slots, messages'[j].step = "read"
               PROVE  /\ Fits("human", messages[j].kind, messages[j].hand,
                               messages[j].round, messages[j].past)'
                      /\ Scope(messages'[j].kind) = "round-tactic" => messages'[j].round # 0
    BY DEF OnTheirWay
  <2>1. /\ messages[j].step = "read"
        /\ messages'[j].kind = messages[j].kind /\ messages'[j].hand = messages[j].hand
        /\ messages'[j].round = messages[j].round /\ messages'[j].past = messages[j].past
    BY <1>1, <1>3
  <2> QED BY <1>5, <2>1 DEF FitInv, OnTheirWay, Fits
<1> QED BY <1>5, <1>6, <1>7, <1>8 DEF FitInv

LEMMA ReadStep ==
  ASSUME FitInv, NEW i \in Slots, ReadHand(i)
  PROVE  FitInv'
<1> DEFINE m == messages[i]
           n == [ step |-> "read", kind |-> m.kind, at |-> m.at, alone |-> m.alone,
                  hand |-> hand, round |-> RoundOf(m.kind), past |-> {} ]
<1>1. m \in Asked
  BY DEF ReadHand, FitInv, Typed, Idle, Read
<1>2. n \in Read
  BY <1>1 DEF FitInv, Typed, Asked, Read, RoundOf, Past
<1>3. /\ now' = now /\ signals' = signals /\ cooldown' = cooldown
      /\ hand' = hand /\ round' = round /\ dealt' = dealt /\ manilha' = manilha
      /\ starting' = starting /\ closing' = closing
  BY DEF ReadHand, table
<1>4. \/ messages' = [messages EXCEPT ![i] = Idle]
      \/ messages' = [messages EXCEPT ![i] = n] /\ Valid(m.kind)
  BY DEF ReadHand
<1>5. Typed'
  BY <1>2, <1>3, <1>4 DEF FitInv, Typed
<1>6. Heard(signals)'
  BY <1>3 DEF FitInv, Heard, Fits
<1>7. Valid(m.kind) =>
        /\ Fits("human", n.kind, n.hand, n.round, n.past)
        /\ Scope(n.kind) = "round-tactic" => n.round # 0
  BY DEF FitInv, Typed, Valid, Fits, RoundOf
<1> HIDE DEF n
<1>8. OnTheirWay(messages)'
  <2> SUFFICES ASSUME NEW j \in Slots, messages'[j].step = "read"
               PROVE  /\ Fits("human", messages[j].kind, messages[j].hand,
                               messages[j].round, messages[j].past)'
                      /\ Scope(messages'[j].kind) = "round-tactic" => messages'[j].round # 0
    BY DEF OnTheirWay
  <2>1. \/ messages'[j] = messages[j]
        \/ messages'[j] = n /\ Valid(m.kind)
    BY <1>4 DEF FitInv, Typed, Idle
  <2> QED BY <1>3, <1>7, <2>1 DEF FitInv, OnTheirWay, Fits
<1> QED BY <1>3, <1>5, <1>6, <1>8 DEF FitInv

LEMMA RememberStep ==
  ASSUME FitInv, NEW i \in Slots, RememberSignal(i)
  PROVE  FitInv'
<1> DEFINE m == messages[i]
           x == Signal("human", m.kind, m.at, m.hand, m.round, m.past)
<1>1. m \in Read /\ m.step = "read"
  BY DEF RememberSignal, FitInv, Typed, Idle, Asked
<1>2. x \in SignalType
  BY <1>1 DEF Signal, SignalType, Read
<1>3. Fits(x.from, x.kind, x.hand, x.round, x.past)
  BY <1>1 DEF FitInv, OnTheirWay, Signal
<1>4. signals' \subseteq SignalType /\ Heard(signals')
  BY <1>2, <1>3, OneMoreSignal DEF RememberSignal
<1>5. /\ now' = now /\ hand' = hand /\ round' = round /\ dealt' = dealt
      /\ manilha' = manilha /\ starting' = starting /\ closing' = closing
      /\ messages' = [messages EXCEPT ![i] = Idle]
  BY DEF RememberSignal, table
<1>6. cooldown' \in [{"human", "bot"} -> [Kinds \cup Advice -> Nat]]
  <2>1. cooldown' = [cooldown EXCEPT !["human"][m.kind] = m.at + Cooldown]
    BY DEF RememberSignal
  <2>2. m.at + Cooldown \in Nat
    BY <1>1, SignalAssumption DEF Read
  <2> QED BY <2>1, <2>2 DEF FitInv, Typed
<1>7. Typed'
  BY <1>4, <1>5, <1>6 DEF FitInv, Typed
<1>8. Heard(signals)'
  BY <1>4, <1>5 DEF Heard, Fits
<1>9. OnTheirWay(messages)'
  BY <1>5 DEF FitInv, Typed, OnTheirWay, Fits, Idle
<1> QED BY <1>5, <1>7, <1>8, <1>9 DEF FitInv

\* A message on its way is left behind as a whole.
LEMMA OvertakenKeeps ==
  ASSUME FitInv, NEW what \in {"hand", "round"}, messages' = Overtaken(what)
  PROVE  /\ messages' \in [Slots -> {Idle} \cup Asked \cup Read]
         /\ \A i \in Slots :
              \/ messages'[i] = messages[i] /\ (messages[i].step = "read" =>
                                                  what = "round" /\ messages[i].round = 0)
              \/ /\ messages'[i].step = "read" /\ messages[i].step = "read"
                 /\ messages'[i].kind = messages[i].kind
                 /\ messages'[i].hand = messages[i].hand
                 /\ messages'[i].round = messages[i].round
                 /\ messages'[i].past = messages[i].past \cup {what}
                 /\ messages'[i].at = messages[i].at
                 /\ messages'[i].alone = messages[i].alone
                 /\ messages'[i] \in Read
<1>1. ASSUME NEW m \in Read
      PROVE  LET n == [m EXCEPT !.past = @ \cup {what}]
             IN  /\ n \in Read /\ n.step = "read" /\ m.step = "read"
                 /\ n.kind = m.kind /\ n.hand = m.hand /\ n.round = m.round
                 /\ n.past = m.past \cup {what}
                 /\ n.at = m.at /\ n.alone = m.alone
  BY <1>1 DEF Read, Past
<1>2. \A i \in Slots : messages[i].step = "read" => messages[i] \in Read
  BY DEF FitInv, Typed, Idle, Asked
<1>3. \A i \in Slots :
        messages'[i] = IF messages[i].step = "read" /\ (what = "round" => messages[i].round # 0)
                       THEN [messages[i] EXCEPT !.past = @ \cup {what}] ELSE messages[i]
  BY DEF Overtaken
<1>4. messages' = [i \in Slots |-> messages'[i]]
  BY DEF Overtaken
<1>5. \A i \in Slots :
        \/ messages'[i] = messages[i] /\ (messages[i].step = "read" =>
                                            what = "round" /\ messages[i].round = 0)
        \/ /\ messages'[i].step = "read" /\ messages[i].step = "read"
           /\ messages'[i].kind = messages[i].kind
           /\ messages'[i].hand = messages[i].hand
           /\ messages'[i].round = messages[i].round
           /\ messages'[i].past = messages[i].past \cup {what}
           /\ messages'[i].at = messages[i].at
           /\ messages'[i].alone = messages[i].alone
           /\ messages'[i] \in Read
  <2> TAKE i \in Slots
  <2>1. CASE messages[i].step = "read" /\ (what = "round" => messages[i].round # 0)
    <3>1. messages'[i] = [messages[i] EXCEPT !.past = @ \cup {what}] /\ messages[i] \in Read
      BY <1>2, <1>3, <2>1
    <3> QED BY <1>1, <3>1
  <2>2. CASE ~(messages[i].step = "read" /\ (what = "round" => messages[i].round # 0))
    BY <1>3, <2>2
  <2> QED BY <2>1, <2>2
<1>6. messages' \in [Slots -> {Idle} \cup Asked \cup Read]
  BY <1>4, <1>5 DEF FitInv, Typed
<1> QED BY <1>5, <1>6

LEMMA EndRoundStep ==
  ASSUME FitInv, EndRound
  PROVE  FitInv'
<1>1. /\ now' = now /\ hand' = hand /\ round' = round /\ dealt' = dealt
      /\ manilha' = manilha /\ starting' = starting /\ cooldown' = cooldown
      /\ messages' = Overtaken("round")
      /\ signals' \subseteq signals
      /\ \A x \in signals' : Scope(x.kind) # "round-tactic"
  BY DEF EndRound, WithoutTactics, Fresh
<1>2. Typed'
  BY <1>1, OvertakenKeeps DEF FitInv, Typed
<1>3. Heard(signals)'
  BY <1>1 DEF FitInv, Heard, Fits
<1>4. OnTheirWay(messages)'
  <2> SUFFICES ASSUME NEW i \in Slots, messages'[i].step = "read"
               PROVE  /\ Fits("human", messages[i].kind, messages[i].hand,
                               messages[i].round, messages[i].past)'
                      /\ Scope(messages'[i].kind) = "round-tactic" => messages'[i].round # 0
    BY DEF OnTheirWay
  <2>1. /\ messages[i].step = "read"
        /\ messages'[i].kind = messages[i].kind /\ messages'[i].hand = messages[i].hand
        /\ messages'[i].round = messages[i].round
        /\ messages[i].past \subseteq messages'[i].past
        /\ messages[i].round # 0 => "round" \in messages'[i].past
    BY <1>1, OvertakenKeeps
  <2>2. /\ Fits("human", messages[i].kind, messages[i].hand, messages[i].round,
                 messages[i].past)
        /\ Scope(messages[i].kind) = "round-tactic" => messages[i].round # 0
    BY <2>1 DEF FitInv, OnTheirWay
  <2> QED BY <1>1, <2>1, <2>2 DEF Fits
<1> QED BY <1>1, <1>2, <1>3, <1>4 DEF FitInv

LEMMA ClearStep ==
  ASSUME FitInv, ClearSignals
  PROVE  FitInv'
<1>1. /\ now' = now /\ hand' = hand /\ round' = round /\ dealt' = dealt
      /\ manilha' = manilha /\ closing' = closing
      /\ messages' = Overtaken("hand") /\ signals' = {} /\ cooldown' = Quiet
  BY DEF ClearSignals
<1>2. Typed'
  BY <1>1, OvertakenKeeps DEF FitInv, Typed, Quiet
<1>3. Heard(signals)'
  BY <1>1 DEF Heard
<1>4. OnTheirWay(messages)'
  <2> SUFFICES ASSUME NEW i \in Slots, messages'[i].step = "read"
               PROVE  /\ Fits("human", messages[i].kind, messages[i].hand,
                               messages[i].round, messages[i].past)'
                      /\ Scope(messages'[i].kind) = "round-tactic" => messages'[i].round # 0
    BY DEF OnTheirWay
  <2>1. /\ messages[i].step = "read"
        /\ messages'[i].kind = messages[i].kind /\ messages'[i].hand = messages[i].hand
        /\ messages'[i].round = messages[i].round
        /\ messages'[i].past = messages[i].past \cup {"hand"}
    BY <1>1, OvertakenKeeps
  <2>2. /\ Fits("human", messages[i].kind, messages[i].hand, messages[i].round,
                 messages[i].past)
        /\ Scope(messages[i].kind) = "round-tactic" => messages[i].round # 0
    BY <2>1 DEF FitInv, OnTheirWay
  <2> QED BY <1>1, <2>1, <2>2 DEF Fits
<1> QED BY <1>1, <1>2, <1>3, <1>4 DEF FitInv

\* What the bot says is of this hand, and never about a round.
LEMMA BotSays ==
  ASSUME FitInv, NEW kind \in Greetings \cup Advice,
         signals' = Remembered(Signal("bot", kind, now, hand, 0, {}))
  PROVE  signals' \subseteq SignalType /\ Heard(signals')
<1> DEFINE x == Signal("bot", kind, now, hand, 0, {})
<1>1. x \in SignalType
  BY DEF FitInv, Typed, Signal, SignalType, Past
<1>2. Scope(kind) # "round-tactic"
  BY SignalAssumption
<1>3. Fits(x.from, x.kind, x.hand, x.round, x.past)
  BY <1>2 DEF FitInv, Typed, Signal, Fits
<1> HIDE DEF x
<1>4. signals' = Remembered(x)
  BY DEF x
<1> QED BY <1>1, <1>3, <1>4, OneMoreSignal

LEMMA GreetStep ==
  ASSUME FitInv, Greet
  PROVE  FitInv'
<1>1. /\ now' = now /\ hand' = hand /\ round' = round /\ dealt' = dealt
      /\ manilha' = manilha /\ closing' = closing /\ cooldown' = cooldown
      /\ messages' = messages /\ starting = "cleared"
  BY DEF Greet, bot
<1>2. signals' \subseteq SignalType /\ Heard(signals')
  BY BotSays DEF Greet, FitInv, Typed
<1>3. Typed'
  BY <1>1, <1>2 DEF FitInv, Typed
<1>4. Heard(signals)'
  BY <1>1, <1>2 DEF Heard, Fits
<1>5. OnTheirWay(messages)'
  BY <1>1 DEF FitInv, OnTheirWay, Fits
<1> QED BY <1>1, <1>3, <1>4, <1>5 DEF FitInv

LEMMA BotDecidesStep ==
  ASSUME FitInv, BotDecides
  PROVE  FitInv'
<1>1. /\ now' = now /\ hand' = hand /\ round' = round /\ dealt' = dealt
      /\ manilha' = manilha /\ closing' = closing /\ starting' = starting
      /\ messages' = messages
  BY DEF BotDecides, table
<1>2. ASSUME NEW kind \in Advice, Advise(kind)
      PROVE  /\ signals' \subseteq SignalType /\ Heard(signals')
             /\ cooldown' \in [{"human", "bot"} -> [Kinds \cup Advice -> Nat]]
  <2>1. CASE signals' = Fresh(signals) /\ UNCHANGED cooldown
    BY <2>1, FewerHeard DEF FitInv, Typed, Fresh
  <2>2. CASE /\ signals' = Remembered(Signal("bot", kind, now, hand, 0, {}))
             /\ cooldown' = [cooldown EXCEPT !["bot"][kind] = now + Cooldown]
    <3>1. now + Cooldown \in Nat
      BY SignalAssumption DEF FitInv, Typed
    <3>2. cooldown' \in [{"human", "bot"} -> [Kinds \cup Advice -> Nat]]
      BY <2>2, <3>1 DEF FitInv, Typed
    <3> QED BY <2>2, <3>2, BotSays
  <2> QED BY <1>2, <2>1, <2>2 DEF Advise
<1>3. /\ signals' \subseteq SignalType /\ Heard(signals')
      /\ cooldown' \in [{"human", "bot"} -> [Kinds \cup Advice -> Nat]]
  BY <1>2 DEF BotDecides, FitInv, Typed
<1>4. Typed'
  BY <1>1, <1>3 DEF FitInv, Typed
<1>5. Heard(signals)'
  BY <1>1, <1>3 DEF Heard, Fits
<1>6. OnTheirWay(messages)'
  BY <1>1 DEF FitInv, OnTheirWay, Fits
<1> QED BY <1>1, <1>4, <1>5, <1>6 DEF FitInv

-----------------------------------------------------------------------------
(* Every step *)

LEMMA HandSteps ==
  ASSUME FitInv, PlayCard \/ OthersPlay \/ SaveHand
  PROVE  FitInv'
<1>1. CASE PlayCard
  BY <1>1, CardMovesOn, HandStep DEF PlayCard, FitInv, Typed
<1>2. CASE OthersPlay
  <2>1. /\ hand' = hand /\ dealt' = dealt /\ starting' = starting /\ ~closing
        /\ manilha' = manilha
        /\ now' = now /\ signals' = signals /\ messages' = messages /\ cooldown' = cooldown
    BY <1>2 DEF OthersPlay
  <2>2. round' = round \/ (round' = round + 1 /\ closing')
    BY <1>2 DEF OthersPlay
  <2>3. MovesOn
    BY <2>1, <2>2 DEF FitInv, Typed, MovesOn
  <2> QED BY <2>1, <2>3, HandStep DEF FitInv, Typed
<1>3. CASE SaveHand
  <2>1. /\ starting' = "saved" /\ closing' = closing
        /\ now' = now /\ signals' = signals /\ messages' = messages /\ cooldown' = cooldown
    BY <1>3 DEF SaveHand
  <2>2. \/ hand' = hand + 1 /\ round' = 1 /\ (manilha' => dealt')
        \/ hand' = hand /\ round' = round /\ dealt' = dealt /\ manilha' = manilha
    BY <1>3 DEF SaveHand
  <2>3. MovesOn
    BY <2>1, <2>2 DEF FitInv, Typed, MovesOn
  <2> QED BY <2>1, <2>3, HandStep DEF FitInv, Typed
<1> QED BY <1>1, <1>2, <1>3

LEMMA BotSteps ==
  ASSUME FitInv,
         \/ BotLooks \/ BotPlays \/ AnswerProposal \/ ProposedBet \/ FallbackCard
         \/ RivalDecides \/ Tick
  PROVE  FitInv'
<1>1. CASE BotLooks
  <2>1. /\ now' = now /\ messages' = messages /\ cooldown' = cooldown
        /\ signals' \subseteq signals /\ UNCHANGED table
    BY <1>1 DEF BotLooks, Fresh
  <2> QED BY <2>1, FewerSignals DEF FitInv, Typed
<1>2. CASE BotPlays
  <2>1. /\ now' = now /\ messages' = messages /\ cooldown' = cooldown
        /\ signals' \subseteq signals
        /\ Card("bot") \/ UNCHANGED table
    BY <1>2 DEF BotPlays, Unconsumed
  <2>2. CASE Card("bot")
    BY <2>1, <2>2, CardMovesOn, HandStep DEF FitInv, Typed
  <2>3. CASE UNCHANGED table
    BY <2>1, <2>3, FewerSignals DEF FitInv, Typed
  <2> QED BY <2>1, <2>2, <2>3
<1>3. CASE FallbackCard
  <2>1. /\ now' = now /\ messages' = messages /\ cooldown' = cooldown
        /\ signals' \subseteq signals
        /\ Card("bot") \/ UNCHANGED table
    BY <1>3 DEF FallbackCard, Unconsumed
  <2>2. CASE Card("bot")
    BY <2>1, <2>2, CardMovesOn, HandStep DEF FitInv, Typed
  <2>3. CASE UNCHANGED table
    BY <2>1, <2>3, FewerSignals DEF FitInv, Typed
  <2> QED BY <2>1, <2>2, <2>3
<1>4. CASE ProposedBet
  <2>1. /\ now' = now /\ messages' = messages /\ cooldown' = cooldown
        /\ signals' \subseteq signals /\ UNCHANGED table
    BY <1>4 DEF ProposedBet, Unconsumed
  <2> QED BY <2>1, FewerSignals DEF FitInv, Typed
<1>5. CASE AnswerProposal
  BY <1>5, FewerSignals DEF AnswerProposal, FitInv, Typed
<1>6. CASE RivalDecides
  BY <1>6, FewerSignals DEF RivalDecides, FitInv, Typed
<1>7. CASE Tick
  BY <1>7, FewerSignals DEF Tick, FitInv, Typed
<1> QED BY <1>1, <1>2, <1>3, <1>4, <1>5, <1>6, <1>7

LEMMA FitStep == FitInv /\ [Next]_vars => FitInv'
<1> SUFFICES ASSUME FitInv, [Next]_vars PROVE FitInv'
  OBVIOUS
<1>1. CASE UNCHANGED vars
  <2>1. UNCHANGED <<table, messages, signals, cooldown, now>>
    BY <1>1 DEF vars, table
  <2> QED BY <2>1, FewerSignals DEF FitInv, Typed
<1>2. ASSUME NEW i \in Slots, NEW kind \in Kinds, AskSignal(i, kind)
      PROVE  FitInv'
  BY <1>2, AskStep
<1>3. ASSUME NEW i \in Slots, ReadHand(i)
      PROVE  FitInv'
  BY <1>3, ReadStep
<1>4. ASSUME NEW i \in Slots, RememberSignal(i)
      PROVE  FitInv'
  BY <1>4, RememberStep
<1>5. CASE EndRound
  BY <1>5, EndRoundStep
<1>6. CASE ClearSignals
  BY <1>6, ClearStep
<1>7. CASE Greet
  BY <1>7, GreetStep
<1>8. CASE BotDecides
  BY <1>8, BotDecidesStep
<1> QED
  BY <1>1, <1>2, <1>3, <1>4, <1>5, <1>6, <1>7, <1>8, HandSteps, BotSteps DEF Next

(* What a bot can hear fits the hand it plays, unless it was overtaken on  *)
(* its way, whatever messages, starts, rounds and decisions interleave.    *)
THEOREM WhatIsHeardFits == Spec => []SignalsFitTheHand
<1>1. FitInv => SignalsFitTheHand
  BY DEF FitInv, Heard, Fits, SignalsFitTheHand
<1> QED BY <1>1, FitInit, FitStep, PTL DEF Spec

-----------------------------------------------------------------------------
(* Turns to speak *)

\* A person's signal has noted its cooldown, and is not from the future.
Noted ==
  \A x \in signals :
    /\ x.at <= now
    /\ x.from = "human" => x.kind \in Kinds /\ x.at + Cooldown <= cooldown["human"][x.kind]

\* A message that has been alone came after all that the person has said.
CameAfter(m) ==
  \A x \in signals : x.from = "human" =>
    /\ x.at <= m.at
    /\ x.kind = m.kind => x.at + Cooldown <= m.at

Alone(i) ==
  messages[i] # Idle =>
    /\ messages[i].at <= now
    /\ messages[i].alone => /\ \A j \in Slots \ {i} : messages[j] = Idle
                           /\ CameAfter(messages[i])

TurnInv == FitInv /\ Noted /\ \A i \in Slots : Alone(i)

LEMMA TurnInit == Init => TurnInv
<1> SUFFICES ASSUME Init PROVE TurnInv
  OBVIOUS
<1>1. Noted /\ \A i \in Slots : Alone(i)
  BY DEF Init, Noted, Alone
<1> QED BY <1>1, FitInit DEF TurnInv

LEMMA MessageAt ==
  ASSUME Typed, NEW i \in Slots, messages[i] # Idle
  PROVE  messages[i].at \in Nat /\ messages[i].kind \in Kinds
BY DEF Typed, Asked, Read

\* A step that only the bot or the clock takes part in: no message moves but to
\* be overtaken, and no person's signal is new.
LEMMA OthersStep ==
  ASSUME TurnInv, FitInv', now' >= now,
         \A x \in signals' : x \in signals \/ (x.from = "bot" /\ x.at = now),
         signals' = {} \/ cooldown'["human"] = cooldown["human"],
         \A i \in Slots : \/ messages'[i] = messages[i]
                          \/ /\ messages[i] # Idle /\ messages'[i] # Idle
                             /\ messages'[i].at = messages[i].at
                             /\ messages'[i].alone = messages[i].alone
                             /\ messages'[i].kind = messages[i].kind
  PROVE  TurnInv'
<1>1. now \in Nat /\ now' \in Nat
  BY DEF TurnInv, FitInv, Typed
<1>2. \A x \in signals : x.at \in Nat
  BY DEF TurnInv, FitInv, Typed, SignalType
<1>3. Noted'
  <2> SUFFICES ASSUME NEW x \in signals'
               PROVE  /\ x.at <= now'
                      /\ x.from = "human" =>
                           x.kind \in Kinds /\ x.at + Cooldown <= cooldown'["human"][x.kind]
    BY DEF Noted
  <2>1. CASE x \in signals
    BY <1>1, <1>2, <2>1 DEF TurnInv, Noted
  <2>2. CASE x.from = "bot" /\ x.at = now
    BY <1>1, <2>2
  <2> QED BY <2>1, <2>2
<1>4. ASSUME NEW i \in Slots PROVE Alone(i)'
  <2> SUFFICES ASSUME messages'[i] # Idle
               PROVE  /\ messages'[i].at <= now'
                      /\ messages'[i].alone =>
                           /\ \A j \in Slots \ {i} : messages'[j] = Idle
                           /\ \A x \in signals' : x.from = "human" =>
                                /\ x.at <= messages'[i].at
                                /\ x.kind = messages'[i].kind =>
                                     x.at + Cooldown <= messages'[i].at
    BY DEF Alone, CameAfter
  <2>1. /\ messages[i] # Idle /\ messages'[i].at = messages[i].at
        /\ messages'[i].alone = messages[i].alone /\ messages'[i].kind = messages[i].kind
    OBVIOUS
  <2>2. messages[i].at \in Nat /\ messages[i].at <= now
    BY <2>1, MessageAt DEF TurnInv, FitInv, Alone
  <2>3. messages[i].alone => \A j \in Slots \ {i} : messages'[j] = Idle
    BY <2>1 DEF TurnInv, Alone
  <2>4. messages[i].alone =>
          \A x \in signals' : x.from = "human" =>
            /\ x.at <= messages[i].at
            /\ x.kind = messages[i].kind => x.at + Cooldown <= messages[i].at
    BY <2>1 DEF TurnInv, Alone, CameAfter
  <2>5. messages'[i].at <= now'
    BY <1>1, <2>1, <2>2
  <2> QED BY <2>1, <2>3, <2>4, <2>5
<1> QED BY <1>3, <1>4 DEF TurnInv

\* The cooldown has ended, so the person's last signal of this kind is as old.
LEMMA AskTurn ==
  ASSUME TurnInv, FitInv', NEW i \in Slots, NEW kind \in Kinds, AskSignal(i, kind)
  PROVE  TurnInv'
<1> DEFINE others == {j \in Slots : messages[j] # Idle}
           m == [step |-> "asked", kind |-> kind, at |-> now, alone |-> others = {}]
<1>1. /\ now' = now /\ signals' = signals /\ cooldown' = cooldown
      /\ messages[i] = Idle /\ cooldown["human"][kind] <= now
      /\ messages' = [j \in Slots |-> IF j = i THEN m
                        ELSE IF j \in others THEN [messages[j] EXCEPT !.alone = FALSE]
                        ELSE messages[j]]
  BY DEF AskSignal
<1>2. Noted'
  BY <1>1 DEF TurnInv, Noted
<1>3. CameAfter(m)
  <2> SUFFICES ASSUME NEW x \in signals, x.from = "human"
               PROVE  x.at <= now /\ (x.kind = kind => x.at + Cooldown <= now)
    BY DEF CameAfter
  <2>1. x.at \in Nat /\ now \in Nat /\ cooldown["human"][kind] \in Nat
    BY DEF TurnInv, FitInv, Typed, SignalType
  <2>2. x.at <= now /\ x.kind \in Kinds /\ x.at + Cooldown <= cooldown["human"][x.kind]
    BY DEF TurnInv, Noted
  <2>3. x.kind = kind => x.at + Cooldown <= now
    BY <1>1, <2>1, <2>2, SignalAssumption
  <2> QED BY <2>2, <2>3
<1>4. ASSUME NEW j \in Slots, j \in others, j # i
      PROVE  /\ messages'[j].at = messages[j].at /\ messages'[j].alone = FALSE
             /\ messages[j] # Idle /\ messages'[j] # Idle
  <2>1. messages'[j] = [messages[j] EXCEPT !.alone = FALSE]
    BY <1>1, <1>4
  <2>2. messages[j] \in Asked \cup Read
    BY <1>4 DEF TurnInv, FitInv, Typed
  <2>3. CASE messages[j] \in Asked
    BY <1>4, <2>1, <2>3 DEF Asked, Idle
  <2>4. CASE messages[j] \in Read
    BY <1>4, <2>1, <2>4 DEF Read, Idle
  <2> QED BY <2>2, <2>3, <2>4
<1>5. Alone(i)'
  <2>1. messages'[i] = m /\ m.at = now /\ m.alone = (others = {}) /\ m.kind = kind
    BY <1>1
  <2>2. others = {} => \A j \in Slots \ {i} : messages'[j] = Idle
    BY <1>1
  <2>3. now <= now
    BY DEF TurnInv, FitInv, Typed
  <2> HIDE DEF m, others
  <2> QED BY <1>1, <1>3, <2>1, <2>2, <2>3 DEF Alone, CameAfter
<1>6. ASSUME NEW j \in Slots, j # i PROVE Alone(j)'
  <2>1. CASE j \in others
    <3>1. messages[j].at <= now
      BY <2>1 DEF TurnInv, Alone
    <3> QED BY <1>1, <1>4, <1>6, <2>1, <3>1 DEF Alone
  <2>2. CASE j \notin others
    BY <1>1, <1>6, <2>2 DEF Alone
  <2> QED BY <2>1, <2>2
<1> QED BY <1>2, <1>5, <1>6 DEF TurnInv

LEMMA ReadTurn ==
  ASSUME TurnInv, FitInv', NEW i \in Slots, ReadHand(i)
  PROVE  TurnInv'
<1> DEFINE m == messages[i]
           n == [ step |-> "read", kind |-> m.kind, at |-> m.at, alone |-> m.alone,
                  hand |-> hand, round |-> RoundOf(m.kind), past |-> {} ]
<1>1. /\ now' = now /\ signals' = signals /\ cooldown' = cooldown
      /\ \/ messages' = [messages EXCEPT ![i] = Idle]
         \/ messages' = [messages EXCEPT ![i] = n]
      /\ m # Idle
  <2>1. m.step = "asked"
    BY DEF ReadHand
  <2>2. m # Idle
    BY <2>1 DEF Idle
  <2> QED BY <2>2 DEF ReadHand
<1>2. n.kind = m.kind /\ n.at = m.at /\ n.alone = m.alone
  OBVIOUS
<1> HIDE DEF n
<1>3. Noted'
  BY <1>1 DEF TurnInv, Noted
<1>4. ASSUME NEW j \in Slots, messages'[j] # Idle
      PROVE  /\ messages[j] # Idle /\ messages'[j].at = messages[j].at
             /\ messages'[j].alone = messages[j].alone
             /\ messages'[j].kind = messages[j].kind
  BY <1>1, <1>2, <1>4 DEF TurnInv, FitInv, Typed
<1>5. ASSUME NEW j \in Slots PROVE Alone(j)'
  <2> SUFFICES ASSUME messages'[j] # Idle
               PROVE  /\ messages'[j].at <= now'
                      /\ messages'[j].alone =>
                           /\ \A k \in Slots \ {j} : messages'[k] = Idle
                           /\ CameAfter(messages[j])'
    BY DEF Alone
  <2>1. messages[j].at <= now /\ messages'[j].at = messages[j].at
    BY <1>4 DEF TurnInv, Alone
  <2>2. ASSUME messages'[j].alone
        PROVE  \A k \in Slots \ {j} : messages'[k] = Idle
    BY <1>4, <2>2 DEF TurnInv, Alone
  <2>3. ASSUME messages'[j].alone
        PROVE  CameAfter(messages[j])'
    BY <1>1, <1>4, <2>3 DEF TurnInv, Alone, CameAfter
  <2> QED BY <1>1, <2>1, <2>2, <2>3
<1> QED BY <1>3, <1>5 DEF TurnInv

LEMMA RememberTurn ==
  ASSUME TurnInv, FitInv', NEW i \in Slots, RememberSignal(i)
  PROVE  TurnInv'
<1> DEFINE m == messages[i]
           x == Signal("human", m.kind, m.at, m.hand, m.round, m.past)
<1>1. m \in Read /\ m # Idle /\ m.step = "read"
  BY DEF RememberSignal, TurnInv, FitInv, Typed, Idle, Asked
<1>2. /\ now' = now /\ messages' = [messages EXCEPT ![i] = Idle]
      /\ signals' = Remembered(x)
      /\ cooldown' = [cooldown EXCEPT !["human"][m.kind] = m.at + Cooldown]
  BY DEF RememberSignal
<1>3. /\ x.from = "human" /\ x.kind = m.kind /\ x.at = m.at
      /\ m.kind \in Kinds /\ m.at \in Nat /\ m.at <= now
  BY <1>1 DEF Signal, Read, TurnInv, Alone
<1>4. \A y \in signals' : \/ y = x
                          \/ y \in signals /\ (y.from # "human" \/ y.kind # m.kind)
  BY <1>2, <1>3 DEF Remembered, Fresh
<1>5. /\ \A k \in Kinds : k # m.kind => cooldown'["human"][k] = cooldown["human"][k]
      /\ cooldown'["human"][m.kind] = m.at + Cooldown
  BY <1>2, <1>3 DEF TurnInv, FitInv, Typed
<1> HIDE DEF x, m
<1>6. Noted'
  <2> SUFFICES ASSUME NEW y \in signals'
               PROVE  /\ y.at <= now
                      /\ y.from = "human" =>
                           y.kind \in Kinds /\ y.at + Cooldown <= cooldown'["human"][y.kind]
    BY <1>2 DEF Noted
  <2>1. CASE y = x
    BY <1>3, <1>5, <2>1, SignalAssumption
  <2>2. CASE y \in signals /\ (y.from # "human" \/ y.kind # m.kind)
    BY <1>5, <2>2 DEF TurnInv, Noted
  <2> QED BY <1>4, <2>1, <2>2
<1>7. ASSUME NEW j \in Slots PROVE Alone(j)'
  <2>1. CASE j = i
    BY <1>2, <2>1 DEF Alone, TurnInv, FitInv, Typed
  <2>2. CASE j # i
    <3>1. messages'[j] = messages[j] /\ messages[i] # Idle
      BY <1>1, <1>2, <2>2 DEF TurnInv, FitInv, Typed, m
    <3>2. messages[j] # Idle => messages[j].at <= now /\ ~messages[j].alone
      BY <2>2, <3>1 DEF TurnInv, Alone
    <3> QED BY <1>2, <3>1, <3>2 DEF Alone
  <2> QED BY <2>1, <2>2
<1> QED BY <1>6, <1>7 DEF TurnInv

LEMMA BotTurns ==
  ASSUME TurnInv, FitInv', BotDecides \/ Greet \/ BotLooks \/ BotPlays \/ ProposedBet \/ FallbackCard
  PROVE  TurnInv'
<1>1. /\ now' = now /\ messages' = messages
      /\ \A x \in signals' : x \in signals \/ (x.from = "bot" /\ x.at = now)
      /\ cooldown'["human"] = cooldown["human"]
  <2>1. CASE BotDecides
    <3>1. now' = now /\ messages' = messages
      BY <2>1 DEF BotDecides
    <3>2. ASSUME NEW kind \in Advice, Advise(kind)
          PROVE  /\ \A x \in signals' : x \in signals \/ (x.from = "bot" /\ x.at = now)
                 /\ cooldown'["human"] = cooldown["human"]
      BY <3>2 DEF Advise, Remembered, Fresh, Signal, TurnInv, FitInv, Typed
    <3> QED BY <2>1, <3>1, <3>2 DEF BotDecides
  <2>2. CASE Greet
    BY <2>2 DEF Greet, Remembered, Fresh, Signal
  <2>3. CASE BotLooks
    BY <2>3 DEF BotLooks, Fresh
  <2>4. CASE BotPlays
    BY <2>4 DEF BotPlays, Unconsumed
  <2>5. CASE ProposedBet
    BY <2>5 DEF ProposedBet, Unconsumed
  <2>6. CASE FallbackCard
    BY <2>6 DEF FallbackCard, Unconsumed
  <2> QED BY <2>1, <2>2, <2>3, <2>4, <2>5, <2>6
<1>2. now' >= now
  BY <1>1 DEF TurnInv, FitInv, Typed
<1> QED BY <1>1, <1>2, OthersStep

LEMMA TableTurns ==
  ASSUME TurnInv, FitInv',
         \/ PlayCard \/ OthersPlay \/ SaveHand \/ EndRound \/ ClearSignals
         \/ AnswerProposal \/ RivalDecides \/ Tick \/ UNCHANGED vars
  PROVE  TurnInv'
<1>1. CASE EndRound \/ ClearSignals
  <2>1. /\ now' = now /\ signals' \subseteq signals
        /\ signals' = {} \/ cooldown' = cooldown
        /\ messages' = Overtaken("round") \/ messages' = Overtaken("hand")
    BY <1>1 DEF EndRound, ClearSignals, WithoutTactics, Fresh
  <2>2. \A i \in Slots : \/ messages'[i] = messages[i]
                         \/ /\ messages[i] # Idle /\ messages'[i] # Idle
                            /\ messages'[i].at = messages[i].at
                            /\ messages'[i].alone = messages[i].alone
                            /\ messages'[i].kind = messages[i].kind
    <3> SUFFICES ASSUME NEW what \in {"hand", "round"}, messages' = Overtaken(what),
                        NEW i \in Slots
                 PROVE  \/ messages'[i] = messages[i]
                        \/ /\ messages[i] # Idle /\ messages'[i] # Idle
                           /\ messages'[i].at = messages[i].at
                           /\ messages'[i].alone = messages[i].alone
                           /\ messages'[i].kind = messages[i].kind
      BY <2>1
    <3>1. messages'[i].step = "read" => messages'[i] # Idle
      BY DEF Idle
    <3>2. messages[i].step = "read" => messages[i] # Idle
      BY DEF Idle
    <3> QED BY <3>1, <3>2, OvertakenKeeps DEF TurnInv
  <2>3. now' >= now
    BY <2>1 DEF TurnInv, FitInv, Typed
  <2> QED BY <2>1, <2>2, <2>3, OthersStep
<1>2. CASE \/ PlayCard \/ OthersPlay \/ SaveHand \/ AnswerProposal
           \/ RivalDecides \/ Tick \/ UNCHANGED vars
  <2>1. /\ now' = now \/ now' = now + 1
        /\ signals' = signals /\ messages' = messages /\ cooldown' = cooldown
    BY <1>2 DEF PlayCard, OthersPlay, SaveHand, AnswerProposal, RivalDecides, Tick, vars
  <2>2. now' >= now
    BY <2>1 DEF TurnInv, FitInv, Typed
  <2> QED BY <2>1, <2>2, OthersStep
<1> QED BY <1>1, <1>2

LEMMA TurnStep == TurnInv /\ [Next]_vars => TurnInv'
<1> SUFFICES ASSUME TurnInv, [Next]_vars PROVE TurnInv'
  OBVIOUS
<1>1. FitInv'
  BY FitStep DEF TurnInv
<1>2. ASSUME NEW i \in Slots, NEW kind \in Kinds, AskSignal(i, kind)
      PROVE  TurnInv'
  BY <1>1, <1>2, AskTurn
<1>3. ASSUME NEW i \in Slots, ReadHand(i)
      PROVE  TurnInv'
  BY <1>1, <1>3, ReadTurn
<1>4. ASSUME NEW i \in Slots, RememberSignal(i)
      PROVE  TurnInv'
  BY <1>1, <1>4, RememberTurn
<1> QED BY <1>1, <1>2, <1>3, <1>4, BotTurns, TableTurns DEF Next

\* Only a remembered message takes a person's signals away and ends.
LEMMA InTurn ==
  ASSUME TurnInv, [Next]_vars, NEW i \in Slots, messages[i] # Idle,
         messages[i].alone, messages'[i] = Idle,
         NEW x \in signals' \ signals, NEW y \in signals \ signals',
         y.from = x.from, Scope(y.kind) = Scope(x.kind)
  PROVE  y.at + (IF y.kind = x.kind THEN Cooldown ELSE 0) <= x.at
<1>1. ASSUME NEW j \in Slots, RememberSignal(j)
      PROVE  /\ x.from = "human" /\ x.kind = messages[j].kind
             /\ x.at = messages[j].at /\ j = i
  <2>1. /\ messages' = [messages EXCEPT ![j] = Idle]
        /\ x = Signal("human", messages[j].kind, messages[j].at, messages[j].hand,
                       messages[j].round, messages[j].past)
    BY <1>1 DEF RememberSignal, Remembered, Fresh
  <2>2. j = i
    BY <2>1 DEF TurnInv, FitInv, Typed
  <2> QED BY <2>1, <2>2 DEF Signal
<1>2. CASE \E j \in Slots : RememberSignal(j)
  <2>1. x.from = "human" /\ x.kind = messages[i].kind /\ x.at = messages[i].at
    BY <1>1, <1>2
  <2>2. y.at \in Nat
    BY DEF TurnInv, FitInv, Typed, SignalType
  <2>3. /\ y.at <= messages[i].at
        /\ y.kind = messages[i].kind => y.at + Cooldown <= messages[i].at
    BY <2>1 DEF TurnInv, Alone, CameAfter
  <2> QED BY <2>1, <2>2, <2>3
<1>3. CASE ~\E j \in Slots : RememberSignal(j)
  <2>1. ASSUME NEW j \in Slots, ReadHand(j) PROVE FALSE
    BY <2>1 DEF ReadHand
  <2>2. ASSUME NEW j \in Slots, NEW kind \in Kinds, AskSignal(j, kind) PROVE FALSE
    BY <2>2 DEF AskSignal
  <2>3. CASE EndRound \/ ClearSignals
    BY <2>3 DEF EndRound, ClearSignals, WithoutTactics, Fresh
  <2>4. CASE \/ PlayCard \/ OthersPlay \/ SaveHand \/ AnswerProposal
             \/ RivalDecides \/ Tick \/ UNCHANGED vars
    BY <2>4 DEF PlayCard, OthersPlay, SaveHand, AnswerProposal, RivalDecides, Tick, vars
  <2>5. CASE BotDecides \/ Greet \/ BotLooks \/ BotPlays \/ ProposedBet \/ FallbackCard
    <3>1. messages' = messages
      BY <2>5 DEF BotDecides, Greet, BotLooks, BotPlays, ProposedBet, FallbackCard
    <3> QED BY <3>1
  <2> QED BY <1>3, <2>1, <2>2, <2>3, <2>4, <2>5 DEF Next
<1> QED BY <1>2, <1>3

(* A signal gives way to a later one only, and to the same one only after  *)
(* the cooldown, unless two messages were under way together.              *)
THEOREM SignalsInTurn == Spec => ReplacedInTurn
<1>1. TurnInv /\ [Next]_vars =>
        [\A i \in Slots :
           messages[i] # Idle /\ messages[i].alone /\ messages'[i] = Idle =>
             \A x \in signals' \ signals, y \in signals \ signals' :
               y.from = x.from /\ Scope(y.kind) = Scope(x.kind) =>
                 y.at + (IF y.kind = x.kind THEN Cooldown ELSE 0) <= x.at]_vars
  BY InTurn
<1> QED BY <1>1, TurnInit, TurnStep, PTL DEF Spec, ReplacedInTurn
=============================================================================
