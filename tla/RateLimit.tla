------------------------------ MODULE RateLimit ------------------------------
(***************************************************************************)
(* The guard every socket handler passes first                             *)
(* (src/gateway/security/socket-rate-limit.guard.ts): a sliding window of  *)
(* hits per client and, once it overflows, a block.  canActivate awaits    *)
(* nothing, so an event is one step.  Time is Date.now(), which only moves *)
(* forward here.  A client is what resolveTrackerKey makes of a socket.    *)
(*                                                                         *)
(* A hit is its time with a serial number, so that a set counts hits of    *)
(* one millisecond apart.                                                  *)
(***************************************************************************)
EXTENDS Integers, FiniteSets

CONSTANTS
  Clients,
  WindowMs, MaxEvents, BlockMs,   \* readPositiveNumber: the environment's
  CleanupThreshold,
  MaxTime                         \* bound: the clock stops there

ASSUME RateAssumption ==
  /\ WindowMs \in Nat \ {0} /\ MaxEvents \in Nat \ {0} /\ BlockMs \in Nat \ {0}
  /\ CleanupThreshold \in Nat /\ MaxTime \in Nat

VARIABLES
  now,
  entries,   \* the Map: clients seen and not compacted away
  serial,    \* per client, the number of its next hit
  served,    \* history: per client, the events let through
  told       \* history: per client, the time its last refusal named

vars == <<now, entries, serial, served, told>>

-----------------------------------------------------------------------------

Fresh == [hits |-> {}, blockedUntil |-> 0]

StateOf(c) == IF c \in DOMAIN entries THEN entries[c] ELSE Fresh

InWindow(hits) == {h \in hits : now - h.at < WindowMs}

\* Mutant: the filter is off by one and forgets a hit at the window's end.
PruneShort(state) ==
  [hits |-> {h \in state.hits : now - h.at < WindowMs - 1},
   blockedUntil |-> IF state.blockedUntil <= now THEN 0 ELSE state.blockedUntil]

\* Mutant: what a client sends while blocked is pushed all the same.
PruneCounts(state) ==
  IF state.blockedUntil <= now
  THEN [hits |-> InWindow(state.hits), blockedUntil |-> 0]
  ELSE [state EXCEPT !.hits = InWindow(@) \cup {[at |-> now, n |-> 0]}]

\* Mutant: knocking while blocked prolongs the block.
PruneProlongs(state) ==
  IF state.blockedUntil <= now
  THEN [hits |-> InWindow(state.hits), blockedUntil |-> 0]
  ELSE [hits |-> InWindow(state.hits), blockedUntil |-> state.blockedUntil + BlockMs]

Prune(state) ==
  [hits |-> InWindow(state.hits),
   blockedUntil |-> IF state.blockedUntil <= now THEN 0 ELSE state.blockedUntil]

\* Mutant: compaction looks at the hits only.
IdleNoHits(state) == Prune(state).hits = {}

\* One entry that compactEntries would delete.
Idle(state) == Prune(state) = Fresh

Compact(table) ==
  IF Cardinality(DOMAIN table) < CleanupThreshold THEN table
  ELSE [c \in {d \in DOMAIN table : ~Idle(table[d])} |-> Prune(table[c])]

With(table, c, state) ==
  [d \in DOMAIN table \cup {c} |-> IF d = c THEN state ELSE table[d]]

Hit(c) == [at |-> now, n |-> serial[c]]

\* The entry as it is once the hit has been pushed.
Pushed(c) == [Prune(StateOf(c)) EXCEPT !.hits = @ \cup {Hit(c)}]

Overflows(state) == Cardinality(state.hits) > MaxEvents

Init ==
  /\ now = 0
  /\ entries = [c \in {} |-> Fresh]
  /\ serial = [c \in Clients |-> 0]
  /\ served = [c \in Clients |-> {}]
  /\ told = [c \in Clients |-> 0]

\* canActivate answers false: the client is blocked, and told for how long.
RefuseBlocked(c) ==
  LET state == Prune(StateOf(c)) IN
  /\ state.blockedUntil > now
  /\ entries' = Compact(With(entries, c, state))
  /\ told' = [told EXCEPT ![c] = state.blockedUntil]
  /\ UNCHANGED <<now, serial, served>>

\* canActivate answers false: this hit is one too many and starts a block.
RefuseOverflow(c) ==
  /\ Prune(StateOf(c)).blockedUntil <= now
  /\ Overflows(Pushed(c))
  /\ entries' = Compact(With(entries, c,
                             [Pushed(c) EXCEPT !.blockedUntil = now + BlockMs]))
  /\ told' = [told EXCEPT ![c] = now + BlockMs]
  /\ serial' = [serial EXCEPT ![c] = @ + 1]
  /\ UNCHANGED <<now, served>>

\* canActivate answers true and the handler runs.
Serve(c) ==
  /\ Prune(StateOf(c)).blockedUntil <= now
  /\ ~Overflows(Pushed(c))
  /\ entries' = Compact(With(entries, c, Pushed(c)))
  /\ served' = [served EXCEPT ![c] = @ \cup {Hit(c)}]
  /\ serial' = [serial EXCEPT ![c] = @ + 1]
  /\ UNCHANGED <<now, told>>

Tick == now < MaxTime /\ now' = now + 1 /\ UNCHANGED <<entries, serial, served, told>>

Next ==
  \/ \E c \in Clients : RefuseBlocked(c) \/ RefuseOverflow(c) \/ Serve(c)
  \/ Tick

Spec == Init /\ [][Next]_vars

-----------------------------------------------------------------------------
(* Properties *)

HitType == [at : 0..now, n : Nat]

\* Entries keep their type: no hit is later than the clock, and no block
\* reaches further than BlockMs ahead, however often a blocked client knocks.
TypeOK ==
  /\ now \in Nat
  /\ DOMAIN entries \subseteq Clients
  /\ \A c \in DOMAIN entries :
       /\ entries[c].hits \subseteq HitType /\ IsFiniteSet(entries[c].hits)
       /\ entries[c].blockedUntil \in 0..(now + BlockMs)
  /\ serial \in [Clients -> Nat]
  /\ served \in [Clients -> SUBSET HitType]
  /\ told \in [Clients -> Nat]

\* In no window of WindowMs are more than MaxEvents events of a client let
\* through, whatever is pruned, compacted or forgotten in between.
WindowHolds ==
  \A c \in Clients : Cardinality(InWindow(served[c])) <= MaxEvents

\* A client is let through only when the wait it was told of is over, also
\* when the table was compacted during its block.
WaitIsKept ==
  [][\A c \in Clients : served'[c] # served[c] => told[c] <= now]_vars

\* A new block is started only against a client that had all the events its
\* window allows: what it sent while blocked is not held against it, when a
\* block lasts as long as a window (the code's defaults: 15 s and 10 s).
BlockIsEarned ==
  [][BlockMs >= WindowMs =>
       \A c \in Clients :
         told'[c] # told[c] => Cardinality(InWindow(served[c])) = MaxEvents]_vars

=============================================================================
