---------------------------- MODULE MCRoomManager ----------------------------
(* RoomManager on a small instance.  The players are A and B; a1 and a2    *)
(* are two sockets of A, so A can connect again or from a second window.   *)
EXTENDS RoomManager

OwnerAB == [a1 |-> "A", a2 |-> "A", b1 |-> "B"]

AllKinds ==
  [kind : {"human"}, mode : {"1v1"}]
    \cup [kind : {"create", "private", "flexible"}, mode : {"2v2"}]

\* First hands are started in 1v1 rooms only; 2v2 rooms are there for their
\* seats.  This halves the run.
FirstHandsIn1v1 ==
  \A s \in Sockets : starting[s] # Idle =>
    LET m == starting[s].match
    IN  rooms[m] # NoRoom /\ rooms[m].mode = "2v2" => hand[m] # "none"
=============================================================================
