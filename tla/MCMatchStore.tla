----------------------------- MODULE MCMatchStore -----------------------------
(* Three use cases at once on a match of P1 at eleven and P2 at nine or    *)
(* eleven, so that a hand may be decided, raised or ended by one command.  *)
EXTENDS MatchStore, TLC

C(r, s) == [rank |-> r, suit |-> s]

\* P1 takes two rounds whatever is played; the third card may tie.
PlainDeal == {[vira |-> 4, cards |-> [o \in Team |->
  IF o = "P1" THEN {C(8, "P"), C(7, "P"), C(2, "P")}
  ELSE {C(6, "O"), C(3, "O"), C(2, "O")}]]}

Ends == {[t \in Team |-> IF t = "P1" THEN 11 ELSE n] : n \in {9, 11}}


HandlerSymmetry == Permutations(Handlers)
=============================================================================
