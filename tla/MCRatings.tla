------------------------------ MODULE MCRatings ------------------------------
(* Ratings for TLC: two people who meet in a match, one of whom also plays *)
(* a second match against a bot.                                           *)
EXTENDS Ratings

Met == [m \in Matches |-> [u \in Users |->
          IF u = "ana" THEN "T1" ELSE IF m = "m1" THEN "T2" ELSE None]]
Twice == {<<"m1", 1>>, <<"m1", 2>>, <<"m2", 1>>}
=============================================================================
