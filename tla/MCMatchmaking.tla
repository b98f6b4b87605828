---------------------------- MODULE MCMatchmaking ----------------------------
(* Three players of two ratings, the first with two windows.                *)
EXTENDS Matchmaking, TLC

MCPlayerOf == [s \in Sockets |-> CASE s = "a1" -> "A" [] s = "a2" -> "A"
                                   [] s = "b" -> "B" [] OTHER -> "C"]
MCRatingOf == [p \in Players |-> IF p = "C" THEN 1 ELSE 0]

MCJoins == {"a1", "b", "c"} \X {"1v1"} \cup {"a2", "b"} \X {"2v2"}

JobSymmetry == Permutations(Jobs)
=============================================================================
