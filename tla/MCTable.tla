------------------------------- MODULE MCTable -------------------------------
(* Table for TLC: a duel of a person and a bot, and a table of four.       *)
EXTENDS Table

Duel == <<"T1A", "T2A">>
Four == <<"T1A", "T2A", "T1B", "T2B">>
First == {"T1A"}
Rivals == {"T1A", "T2A"}
Partnership == {"T1A", "T1B"}
=============================================================================
