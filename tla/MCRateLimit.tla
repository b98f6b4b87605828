----------------------------- MODULE MCRateLimit -----------------------------
(* Two clients, a table compacted as soon as both are in it: two events per *)
(* two units of time, then a block of three.                                *)
EXTENDS RateLimit, TLC

ClientSymmetry == Permutations(Clients)
=============================================================================
