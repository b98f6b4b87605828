------------------------------ MODULE MCSignals ------------------------------
(* Signals on a small instance: two messages at once, two hands, and a     *)
(* clock that lets a cooldown end and a signal expire.                     *)
EXTENDS Signals, TLC

MessageSymmetry == Permutations(Slots)
=============================================================================
