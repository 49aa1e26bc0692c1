---------------------------- MODULE MCSessionList ----------------------------
(* Model-checking instance of SessionList. *)
EXTENDS SessionList, TLC

Symmetry == Permutations(Sessions) \cup Permutations(Devices)
=============================================================================
