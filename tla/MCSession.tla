------------------------------ MODULE MCSession ------------------------------
(* Model-checking instance of Session. *)
EXTENDS Session, TLC

Symmetry == Permutations(Sessions) \cup Permutations(Tokens) \cup Permutations(Requests)
=============================================================================
