-------------------------- MODULE MCSecureOperation --------------------------
(* Model-checking instance of SecureOperation. *)
EXTENDS SecureOperation, TLC

Symmetry == Permutations(Operations) \cup Permutations(Requests)
====
