----------------------------- MODULE MCActivity -----------------------------
(* Sessions, workers and members are alike. *)
EXTENDS Activity, TLC

Symmetry == Permutations(Session) \cup Permutations(Worker) \cup Permutations(Member)
=============================================================================
