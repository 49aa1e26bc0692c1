----------------------------- MODULE MCAccounts -----------------------------
(* An instance of Accounts for TLC.                                        *)
EXTENDS Accounts, TLC

Symmetry == Permutations(User) \cup Permutations(Realm) \cup Permutations(Email)
            \cup Permutations(Request) \cup Permutations(Op) \cup Permutations(Lang)
=============================================================================
