------------------------------- MODULE QueueSpec -------------------------------
(***************************************************************************)
(* What mrqueue promises to those who use it, without statuses, attempts,  *)
(* consumers or journals: an item is put in once, stays in, and leaves     *)
(* once, either done, its effect and its departure being one step, or      *)
(* dropped.                                                                *)
(***************************************************************************)
CONSTANT Item

VARIABLE place     \* where each item is

Place == {"new", "queued", "done", "dropped"}

Are(B, p) == \A i \in B : place[i] = p
Becomes(B, p) == place' = [i \in DOMAIN place |-> IF i \in B THEN p ELSE place[i]]

Init == place = [i \in Item |-> "new"]

Append(B) == B # {} /\ Are(B, "new") /\ Becomes(B, "queued")

Complete(i) == Are({i}, "queued") /\ Becomes({i}, "done")

(* Several items may be forgotten at once. *)
Drop(B) == B # {} /\ Are(B, "queued") /\ Becomes(B, "dropped")

Leave(i) == Complete(i) \/ \E B \in SUBSET Item : i \in B /\ Drop(B)

Next ==
  \/ \E B \in SUBSET Item : Append(B) \/ Drop(B)
  \/ \E i \in Item : Complete(i)

Spec == Init /\ [][Next]_place

(* Nothing stays in the queue for ever. *)
FairSpec == Spec /\ \A i \in Item : WF_place(Leave(i))
=============================================================================
