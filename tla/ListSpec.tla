------------------------------ MODULE ListSpec ------------------------------
(***************************************************************************)
(* What mrordering promises of a list, without columns and renumbering:    *)
(* the rows that are in the list, the rows ahead of each of them and, for  *)
(* each operation, the one place the row goes to and the calls that are    *)
(* refused.                                                                *)
(***************************************************************************)
CONSTANT Node, NoNode

VARIABLES rows,    \* the rows of the table
          listed,  \* those that are in the list
          ahead,   \* the rows ahead of each row of the list
          err      \* what the last call returned

vars == <<rows, listed, ahead, err>>

(* The call is refused and the list keeps its order. *)
Refuse(e) == err' = e /\ UNCHANGED <<rows, listed, ahead>>

(* The call is accepted: n goes right behind the rows of front, from wherever
   it was, and all other rows keep their order. *)
Place(n, front) ==
  /\ err' = "ok" /\ UNCHANGED rows
  /\ listed' = listed \cup {n}
  /\ ahead' = [x \in Node |-> IF x = n THEN front
                              ELSE IF x \in listed \ front THEN ahead[x] \cup {n}
                              ELSE ahead[x] \ {n}]

ToFirst(n) ==
  IF n = NoNode THEN Refuse("input")
  ELSE IF listed = {} THEN Refuse("internal")
  ELSE IF n \notin rows THEN Refuse("notfound")
  ELSE Place(n, {})

(* A move to the last place also starts an empty list. *)
ToLast(n) ==
  IF n = NoNode THEN Refuse("input")
  ELSE IF n \notin rows THEN Refuse("notfound")
  ELSE Place(n, listed \ {n})

(* An insertion cannot start a list. *)
InsertLast(n) ==
  IF n # NoNode /\ listed = {} THEN Refuse("internal") ELSE ToLast(n)

After(n, a) ==
  IF n = NoNode \/ n = a THEN Refuse("input")
  ELSE IF n \notin rows THEN Refuse("notfound")
  ELSE IF a \notin rows THEN Refuse("afternotfound")
  ELSE Place(n, (ahead[a] \ {n}) \cup {a})

Unlist(n) ==
  IF n = NoNode THEN Refuse("input")
  ELSE IF n \notin rows THEN Refuse("notfound")
  ELSE /\ err' = "ok" /\ UNCHANGED rows
       /\ listed' = listed \ {n}
       /\ ahead' = [x \in Node |-> IF x = n THEN {} ELSE ahead[x] \ {n}]

Create(n) ==
  n \notin rows /\ rows' = rows \cup {n} /\ err' = "ok" /\ UNCHANGED <<listed, ahead>>

Delete(n) ==
  /\ n \in rows \ listed
  /\ rows' = rows \ {n} /\ err' = "ok" /\ UNCHANGED <<listed, ahead>>

Init == rows = {} /\ listed = {} /\ ahead = [n \in Node |-> {}] /\ err = "ok"

Next ==
  \/ \E n \in Node : Create(n) \/ Delete(n)
  \/ \E n \in Node \cup {NoNode} : ToFirst(n) \/ ToLast(n) \/ Unlist(n)
  \/ \E n \in (Node \cup {NoNode}) \ listed : InsertLast(n)
  \/ \E n \in Node \cup {NoNode}, a \in Node :
       (a \in listed \/ a \notin rows) /\ After(n, a)

Spec == Init /\ [][Next]_vars
=============================================================================
