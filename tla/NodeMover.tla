------------------------------ MODULE NodeMover ------------------------------
(***************************************************************************)
(* mrordering: the service NodeMover over the repository NodePostgres.     *)
(*                                                                         *)
(* A table keeps a list of its rows three times over: in the columns       *)
(* prev_field_id and next_field_id (a doubly linked list) and in the       *)
(* column order_index (the order readers sort by).  Each operation of the  *)
(* service rewrites the three columns of up to five rows, and renumbers    *)
(* order_index when no free number is left between two neighbours.         *)
(*                                                                         *)
(* The nullable columns are mrentity.ZeronullUint64: SQL NULL reads as 0.  *)
(* One operation is one action: NodeMover opens no transaction of its own, *)
(* so the module describes callers that run it in one transaction each     *)
(* and one at a time, where an error rolls every statement back.           *)
(***************************************************************************)
EXTENDS Integers

CONSTANTS Node,            \* the primary keys a row may have
          OrderIndexStep   \* orderIndexStep

ASSUME NodeAssumption == Node \subseteq Nat \ {0}
ASSUME StepAssumption == OrderIndexStep \in Nat \ {0}

VARIABLES rows,            \* the rows of the table under the caller's condition
          prev, next,      \* prev_field_id and next_field_id of each row
          oi,              \* order_index of each row
          err              \* what the last call returned

vars == <<rows, prev, next, oi, err>>

NoNode == 0
NodeOrNull == Node \cup {NoNode}

Outcome == {"ok", "input", "notfound", "afternotfound", "internal"}

(* A row takes part in the list when its order_index is not NULL. *)
Linked == {n \in rows : oi[n] > 0}

-----------------------------------------------------------------------------
(* The repository *)

(* The row with MIN(order_index), the lowest primary key first: the row     *)
(* FetchFirstNode loads, or NoNode where it finds none.                     *)
FetchFirstNode(f) ==
  IF Linked = {} THEN f = NoNode
  ELSE /\ f \in Linked
       /\ \A m \in Linked : oi[f] < oi[m] \/ (oi[f] = oi[m] /\ f <= m)

(* The row with MAX(order_index), or the empty node of an empty list. *)
FetchLastNode(l) ==
  IF Linked = {} THEN l = NoNode
  ELSE /\ l \in Linked
       /\ \A m \in Linked : oi[m] < oi[l] \/ (oi[m] = oi[l] /\ l <= m)

(* Mutant of UpdateNeighbor: the neighbours of a moved row are not repaired. *)
UpdateNeighborNot(col, id, neighbor) == col

(* UpdateNodePrevID / UpdateNodeNextID on column col, called only for a     *)
(* neighbour that is not NULL.                                              *)
UpdateNeighbor(col, id, neighbor) ==
  IF id = NoNode THEN col ELSE [col EXCEPT ![id] = neighbor]

(* Mutants of RecalcOrderIndex: the border itself moves, too; the
   rows move down. *)
RecalcWithBorder(minBorder, step) ==
  [n \in Node |-> IF oi[n] >= minBorder THEN oi[n] + step ELSE oi[n]]

RecalcDown(minBorder, step) ==
  [n \in Node |-> IF oi[n] > minBorder THEN oi[n] - step ELSE oi[n]]

(* RecalcOrderIndex: every order_index above the border moves up. *)
RecalcOrderIndex(minBorder, step) ==
  [n \in Node |-> IF oi[n] > minBorder THEN oi[n] + step ELSE oi[n]]

(* Mutant of OrderIndexOf: the number of the neighbour is not loaded. *)
OrderIndexNotLoaded(n) == 0

(* order_index of the afterNextNode of MoveAfterID: 0 in the empty node. *)
OrderIndexOf(n) == IF n = NoNode THEN 0 ELSE oi[n]

-----------------------------------------------------------------------------
(* The service *)

(* The call returns an error; its statements are rolled back. *)
Fail(e) ==
  /\ err' = e
  /\ UNCHANGED <<rows, prev, next, oi>>

(* The call finds nothing to do. *)
Done ==
  /\ err' = "ok"
  /\ UNCHANGED <<rows, prev, next, oi>>

InsertToFirst(n) ==
  \E f \in NodeOrNull :
    /\ FetchFirstNode(f)
    /\ IF n = NoNode THEN Fail("input")
       ELSE IF f = NoNode THEN Fail("internal")
       ELSE IF prev[f] # NoNode THEN Fail("internal")
       ELSE IF n = f THEN Fail("input")
       ELSE IF n \notin rows THEN Fail("notfound")
       ELSE LET half == oi[f] \div 2 IN
            /\ prev' = [prev EXCEPT ![f] = n, ![n] = NoNode]
            /\ next' = [next EXCEPT ![n] = f]
            /\ oi' = IF half = 0
                     THEN [RecalcOrderIndex(0, 2 * OrderIndexStep)
                             EXCEPT ![n] = OrderIndexStep]
                     ELSE [oi EXCEPT ![n] = half]
            /\ err' = "ok"
            /\ UNCHANGED rows

InsertToLast(n) ==
  \E l \in NodeOrNull :
    /\ FetchLastNode(l)
    /\ IF n = NoNode THEN Fail("input")
       ELSE IF l # NoNode /\ next[l] # NoNode THEN Fail("internal")
       ELSE IF n = l THEN Fail("input")
       ELSE IF l = NoNode THEN Fail("internal")
       ELSE IF n \notin rows THEN Fail("notfound")
       ELSE /\ next' = [next EXCEPT ![l] = n, ![n] = NoNode]
            /\ prev' = [prev EXCEPT ![n] = l]
            /\ oi' = [oi EXCEPT ![n] = oi[l] + OrderIndexStep]
            /\ err' = "ok"
            /\ UNCHANGED rows

MoveToFirst(n) ==
  \E f \in NodeOrNull :
    /\ FetchFirstNode(f)
    /\ IF n = NoNode THEN Fail("input")
       ELSE IF f = NoNode THEN Fail("internal")
       ELSE IF prev[f] # NoNode THEN Fail("internal")
       ELSE IF n = f THEN Done
       ELSE IF n \notin rows THEN Fail("notfound")
       ELSE IF next[n] = f THEN Fail("internal")
       ELSE LET half == oi[f] \div 2 IN
            /\ prev' = [UpdateNeighbor([prev EXCEPT ![f] = n], next[n], prev[n])
                          EXCEPT ![n] = NoNode]
            /\ next' = [UpdateNeighbor(next, prev[n], next[n]) EXCEPT ![n] = f]
            /\ oi' = IF half = 0
                     THEN [RecalcOrderIndex(0, 2 * OrderIndexStep)
                             EXCEPT ![n] = OrderIndexStep]
                     ELSE [oi EXCEPT ![n] = half]
            /\ err' = "ok"
            /\ UNCHANGED rows

MoveToLast(n) ==
  \E l \in NodeOrNull :
    /\ FetchLastNode(l)
    /\ IF n = NoNode THEN Fail("input")
       ELSE IF l # NoNode /\ next[l] # NoNode THEN Fail("internal")
       ELSE IF n = l THEN Done
       ELSE IF n \notin rows THEN Fail("notfound")
       ELSE IF l # NoNode /\ prev[n] = l THEN Fail("internal")
       ELSE /\ next' = [UpdateNeighbor(UpdateNeighbor(next, l, n), prev[n], next[n])
                          EXCEPT ![n] = NoNode]
            /\ prev' = [UpdateNeighbor(prev, next[n], prev[n]) EXCEPT ![n] = l]
            /\ oi' = [oi EXCEPT ![n] = OrderIndexOf(l) + OrderIndexStep]
            /\ err' = "ok"
            /\ UNCHANGED rows

(* MoveAfterID for afterNodeID > 0; afterNodeID = 0 is MoveToFirst. *)
MoveAfterID(n, after) ==
  IF n = NoNode THEN Fail("input")
  ELSE IF n = after THEN Fail("input")
  ELSE IF n \notin rows THEN Fail("notfound")
  ELSE IF prev[n] = after THEN Done
  ELSE IF after \notin rows THEN Fail("afternotfound")
  ELSE IF next[after] # NoNode /\ next[after] \notin rows THEN Fail("internal")
  ELSE LET afterNext == next[after]
           half      == (oi[after] + OrderIndexOf(afterNext)) \div 2
       IN
       /\ next' = [UpdateNeighbor([next EXCEPT ![after] = n], prev[n], next[n])
                     EXCEPT ![n] = afterNext]
       /\ prev' = [UpdateNeighbor(UpdateNeighbor(prev, afterNext, n), next[n], prev[n])
                     EXCEPT ![n] = after]
       /\ oi' = IF half > oi[after]
                THEN [oi EXCEPT ![n] = half]
                ELSE [IF afterNext # NoNode
                      THEN RecalcOrderIndex(oi[after], 2 * OrderIndexStep)
                      ELSE oi
                      EXCEPT ![n] = oi[after] + OrderIndexStep]
       /\ err' = "ok"
       /\ UNCHANGED rows

Unlink(n) ==
  IF n = NoNode THEN Fail("input")
  ELSE IF n \notin rows THEN Fail("notfound")
  ELSE IF prev[n] = NoNode /\ next[n] = NoNode /\ oi[n] = 0 THEN Done
  ELSE /\ next' = [UpdateNeighbor(next, prev[n], next[n]) EXCEPT ![n] = NoNode]
       /\ prev' = [UpdateNeighbor(prev, next[n], prev[n]) EXCEPT ![n] = NoNode]
       /\ oi' = [oi EXCEPT ![n] = 0]
       /\ err' = "ok"
       /\ UNCHANGED rows

-----------------------------------------------------------------------------
(* The application that owns the table *)

(* A new row is outside the list: the three columns are NULL. *)
CreateRow(n) ==
  /\ n \notin rows
  /\ rows' = rows \cup {n}
  /\ err' = "ok"
  /\ UNCHANGED <<prev, next, oi>>

(* A row is deleted once it has been unlinked. *)
DeleteRow(n) ==
  /\ n \in rows \ Linked
  /\ rows' = rows \ {n}
  /\ err' = "ok"
  /\ UNCHANGED <<prev, next, oi>>

Init ==
  /\ rows = {}
  /\ prev = [n \in Node |-> NoNode]
  /\ next = [n \in Node |-> NoNode]
  /\ oi = [n \in Node |-> 0]
  /\ err = "ok"

(* Insert* is for a row that is not in the list yet, as its comment asks. *)
Insert(n) ==
  /\ n \notin Linked
  /\ InsertToFirst(n) \/ InsertToLast(n)

Move(n) == MoveToFirst(n) \/ MoveToLast(n)

(* The position to move after is read off the list, or names no row. *)
MoveAfterListed(n, after) ==
  /\ after \in Linked \/ after \notin rows
  /\ MoveAfterID(n, after)

Next ==
  \/ \E n \in Node : CreateRow(n) \/ DeleteRow(n)
  \/ \E n \in NodeOrNull : Insert(n) \/ Move(n) \/ Unlink(n)
  \/ \E n \in NodeOrNull, after \in Node : MoveAfterListed(n, after)

Spec == Init /\ [][Next]_vars

-----------------------------------------------------------------------------
(* Properties *)

TypeOK ==
  /\ rows \subseteq Node
  /\ prev \in [Node -> NodeOrNull]
  /\ next \in [Node -> NodeOrNull]
  /\ oi \in [Node -> Nat]
  /\ err \in Outcome

(* A row outside the list keeps no pointer into it. *)
UnlinkedIsBare ==
  \A n \in Node \ Linked : prev[n] = NoNode /\ next[n] = NoNode /\ oi[n] = 0

(* No two rows of the list share an order_index. *)
OrderIndexUnique ==
  \A m, n \in Linked : oi[m] = oi[n] => m = n

(* Every next_field_id names the very next row by order_index, and only the
   last row has none. *)
NextIsSuccessor ==
  \A n \in Linked :
    IF next[n] = NoNode
    THEN \A m \in Linked : oi[m] <= oi[n]
    ELSE /\ next[n] \in Linked
         /\ oi[n] < oi[next[n]]
         /\ \A m \in Linked : oi[m] <= oi[n] \/ oi[next[n]] <= oi[m]

(* Every prev_field_id names the very previous row by order_index, and only
   the first row has none. *)
PrevIsPredecessor ==
  \A n \in Linked :
    IF prev[n] = NoNode
    THEN \A m \in Linked : oi[n] <= oi[m]
    ELSE /\ prev[n] \in Linked
         /\ oi[prev[n]] < oi[n]
         /\ \A m \in Linked : oi[n] <= oi[m] \/ oi[m] <= oi[prev[n]]

(* The two representations of the list agree: after any sequence of inserts,
   moves, unlinks and renumberings, prev_field_id, next_field_id and
   order_index describe one and the same list of the linked rows. *)
ListConsistent ==
  /\ UnlinkedIsBare
  /\ OrderIndexUnique
  /\ NextIsSuccessor
  /\ PrevIsPredecessor

(* The internal errors of the service ("entity not found", "row.PrevID > 0",
   "currentNode.NextID = firstNode.ID"...) report a damaged list: a call
   returns one only on the empty list, which has no first or last row. *)
InternalErrorOnlyWhenEmpty ==
  [][err' = "internal" => Linked = {}]_vars

(* FetchFirstNode and FetchLastNode assert that the first row by order_index
   has no previous row and the last one no next row. *)
EndsAreEnds ==
  /\ \A f \in Node : FetchFirstNode(f) => prev[f] = NoNode
  /\ \A l \in Node : FetchLastNode(l) => next[l] = NoNode

-----------------------------------------------------------------------------
(* The list a reader sees: the linked rows in the order of order_index. *)
Ahead ==
  [n \in Node |-> IF n \in Linked THEN {m \in Linked : oi[m] < oi[n]} ELSE {}]

L == INSTANCE ListSpec WITH listed <- Linked, ahead <- Ahead

(* Operation by operation: the row goes exactly where the name of the method
   says and all other rows keep their relative order, whether or not the
   call had to renumber order_index. *)
EachCallImplemented ==
  [][/\ \A n \in NodeOrNull :
          /\ InsertToFirst(n) /\ n \notin Linked => L!ToFirst(n)
          /\ InsertToLast(n) /\ n \notin Linked => L!InsertLast(n)
          /\ MoveToFirst(n) => L!ToFirst(n)
          /\ MoveToLast(n) => L!ToLast(n)
          /\ Unlink(n) => L!Unlist(n)
          /\ \A a \in Node : MoveAfterListed(n, a) => L!After(n, a)]_vars

(* The columns implement the list of ListSpec: each call changes the order a
   reader sees the way the method of that name changes the abstract list, or
   is refused as there; rows created or deleted beside it leave it alone. *)
ListImplemented == L!Spec /\ EachCallImplemented
=============================================================================
