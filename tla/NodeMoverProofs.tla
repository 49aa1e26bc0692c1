--------------------------- MODULE NodeMoverProofs ---------------------------
(***************************************************************************)
(* Proofs about NodeMover, for every set of rows and every step.           *)
(*                                                                         *)
(* Every operation of the service is a composition of three edits of the   *)
(* columns: take a row out, renumber, put a row between two neighbours.    *)
(* The lemmas say that each edit keeps the columns consistent; the proof   *)
(* for an operation only says which edits it is made of.  From the same    *)
(* edits follows what the operation does to the order a reader sees, which *)
(* is what ListSpec says of it.                                            *)
(***************************************************************************)
EXTENDS NodeMover, TLAPS

(* The columns p, q (neighbours) and o (order_index) describe one list of
   the rows of the set K: ListConsistent and the types, for given columns. *)
Columns(K, p, q, o) ==
  /\ K \subseteq Node
  /\ p \in [Node -> NodeOrNull]
  /\ q \in [Node -> NodeOrNull]
  /\ o \in [Node -> Nat]
  /\ \A n \in Node : n \notin K => p[n] = NoNode /\ q[n] = NoNode /\ o[n] = 0
  /\ \A n \in K : o[n] > 0
  /\ \A m, n \in K : o[m] = o[n] => m = n

Successors(K, q, o) ==
  /\ \A n \in K : q[n] \in K \/ q[n] = NoNode
  /\ \A n, m \in K : q[n] = NoNode => o[m] <= o[n]
  /\ \A n, m \in K : q[n] = m => o[n] < o[m]
  /\ \A n, m, k \in K : q[n] = m => o[k] <= o[n] \/ o[m] <= o[k]

Predecessors(K, p, o) ==
  /\ \A n \in K : p[n] \in K \/ p[n] = NoNode
  /\ \A n, m \in K : p[n] = NoNode => o[n] <= o[m]
  /\ \A n, m \in K : p[n] = m => o[m] < o[n]
  /\ \A n, m, k \in K : p[n] = m => o[n] <= o[k] \/ o[k] <= o[m]

Chain(K, p, q, o) ==
  Columns(K, p, q, o) /\ Successors(K, q, o) /\ Predecessors(K, p, o)

IInv == TypeOK /\ ListConsistent

(* Column c without the row n; d is the column of the other neighbours. *)
Out(c, d, n) ==
  [x \in Node |-> IF x = n THEN NoNode ELSE IF x = d[n] THEN c[n] ELSE c[x]]

(* Column c with the row n put next to a, before b in its direction. *)
Into(c, n, a, b) ==
  [x \in Node |-> IF x = n THEN a ELSE IF x = b THEN n ELSE c[x]]

(* The order_index column with the number of n set, or with every number
   above the border moved up. *)
Numbered(o, n, v) == [x \in Node |-> IF x = n THEN v ELSE o[x]]
MovedUp(o, b, s) == [x \in Node |-> IF o[x] > b THEN o[x] + s ELSE o[x]]

-----------------------------------------------------------------------------
(* Halving a positive order_index gives a smaller one, and halving the sum
   of two neighbours one that is below the larger of them. *)
LEMMA HalfBounds ==
  ASSUME NEW x \in Nat, NEW y \in Nat
  PROVE  /\ x \div 2 \in Nat
         /\ x > 0 => x \div 2 < x
         /\ x < y => (x + y) \div 2 < y
         /\ (x + y) \div 2 \in Nat
  BY SMT

(* The invariant of the module is Chain of its columns. *)
LEMMA IInvIsChain ==
  IInv <=> /\ rows \subseteq Node
           /\ err \in Outcome
           /\ Chain(Linked, prev, next, oi)
<1> USE NodeAssumption DEF TypeOK, Linked, NoNode, NodeOrNull
<1>1. TypeOK /\ UnlinkedIsBare /\ OrderIndexUnique
        <=> /\ rows \subseteq Node
            /\ err \in Outcome
            /\ Columns(Linked, prev, next, oi)
  BY DEF UnlinkedIsBare, OrderIndexUnique, Columns
<1>2. TypeOK => (NextIsSuccessor <=> Successors(Linked, next, oi))
  BY DEF NextIsSuccessor, Successors
<1>3. TypeOK => (PrevIsPredecessor <=> Predecessors(Linked, prev, oi))
  BY DEF PrevIsPredecessor, Predecessors
<1> QED BY <1>1, <1>2, <1>3 DEF IInv, ListConsistent, Chain

(* Neighbours point at each other. *)
LEMMA Mutual ==
  ASSUME NEW K, NEW p, NEW q, NEW o, Chain(K, p, q, o)
  PROVE  \A x, y \in K : q[x] = y <=> p[y] = x
<1> SUFFICES ASSUME NEW x \in K, NEW y \in K
             PROVE  q[x] = y <=> p[y] = x
  OBVIOUS
<1>0. /\ \A z \in K : o[z] \in Nat /\ z # NoNode
      /\ \A w, z \in K : o[w] = o[z] => w = z
  BY NodeAssumption DEF Chain, Columns, NoNode
<1>1. ASSUME q[x] = y PROVE p[y] = x
  <2>1. o[x] < o[y]
    BY <1>1 DEF Chain, Successors
  <2>2. p[y] \in K
    BY <2>1, <1>0 DEF Chain, Predecessors
  <2>3. o[x] <= o[p[y]] /\ o[p[y]] < o[y]
    BY <2>1, <2>2, <1>0 DEF Chain, Predecessors
  <2>4. o[p[y]] <= o[x]
    BY <2>3, <2>2, <1>0, <1>1 DEF Chain, Successors
  <2> QED BY <2>2, <2>3, <2>4, <1>0
<1>2. ASSUME p[y] = x PROVE q[x] = y
  <2>1. o[x] < o[y]
    BY <1>2 DEF Chain, Predecessors
  <2>2. q[x] \in K
    BY <2>1, <1>0 DEF Chain, Successors
  <2>3. o[q[x]] <= o[y] /\ o[x] < o[q[x]]
    BY <2>1, <2>2, <1>0 DEF Chain, Successors
  <2>4. o[y] <= o[q[x]]
    BY <2>3, <2>2, <1>0, <1>2 DEF Chain, Predecessors
  <2> QED BY <2>2, <2>3, <2>4, <1>0
<1> QED BY <1>1, <1>2

(* Taking a row out and joining its neighbours leaves a consistent list. *)
LEMMA DetachChain ==
  ASSUME NEW K, NEW p, NEW q, NEW o, Chain(K, p, q, o),
         NEW n \in K
  PROVE  Chain(K \ {n}, Out(p, q, n), Out(q, p, n), Numbered(o, n, 0))
<1> DEFINE J == K \ {n}
           pp == Out(p, q, n)
           qq == Out(q, p, n)
           oo == Numbered(o, n, 0)
<1>0. /\ \A x \in K : o[x] \in Nat /\ x # NoNode /\ x \in Node
      /\ \A x, y \in K : o[x] = o[y] => x = y
  BY NodeAssumption DEF Chain, Columns, NoNode
<1>1. /\ p[n] # NoNode => p[n] \in J /\ q[p[n]] = n /\ o[p[n]] < o[n]
      /\ q[n] # NoNode => q[n] \in J /\ p[q[n]] = n /\ o[n] < o[q[n]]
  BY <1>0, Mutual DEF Chain, Successors, Predecessors
<1>2. Columns(J, pp, qq, oo)
  BY <1>0, <1>1, NodeAssumption DEF Chain, Columns, NoNode, NodeOrNull, Out, Numbered
<1>3. \A x \in J : /\ oo[x] = o[x]
                   /\ x = p[n] => qq[x] = q[n]
                   /\ x # p[n] => qq[x] = q[x] /\ q[x] # n
                   /\ x = q[n] => pp[x] = p[n]
                   /\ x # q[n] => pp[x] = p[x] /\ p[x] # n
  BY <1>0, Mutual DEF Out, Numbered
<1> HIDE DEF pp, qq, oo
<1>4. Successors(J, qq, oo)
  <2>1. \A x \in J : qq[x] \in J \/ qq[x] = NoNode
    BY <1>1, <1>3 DEF Chain, Successors
  <2>2. \A x, m \in J : qq[x] = NoNode => o[m] <= o[x]
    BY <1>0, <1>1, <1>3 DEF Chain, Successors
  <2>3. \A x, m \in J : qq[x] = m => o[x] < o[m]
    BY <1>0, <1>1, <1>3 DEF Chain, Successors
  <2>4. \A x, m, k \in J : qq[x] = m => o[k] <= o[x] \/ o[m] <= o[k]
    BY <1>0, <1>1, <1>3 DEF Chain, Successors
  <2> QED BY <2>1, <2>2, <2>3, <2>4, <1>3 DEF Successors
<1>5. Predecessors(J, pp, oo)
  <2>1. \A x \in J : pp[x] \in J \/ pp[x] = NoNode
    BY <1>1, <1>3 DEF Chain, Predecessors
  <2>2. \A x, m \in J : pp[x] = NoNode => o[x] <= o[m]
    BY <1>0, <1>1, <1>3 DEF Chain, Predecessors
  <2>3. \A x, m \in J : pp[x] = m => o[m] < o[x]
    BY <1>0, <1>1, <1>3 DEF Chain, Predecessors
  <2>4. \A x, m, k \in J : pp[x] = m => o[x] <= o[k] \/ o[k] <= o[m]
    BY <1>0, <1>1, <1>3 DEF Chain, Predecessors
  <2> QED BY <2>1, <2>2, <2>3, <2>4, <1>3 DEF Predecessors
<1>6. Chain(J, pp, qq, oo)
  BY <1>2, <1>4, <1>5 DEF Chain
<1> QED BY <1>6 DEF pp, qq, oo

(* Moving every order_index above a border up keeps the list consistent. *)
LEMMA RenumberChain ==
  ASSUME NEW K, NEW p, NEW q, NEW o, Chain(K, p, q, o),
         NEW b \in Nat, NEW s \in Nat
  PROVE  Chain(K, p, q, MovedUp(o, b, s))
<1> DEFINE oo == MovedUp(o, b, s)
<1>0. /\ \A x \in K : o[x] \in Nat /\ x # NoNode /\ x \in Node
      /\ \A x, y \in K : o[x] = o[y] => x = y
  BY NodeAssumption DEF Chain, Columns, NoNode
<1>a. oo \in [Node -> Nat] /\ \A x \in Node \ K : oo[x] = o[x]
  BY DEF Chain, Columns, MovedUp
<1>b. \A x \in K : oo[x] = IF o[x] > b THEN o[x] + s ELSE o[x]
  BY <1>0 DEF MovedUp
<1> HIDE DEF oo
<1>1. ASSUME NEW x \in K, NEW y \in K
      PROVE  /\ (o[x] < o[y]) <=> (oo[x] < oo[y])
             /\ (o[x] <= o[y]) <=> (oo[x] <= oo[y])
             /\ (o[x] = o[y]) <=> (oo[x] = oo[y])
             /\ oo[x] > 0
  <2>1. /\ o[x] \in Nat /\ o[y] \in Nat /\ b \in Nat /\ s \in Nat /\ o[x] > 0
        /\ oo[x] = IF o[x] > b THEN o[x] + s ELSE o[x]
        /\ oo[y] = IF o[y] > b THEN o[y] + s ELSE o[y]
    BY <1>0, <1>b DEF Chain, Columns
  <2> QED BY <2>1
<1>2. Columns(K, p, q, oo)
  BY <1>0, <1>1, <1>a DEF Chain, Columns
<1>3. Successors(K, q, oo)
  BY <1>0, <1>1 DEF Chain, Successors
<1>4. Predecessors(K, p, oo)
  BY <1>0, <1>1 DEF Chain, Predecessors
<1> QED BY <1>2, <1>3, <1>4 DEF Chain, oo

(* a and b are neighbours, or the end of the list and its end marker. *)
Gap(K, p, q, a, b) ==
  /\ a \in K \/ a = NoNode
  /\ b \in K \/ b = NoNode
  /\ a # NoNode => q[a] = b
  /\ b # NoNode => p[b] = a
  /\ a = NoNode /\ b = NoNode => K = {}

(* Putting a row into a gap, under a number between those of the neighbours,
   leaves a consistent list. *)
LEMMA AttachChain ==
  ASSUME NEW K, NEW p, NEW q, NEW o, Chain(K, p, q, o),
         NEW n \in Node, n \notin K,
         NEW a, NEW b, Gap(K, p, q, a, b),
         NEW v \in Nat, v > 0,
         a # NoNode => o[a] < v,
         b # NoNode => v < o[b]
  PROVE  Chain(K \cup {n}, Into(p, n, a, b), Into(q, n, b, a), Numbered(o, n, v))
<1> DEFINE J == K \cup {n}
           pp == Into(p, n, a, b)
           qq == Into(q, n, b, a)
           oo == Numbered(o, n, v)
<1>0. /\ \A x \in K : o[x] \in Nat /\ x # NoNode /\ x \in Node /\ x # n
      /\ \A x, y \in K : o[x] = o[y] => x = y
      /\ n # NoNode
  BY NodeAssumption DEF Chain, Columns, NoNode
<1>1. \A x \in K : /\ o[x] < v => a \in K /\ o[x] <= o[a]
                   /\ v <= o[x] => b \in K /\ o[b] <= o[x] /\ v < o[x]
  <2> SUFFICES ASSUME NEW x \in K
               PROVE  /\ o[x] < v => a \in K /\ o[x] <= o[a]
                      /\ v <= o[x] => b \in K /\ o[b] <= o[x] /\ v < o[x]
    OBVIOUS
  <2>1. CASE a \in K /\ b \in K
    <3>1. o[x] <= o[a] \/ o[b] <= o[x]
      BY <2>1, <1>0 DEF Gap, Chain, Successors
    <3> QED BY <2>1, <3>1, <1>0
  <2>2. CASE a \in K /\ b = NoNode
    <3>1. o[x] <= o[a]
      BY <2>2, <1>0 DEF Gap, Chain, Successors
    <3> QED BY <2>2, <3>1, <1>0
  <2>3. CASE a = NoNode /\ b \in K
    <3>1. o[b] <= o[x]
      BY <2>3, <1>0 DEF Gap, Chain, Predecessors
    <3> QED BY <2>3, <3>1, <1>0
  <2> QED BY <2>1, <2>2, <2>3 DEF Gap
<1>2. Columns(J, pp, qq, oo)
  <2>1. /\ J \subseteq Node
        /\ pp \in [Node -> NodeOrNull]
        /\ qq \in [Node -> NodeOrNull]
        /\ oo \in [Node -> Nat]
    BY <1>0 DEF Chain, Columns, Gap, NodeOrNull, Into, Numbered
  <2>2. \A x \in Node : x \notin J => pp[x] = NoNode /\ qq[x] = NoNode /\ oo[x] = 0
    BY <1>0, NodeAssumption DEF Chain, Columns, Gap, NoNode, Into, Numbered
  <2>3. oo[n] = v /\ \A x \in K : oo[x] = o[x] /\ o[x] > 0
    BY <1>0 DEF Chain, Columns, Numbered
  <2> HIDE DEF pp, qq, oo
  <2>4. \A x, y \in J : oo[x] = oo[y] => x = y
    BY <1>0, <1>1, <2>3
  <2> QED BY <2>1, <2>2, <2>3, <2>4 DEF Columns
<1>3. /\ pp[n] = a /\ qq[n] = b /\ oo[n] = v
      /\ a \in K => oo[a] < v /\ qq[a] = n /\ q[a] = b
      /\ b \in K => v < oo[b] /\ pp[b] = n /\ p[b] = a
      /\ \A x \in K : oo[x] = o[x]
      /\ \A x \in K : x # a => qq[x] = q[x]
      /\ \A x \in K : x # b => pp[x] = p[x]
      /\ \A x \in K : x # a => q[x] # b \/ b = NoNode
      /\ \A x \in K : x # b => p[x] # a \/ a = NoNode
  <2>1. /\ \A x \in K : x # a => q[x] # b \/ b = NoNode
        /\ \A x \in K : x # b => p[x] # a \/ a = NoNode
    BY Mutual DEF Gap
  <2> QED BY <2>1, <1>0 DEF Gap, Into, Numbered
<1> HIDE DEF pp, qq, oo
<1>4. Successors(J, qq, oo)
  <2>1. \A x \in J : qq[x] \in J \/ qq[x] = NoNode
    BY <1>3 DEF Chain, Successors, Gap
  <2>2. \A x, m \in J : qq[x] = NoNode => oo[m] <= oo[x]
    BY <1>0, <1>1, <1>3 DEF Chain, Successors, Gap
  <2>3. \A x, m \in J : qq[x] = m => oo[x] < oo[m]
    BY <1>0, <1>1, <1>3 DEF Chain, Successors, Gap
  <2>4. \A x, m, k \in J : qq[x] = m => oo[k] <= oo[x] \/ oo[m] <= oo[k]
    BY <1>0, <1>1, <1>3 DEF Chain, Successors, Gap
  <2> QED BY <2>1, <2>2, <2>3, <2>4 DEF Successors
<1>5. Predecessors(J, pp, oo)
  <2>1. \A x \in J : pp[x] \in J \/ pp[x] = NoNode
    BY <1>3 DEF Chain, Predecessors, Gap
  <2>2. \A x, m \in J : pp[x] = NoNode => oo[x] <= oo[m]
    BY <1>0, <1>1, <1>3 DEF Chain, Predecessors, Gap
  <2>3. \A x, m \in J : pp[x] = m => oo[m] < oo[x]
    BY <1>0, <1>1, <1>3 DEF Chain, Predecessors, Gap
  <2>4. \A x, m, k \in J : pp[x] = m => oo[x] <= oo[k] \/ oo[k] <= oo[m]
    BY <1>0, <1>1, <1>3 DEF Chain, Predecessors, Gap
  <2> QED BY <2>1, <2>2, <2>3, <2>4 DEF Predecessors
<1>6. Chain(J, pp, qq, oo)
  BY <1>2, <1>4, <1>5 DEF Chain
<1> QED BY <1>6 DEF pp, qq, oo

-----------------------------------------------------------------------------
(* The steps of the service *)

(* The same of the state after the step. *)
LEMMA IInvIsChainPrimed ==
  (IInv <=> /\ rows \subseteq Node
            /\ err \in Outcome
            /\ Chain(Linked, prev, next, oi))'
  BY IInvIsChain, PTL

(* A call that returns an error changes no row. *)
LEMMA FailIInv ==
  ASSUME IInv, NEW e \in Outcome, Fail(e)
  PROVE  IInv'
<1>1. Linked' = Linked /\ prev' = prev /\ next' = next /\ oi' = oi
  BY DEF Fail, Linked
<1>2. rows' = rows /\ err' = e
  BY DEF Fail
<1> QED BY <1>1, <1>2, IInvIsChain, IInvIsChainPrimed

(* A call that finds nothing to do changes no row. *)
LEMMA DoneIInv ==
  ASSUME IInv, Done
  PROVE  IInv'
  BY FailIInv DEF Done, Fail, Outcome

(* Whether or not the row is in the list, the list without it is consistent. *)
LEMMA WithoutChain ==
  ASSUME IInv, NEW n \in Node
  PROVE  Chain(Linked \ {n}, Out(prev, next, n), Out(next, prev, n), Numbered(oi, n, 0))
<1>1. Chain(Linked, prev, next, oi)
  BY IInvIsChain
<1>2. CASE n \in Linked
  BY <1>1, <1>2, DetachChain
<1>3. CASE n \notin Linked
  <2>1. /\ Out(prev, next, n) = prev
        /\ Out(next, prev, n) = next
        /\ Numbered(oi, n, 0) = oi
    BY <1>1, <1>3, NodeAssumption DEF Chain, Columns, Out, Numbered, NoNode
  <2>2. Linked \ {n} = Linked
    BY <1>3
  <2> QED BY <1>1, <2>1, <2>2
<1> QED BY <1>2, <1>3

(* The step takes the row n out of the list (if it is there), moves the
   numbers above minBorder up by step, and puts n into the gap between a and
   b under a number v between theirs. *)
Relocates(n, a, b, minBorder, step, v) ==
  /\ n \in Node /\ n \in rows
  /\ minBorder \in Nat /\ step \in Nat /\ v \in Nat /\ v > 0
  /\ Gap(Linked \ {n}, Out(prev, next, n), Out(next, prev, n), a, b)
  /\ a # NoNode => MovedUp(oi, minBorder, step)[a] < v
  /\ b # NoNode => v < MovedUp(oi, minBorder, step)[b]
  /\ prev' = Into(Out(prev, next, n), n, a, b)
  /\ next' = Into(Out(next, prev, n), n, b, a)
  /\ oi' = Numbered(MovedUp(oi, minBorder, step), n, v)
  /\ err' = "ok"
  /\ rows' = rows

(* Such a step keeps the invariant. *)
LEMMA RelocateIInv ==
  ASSUME IInv,
         NEW n, NEW a, NEW b, NEW minBorder, NEW step, NEW v,
         Relocates(n, a, b, minBorder, step, v)
  PROVE  IInv'
<1> USE DEF Relocates
<1> DEFINE K  == Linked \ {n}
           oo == MovedUp(Numbered(oi, n, 0), minBorder, step)
<1>1. Chain(Linked, prev, next, oi) /\ rows \subseteq Node
  BY IInvIsChain
<1>2. Chain(K, Out(prev, next, n), Out(next, prev, n), oo)
  BY WithoutChain, RenumberChain
<1>3. \A x \in Node : x # n => oo[x] = MovedUp(oi, minBorder, step)[x]
  BY <1>1 DEF Chain, Columns, Numbered, MovedUp
<1>4. oi' = Numbered(oo, n, v)
  BY <1>3 DEF Numbered
<1>5. /\ a # NoNode => oo[a] < v
      /\ b # NoNode => v < oo[b]
  BY <1>1, <1>3 DEF Gap, Chain, Columns
<1> HIDE DEF oo
<1>6. Chain(K \cup {n}, prev', next', oi')
  BY <1>2, <1>4, <1>5, AttachChain
<1>7. Linked' = K \cup {n}
  <2>1. \A x \in Node : x \notin K \cup {n} => oi'[x] = 0
    BY <1>6 DEF Chain, Columns
  <2>2. \A x \in K \cup {n} : oi'[x] > 0 /\ x \in rows
    BY <1>6 DEF Chain, Columns, Linked
  <2> QED BY <2>1, <2>2, <1>1 DEF Linked
<1> QED BY <1>1, <1>6, <1>7, IInvIsChainPrimed DEF Outcome

(* The list of ListSpec, spelled out: the rows in front of a row are those
   with a lower order_index. *)
LEMMA AheadIs ==
  \A x, y : y \in Node /\ y \in Linked => (x \in Ahead[y] <=> x \in Linked /\ oi[x] < oi[y])
BY DEF Ahead

(* A step that gives n a number right above those of front, and keeps the
   order of all other rows, is Place of ListSpec. *)
LEMMA Places ==
  ASSUME IInv, IInv', NEW n \in Linked', NEW front \in SUBSET (Linked \ {n}),
         err' = "ok", UNCHANGED rows,
         Linked' = Linked \cup {n},
         \A x, y \in Linked \ {n} : oi'[x] < oi'[y] <=> oi[x] < oi[y],
         \A x \in Linked \ {n} : x \in front <=> oi'[x] < oi'[n]
  PROVE  L!Place(n, front)
<1>1. Linked \subseteq Node /\ n \in Node /\ Linked' \subseteq Node
  BY IInvIsChain, IInvIsChainPrimed DEF Chain, Columns
<1>2. /\ \A x \in Linked' : oi'[x] \in Nat
      /\ \A x, y \in Linked' : oi'[x] = oi'[y] => x = y
  BY IInvIsChainPrimed DEF Chain, Columns
<1>3. \A x \in Linked : oi[x] \in Nat
  BY IInvIsChain DEF Chain, Columns
<1> DEFINE New(x) == IF x = n THEN front
                     ELSE IF x \in Linked \ front THEN Ahead[x] \cup {n}
                     ELSE Ahead[x] \ {n}
<1>4. ASSUME NEW x \in Node PROVE Ahead'[x] = New(x)
  <2>1. Ahead'[x] = IF x \in Linked' THEN {m \in Linked' : oi'[m] < oi'[x]} ELSE {}
    BY DEF Ahead
  <2>2. Ahead[x] = IF x \in Linked THEN {m \in Linked : oi[m] < oi[x]} ELSE {}
    BY DEF Ahead
  <2>3. CASE x = n
    BY <1>2, <2>1, <2>3
  <2>4. CASE x \in Linked \ {n}
    <3>1. ~(oi'[n] < oi'[n]) /\ (x \in front <=> ~(oi'[n] < oi'[x]))
      BY <1>2, <2>4
    <3>2. ASSUME NEW m \in Linked \ {n} PROVE m \in Ahead'[x] <=> m \in Ahead[x]
      BY <2>1, <2>2, <2>4
    <3>3. n \in Ahead'[x] <=> x \notin front
      BY <2>1, <2>4, <3>1
    <3> QED BY <2>1, <2>2, <2>4, <3>2, <3>3
  <2>5. CASE x \notin Linked \cup {n}
    BY <2>1, <2>2, <2>5
  <2> QED BY <2>3, <2>4, <2>5
<1>5. Ahead' = [x \in Node |-> New(x)]
  BY <1>4 DEF Ahead
<1> QED BY <1>5 DEF L!Place

(* The rows in front of a row that goes behind row a, or to the front. *)
Front(n, a) == IF a = NoNode THEN {} ELSE (Ahead[a] \ {n}) \cup {a}

(* Putting a row into the gap behind a is what ListSpec says of it. *)
LEMMA RelocatePlaces ==
  ASSUME IInv,
         NEW n, NEW a, NEW b, NEW minBorder, NEW step, NEW v,
         Relocates(n, a, b, minBorder, step, v)
  PROVE  L!Place(n, Front(n, a))
<1> USE DEF Relocates
<1> DEFINE K == Linked \ {n}
<1>1. Chain(Linked, prev, next, oi) /\ rows \subseteq Node
  BY IInvIsChain
<1>2. IInv' /\ Chain(Linked', prev', next', oi')
  BY RelocateIInv, IInvIsChainPrimed
<1>3. \A x \in K : oi[x] \in Nat /\ x \in Node /\ oi'[x] = IF oi[x] > minBorder THEN oi[x] + step ELSE oi[x]
  BY <1>1 DEF Chain, Columns, Numbered, MovedUp
<1>4. oi'[n] = v
  BY DEF Numbered
<1>5. Linked' = Linked \cup {n}
  <2>1. \A x \in Node \ {n} : oi'[x] > 0 <=> oi[x] > 0
    BY <1>1 DEF Chain, Columns, Numbered, MovedUp
  <2> QED BY <1>1, <1>4, <2>1 DEF Linked
<1>6. \A x, y \in K : oi'[x] < oi'[y] <=> oi[x] < oi[y]
  BY <1>3
<1>7. Chain(K, Out(prev, next, n), Out(next, prev, n), Numbered(oi, n, 0))
  BY WithoutChain
<1>8. /\ \A x, y \in K : oi[x] <= oi[y] => oi'[x] <= oi'[y]
      /\ \A x \in K : MovedUp(oi, minBorder, step)[x] = oi'[x] /\ oi'[x] \in Nat
  BY <1>3 DEF MovedUp
<1>9. \A x \in K : Numbered(oi, n, 0)[x] = oi[x] /\ x # NoNode
  BY <1>3, NodeAssumption DEF Numbered, NoNode
<1>10. CASE a = NoNode
  <2>1. ASSUME NEW x \in K PROVE ~(oi'[x] < oi'[n])
    <3>1. b \in K /\ oi'[n] < oi'[b]
      BY <1>4, <1>8, <1>9, <1>10, <2>1 DEF Gap
    <3>2. oi[b] <= oi[x]
      BY <1>7, <1>9, <1>10, <2>1, <3>1 DEF Gap, Chain, Predecessors
    <3>3. oi'[b] <= oi'[x]
      BY <1>8, <2>1, <3>1, <3>2
    <3> QED BY <1>4, <1>8, <2>1, <3>1, <3>3
  <2> QED BY <1>2, <1>4, <1>5, <1>6, <1>10, <2>1, Places DEF Front
<1>11. CASE a # NoNode
  <2>1. a \in K /\ oi'[a] < oi'[n]
    BY <1>4, <1>8, <1>11 DEF Gap
  <2>2. \A x \in K : x \in Front(n, a) <=> oi[x] <= oi[a]
    BY <1>1, <1>3, <1>11, <2>1, AheadIs DEF Front, Chain, Columns
  <2>3. ASSUME NEW x \in K, oi[x] <= oi[a] PROVE oi'[x] < oi'[n]
    BY <1>4, <1>8, <2>1, <2>3
  <2>4. ASSUME NEW x \in K, ~(oi[x] <= oi[a]) PROVE ~(oi'[x] < oi'[n])
    <3>1. b \in K /\ oi'[n] < oi'[b]
      BY <1>4, <1>7, <1>8, <1>9, <1>11, <2>1, <2>4 DEF Gap, Chain, Successors
    <3>2. oi[b] <= oi[x]
      BY <1>7, <1>9, <1>11, <2>1, <2>4, <3>1 DEF Gap, Chain, Successors
    <3>3. oi'[b] <= oi'[x]
      BY <1>8, <2>4, <3>1, <3>2
    <3> QED BY <1>4, <1>8, <2>4, <3>1, <3>3
  <2>5. Front(n, a) \in SUBSET K
    BY <1>1, <1>3, <1>11, <2>1, AheadIs DEF Front, Chain, Columns
  <2>6. \A x \in K : x \in Front(n, a) <=> oi'[x] < oi'[n]
    BY <2>2, <2>3, <2>4
  <2> QED BY <1>2, <1>4, <1>5, <1>6, <2>5, <2>6, Places
<1> QED BY <1>10, <1>11

(* A call that is refused, here and in ListSpec. *)
LEMMA FailRefuses ==
  ASSUME NEW e, Fail(e)
  PROVE  L!Refuse(e)
BY DEF Fail, L!Refuse, Linked, Ahead

(* A call that finds its row in place is not refused: there is nothing to do. *)
LEMMA StaysPlaced ==
  ASSUME IInv, NEW n \in Linked, Done
  PROVE  L!Place(n, Ahead[n])
<1>1. /\ \A x \in Linked : oi[x] \in Nat /\ x \in Node
      /\ \A x, y \in Linked : oi[x] = oi[y] => x = y
  BY IInvIsChain DEF Chain, Columns
<1>2. /\ err' = "ok" /\ UNCHANGED rows
      /\ Linked' = Linked /\ oi' = oi
  BY DEF Done, Linked
<1>3. IInv'
  BY DoneIInv
<1>4. Ahead[n] \in SUBSET (Linked \ {n}) /\ \A x \in Linked : x \in Ahead[n] <=> oi[x] < oi[n]
  BY <1>1, AheadIs
<1> QED BY <1>2, <1>3, <1>4, Places

(* The first row has no previous row, no row has it for its next one, and no
   row is in front of it. *)
LEMMA FirstRow ==
  ASSUME IInv, NEW f \in NodeOrNull, FetchFirstNode(f)
  PROVE  /\ f = NoNode <=> Linked = {}
         /\ f # NoNode => /\ f \in Linked /\ f \in Node
                          /\ prev[f] = NoNode
                          /\ \A n \in Node : next[n] # f
                          /\ Ahead[f] = {}
<1>1. /\ Chain(Linked, prev, next, oi)
      /\ \A x \in Linked : x # NoNode /\ x \in Node /\ oi[x] \in Nat
  BY IInvIsChain, NodeAssumption DEF Chain, Columns, NoNode
<1>2. CASE Linked = {}
  BY <1>2 DEF FetchFirstNode
<1>3. CASE Linked # {}
  <2>1. f \in Linked /\ \A m \in Linked : ~(oi[m] < oi[f])
    BY <1>1, <1>3 DEF FetchFirstNode
  <2>2. prev[f] = NoNode
    BY <1>1, <2>1 DEF Chain, Predecessors
  <2>3. \A n \in Node : next[n] # f
    <3>1. \A n \in Node : next[n] = f => n \in Linked
      BY <1>1, <2>1 DEF Chain, Columns
    <3>2. \A x, y \in Linked : next[x] = y <=> prev[y] = x
      BY <1>1, Mutual
    <3> QED BY <1>1, <2>1, <2>2, <3>1, <3>2
  <2>4. Ahead[f] = {}
    BY <1>1, <2>1 DEF Ahead
  <2> QED BY <1>1, <1>3, <2>1, <2>2, <2>3, <2>4
<1> QED BY <1>2, <1>3

(* The same of the last row, with all the others in front of it. *)
LEMMA LastRow ==
  ASSUME IInv, NEW l \in NodeOrNull, FetchLastNode(l)
  PROVE  /\ l = NoNode <=> Linked = {}
         /\ l # NoNode => /\ l \in Linked /\ l \in Node
                          /\ next[l] = NoNode
                          /\ \A n \in Node : prev[n] # l
                          /\ Ahead[l] = Linked \ {l}
<1>1. /\ Chain(Linked, prev, next, oi)
      /\ \A x \in Linked : x # NoNode /\ x \in Node /\ oi[x] \in Nat
      /\ \A x, y \in Linked : oi[x] = oi[y] => x = y
  BY IInvIsChain, NodeAssumption DEF Chain, Columns, NoNode
<1>2. CASE Linked = {}
  BY <1>2 DEF FetchLastNode
<1>3. CASE Linked # {}
  <2>1. l \in Linked /\ \A m \in Linked : ~(oi[l] < oi[m])
    BY <1>1, <1>3 DEF FetchLastNode
  <2>2. next[l] = NoNode
    BY <1>1, <2>1 DEF Chain, Successors
  <2>3. \A n \in Node : prev[n] # l
    <3>1. \A n \in Node : prev[n] = l => n \in Linked
      BY <1>1, <2>1 DEF Chain, Columns
    <3>2. \A x, y \in Linked : next[x] = y <=> prev[y] = x
      BY <1>1, Mutual
    <3> QED BY <1>1, <2>1, <2>2, <3>1, <3>2
  <2>4. Ahead[l] = Linked \ {l}
    <3>1. \A m \in Linked : oi[m] < oi[l] <=> m # l
      BY <1>1, <2>1
    <3> QED BY <1>1, <2>1, <3>1 DEF Ahead
  <2> QED BY <1>1, <1>3, <2>1, <2>2, <2>3, <2>4
<1> QED BY <1>2, <1>3

(* The number given to a row that goes before the first row f, and what the
   renumbering it may need is in terms of MovedUp. *)
LEMMA FirstNumber ==
  ASSUME IInv, NEW n \in Node, NEW f \in Linked,
         oi' = IF oi[f] \div 2 = 0
               THEN [RecalcOrderIndex(0, 2 * OrderIndexStep) EXCEPT ![n] = OrderIndexStep]
               ELSE [oi EXCEPT ![n] = oi[f] \div 2]
  PROVE  \E border \in Nat, step \in Nat, v \in Nat :
           /\ v > 0
           /\ oi' = Numbered(MovedUp(oi, border, step), n, v)
           /\ v < MovedUp(oi, border, step)[f]
<1>1. /\ oi \in [Node -> Nat] /\ f \in Node /\ oi[f] \in Nat /\ oi[f] > 0
      /\ OrderIndexStep \in Nat /\ OrderIndexStep > 0
  BY StepAssumption DEF IInv, TypeOK, Linked
<1>2. oi[f] \div 2 \in Nat /\ oi[f] \div 2 < oi[f]
  BY <1>1, HalfBounds
<1>3. CASE oi[f] \div 2 = 0
  <2>1. oi' = Numbered(MovedUp(oi, 0, 2 * OrderIndexStep), n, OrderIndexStep)
    BY <1>1, <1>3 DEF Numbered, MovedUp, RecalcOrderIndex
  <2>2. OrderIndexStep < MovedUp(oi, 0, 2 * OrderIndexStep)[f]
    BY <1>1 DEF MovedUp
  <2> QED BY <1>1, <2>1, <2>2
<1>4. CASE oi[f] \div 2 # 0
  <2>1. MovedUp(oi, 0, 0) = oi
    BY <1>1 DEF MovedUp
  <2>2. oi' = Numbered(MovedUp(oi, 0, 0), n, oi[f] \div 2)
    BY <1>1, <1>4, <2>1 DEF Numbered
  <2>3. oi[f] \div 2 > 0 /\ oi[f] \div 2 < MovedUp(oi, 0, 0)[f]
    BY <1>2, <1>4, <2>1
  <2> DEFINE h == oi[f] \div 2
  <2>4. h \in Nat /\ h > 0 /\ h < MovedUp(oi, 0, 0)[f]
    BY <1>2, <2>3
  <2>5. oi' = Numbered(MovedUp(oi, 0, 0), n, h)
    BY <2>2
  <2> HIDE DEF h
  <2> QED BY <2>4, <2>5
<1> QED BY <1>3, <1>4

(* InsertToFirst and MoveToFirst put n into the gap before the first row. *)
LEMMA ToFirstIInv ==
  ASSUME IInv, NEW n \in Node, n \in rows, NEW f \in Linked,
         prev[f] = NoNode, n # f, next[n] # f,
         prev' = [UpdateNeighbor([prev EXCEPT ![f] = n], next[n], prev[n]) EXCEPT ![n] = NoNode],
         next' = [UpdateNeighbor(next, prev[n], next[n]) EXCEPT ![n] = f],
         oi' = IF oi[f] \div 2 = 0
               THEN [RecalcOrderIndex(0, 2 * OrderIndexStep) EXCEPT ![n] = OrderIndexStep]
               ELSE [oi EXCEPT ![n] = oi[f] \div 2],
         err' = "ok", UNCHANGED rows
  PROVE  IInv' /\ L!Place(n, {})
<1>1. Chain(Linked, prev, next, oi)
  BY IInvIsChain
<1>2. PICK border \in Nat, step \in Nat, v \in Nat :
        /\ v > 0
        /\ oi' = Numbered(MovedUp(oi, border, step), n, v)
        /\ v < MovedUp(oi, border, step)[f]
  BY FirstNumber
<1>3. Gap(Linked \ {n}, Out(prev, next, n), Out(next, prev, n), NoNode, f)
  BY <1>1, NodeAssumption DEF Gap, Out, Chain, Columns, NoNode
<1>4. prev' = Into(Out(prev, next, n), n, NoNode, f)
  BY <1>1, NodeAssumption DEF Into, Out, Chain, Columns, UpdateNeighbor, NodeOrNull, NoNode
<1>5. next' = Into(Out(next, prev, n), n, f, NoNode)
  BY <1>1, NodeAssumption DEF Into, Out, Chain, Columns, UpdateNeighbor, NodeOrNull, NoNode
<1>6. Relocates(n, NoNode, f, border, step, v)
  BY <1>2, <1>3, <1>4, <1>5 DEF Relocates
<1> QED BY <1>6, RelocateIInv, RelocatePlaces DEF Front

(* InsertToFirst is ToFirst of ListSpec: a row that is not in the list yet
   has no neighbours to join. *)
LEMMA InsertToFirstIInv ==
  ASSUME IInv, NEW n \in NodeOrNull, n \notin Linked, InsertToFirst(n)
  PROVE  IInv' /\ L!ToFirst(n)
<1>1. PICK f \in NodeOrNull :
        /\ FetchFirstNode(f)
        /\ n = NoNode => Fail("input")
        /\ n # NoNode /\ f = NoNode => Fail("internal")
        /\ n # NoNode /\ f # NoNode /\ prev[f] = NoNode /\ n # f /\ n \notin rows =>
             Fail("notfound")
        /\ n # NoNode /\ f # NoNode /\ prev[f] = NoNode /\ n # f /\ n \in rows =>
             /\ prev' = [prev EXCEPT ![f] = n, ![n] = NoNode]
             /\ next' = [next EXCEPT ![n] = f]
             /\ oi' = IF oi[f] \div 2 = 0
                      THEN [RecalcOrderIndex(0, 2 * OrderIndexStep)
                              EXCEPT ![n] = OrderIndexStep]
                      ELSE [oi EXCEPT ![n] = oi[f] \div 2]
             /\ err' = "ok"
             /\ UNCHANGED rows
  BY DEF InsertToFirst
<1>2. /\ f = NoNode <=> Linked = {}
      /\ f # NoNode => f \in Linked /\ f \in Node /\ prev[f] = NoNode /\ n # f
  BY <1>1, FirstRow
<1>3. CASE n = NoNode \/ f = NoNode \/ n \notin rows
  BY <1>1, <1>2, <1>3, FailIInv, FailRefuses DEF L!ToFirst, Outcome
<1>4. CASE n # NoNode /\ f # NoNode /\ n \in rows
  <2>1. /\ Chain(Linked, prev, next, oi)
        /\ f \in Linked /\ n \in Node /\ next[n] = NoNode /\ prev[n] = NoNode
    BY <1>2, <1>4, IInvIsChain DEF Chain, Columns, NodeOrNull
  <2>2. /\ prev' = [UpdateNeighbor([prev EXCEPT ![f] = n], next[n], prev[n]) EXCEPT ![n] = NoNode]
        /\ next' = [UpdateNeighbor(next, prev[n], next[n]) EXCEPT ![n] = f]
    BY <1>1, <1>2, <1>4, <2>1 DEF UpdateNeighbor
  <2>3. IInv' /\ L!Place(n, {})
    BY <1>1, <1>2, <1>4, <2>1, <2>2, ToFirstIInv
  <2> QED BY <1>2, <1>4, <2>3 DEF L!ToFirst
<1> QED BY <1>3, <1>4

(* MoveToFirst is ToFirst of ListSpec. *)
LEMMA MoveToFirstIInv ==
  ASSUME IInv, NEW n \in NodeOrNull, MoveToFirst(n)
  PROVE  IInv' /\ L!ToFirst(n)
<1>1. PICK f \in NodeOrNull :
        /\ FetchFirstNode(f)
        /\ n = NoNode => Fail("input")
        /\ n # NoNode /\ f = NoNode => Fail("internal")
        /\ n # NoNode /\ f # NoNode /\ prev[f] = NoNode /\ n = f => Done
        /\ n # NoNode /\ f # NoNode /\ prev[f] = NoNode /\ n # f /\ n \notin rows =>
             Fail("notfound")
        /\ n # NoNode /\ f # NoNode /\ prev[f] = NoNode /\ n # f /\ n \in rows
           /\ next[n] # f =>
             /\ prev' = [UpdateNeighbor([prev EXCEPT ![f] = n], next[n], prev[n])
                           EXCEPT ![n] = NoNode]
             /\ next' = [UpdateNeighbor(next, prev[n], next[n]) EXCEPT ![n] = f]
             /\ oi' = IF oi[f] \div 2 = 0
                      THEN [RecalcOrderIndex(0, 2 * OrderIndexStep)
                              EXCEPT ![n] = OrderIndexStep]
                      ELSE [oi EXCEPT ![n] = oi[f] \div 2]
             /\ err' = "ok"
             /\ UNCHANGED rows
  BY DEF MoveToFirst
<1>2. /\ f = NoNode <=> Linked = {}
      /\ f # NoNode => /\ f \in Linked /\ prev[f] = NoNode
                       /\ \A x \in Node : next[x] # f
                       /\ Ahead[f] = {}
  BY <1>1, FirstRow
<1>3. CASE n = NoNode \/ f = NoNode \/ (n # f /\ n \notin rows)
  BY <1>1, <1>2, <1>3, FailIInv, FailRefuses DEF L!ToFirst, Outcome
<1>4. CASE n # NoNode /\ n = f
  <2>1. Done /\ n \in Linked /\ Ahead[n] = {}
    BY <1>1, <1>2, <1>4
  <2>2. IInv' /\ L!Place(n, {})
    BY <2>1, DoneIInv, StaysPlaced
  <2> QED BY <1>4, <2>1, <2>2 DEF L!ToFirst, Linked
<1>5. CASE n # NoNode /\ f # NoNode /\ n # f /\ n \in rows
  <2>1. f \in Linked /\ n \in Node /\ next[n] # f
    BY <1>2, <1>5 DEF NodeOrNull
  <2>2. IInv' /\ L!Place(n, {})
    BY <1>1, <1>2, <1>5, <2>1, ToFirstIInv
  <2> QED BY <1>2, <1>5, <2>2 DEF L!ToFirst
<1> QED BY <1>3, <1>4, <1>5

(* InsertToLast and MoveToLast put n into the gap after the last row, or into
   the empty list. *)
LEMMA ToLastIInv ==
  ASSUME IInv, NEW n \in Node, n \in rows,
         NEW l \in NodeOrNull, FetchLastNode(l),
         l # NoNode => next[l] = NoNode /\ prev[n] # l, n # l,
         next' = [UpdateNeighbor(UpdateNeighbor(next, l, n), prev[n], next[n])
                    EXCEPT ![n] = NoNode],
         prev' = [UpdateNeighbor(prev, next[n], prev[n]) EXCEPT ![n] = l],
         oi' = [oi EXCEPT ![n] = OrderIndexOf(l) + OrderIndexStep],
         err' = "ok", UNCHANGED rows
  PROVE  IInv' /\ L!Place(n, Linked \ {n})
<1>1. Chain(Linked, prev, next, oi)
  BY IInvIsChain
<1>2. l # NoNode => l \in Linked /\ oi[l] \in Nat
  BY <1>1 DEF FetchLastNode, Chain, Columns
<1>3. l = NoNode => Linked = {}
  BY <1>1, NodeAssumption DEF FetchLastNode, Chain, Columns, NoNode
<1>4. Gap(Linked \ {n}, Out(prev, next, n), Out(next, prev, n), l, NoNode)
  BY <1>1, <1>2, <1>3, NodeAssumption DEF Gap, Out, Chain, Columns, NoNode
<1>5. prev' = Into(Out(prev, next, n), n, l, NoNode)
  BY <1>1, <1>2, NodeAssumption DEF Into, Out, Chain, Columns, UpdateNeighbor, NodeOrNull, NoNode
<1>6. next' = Into(Out(next, prev, n), n, NoNode, l)
  BY <1>1, <1>2, NodeAssumption DEF Into, Out, Chain, Columns, UpdateNeighbor, NodeOrNull, NoNode
<1> DEFINE v == OrderIndexOf(l) + OrderIndexStep
<1>7. v \in Nat /\ v > 0 /\ (l # NoNode => oi[l] < v)
  BY <1>2, StepAssumption DEF OrderIndexOf
<1>8. MovedUp(oi, 0, 0) = oi
  BY <1>1 DEF MovedUp, Chain, Columns
<1>9. oi' = Numbered(MovedUp(oi, 0, 0), n, v)
  BY <1>8, <1>1 DEF Numbered, Chain, Columns
<1> HIDE DEF v
<1>10. Relocates(n, l, NoNode, 0, 0, v)
  BY <1>4, <1>5, <1>6, <1>7, <1>8, <1>9 DEF Relocates
<1>11. Front(n, l) = Linked \ {n}
  <2>1. l # NoNode => \A x \in Linked : x = l \/ oi[x] < oi[l]
    BY <1>1 DEF FetchLastNode, Chain, Columns
  <2>2. \A x \in Linked : x \in Node
    BY <1>1 DEF Chain, Columns
  <2> QED BY <1>2, <1>3, <2>1, <2>2, AheadIs DEF Front
<1> QED BY <1>10, <1>11, RelocateIInv, RelocatePlaces

(* InsertToLast is InsertLast of ListSpec. *)
LEMMA InsertToLastIInv ==
  ASSUME IInv, NEW n \in NodeOrNull, n \notin Linked, InsertToLast(n)
  PROVE  IInv' /\ L!InsertLast(n)
<1>1. PICK l \in NodeOrNull :
        /\ FetchLastNode(l)
        /\ n = NoNode => Fail("input")
        /\ n # NoNode /\ l = NoNode => Fail("internal")
        /\ n # NoNode /\ l # NoNode /\ next[l] = NoNode /\ n # l /\ n \notin rows =>
             Fail("notfound")
        /\ n # NoNode /\ l # NoNode /\ next[l] = NoNode /\ n # l /\ n \in rows =>
             /\ next' = [next EXCEPT ![l] = n, ![n] = NoNode]
             /\ prev' = [prev EXCEPT ![n] = l]
             /\ oi' = [oi EXCEPT ![n] = oi[l] + OrderIndexStep]
             /\ err' = "ok"
             /\ UNCHANGED rows
  BY DEF InsertToLast
<1>2. /\ l = NoNode <=> Linked = {}
      /\ l # NoNode => /\ l \in Linked /\ next[l] = NoNode /\ n # l
                       /\ \A x \in Node : prev[x] # l
  BY <1>1, LastRow
<1>3. CASE n = NoNode \/ l = NoNode \/ n \notin rows
  BY <1>1, <1>2, <1>3, FailIInv, FailRefuses DEF L!InsertLast, L!ToLast, Outcome
<1>4. CASE n # NoNode /\ l # NoNode /\ n \in rows
  <2>1. n \in Node /\ next[n] = NoNode /\ prev[n] = NoNode
    BY <1>4, IInvIsChain DEF Chain, Columns, NodeOrNull
  <2>2. /\ next' = [UpdateNeighbor(UpdateNeighbor(next, l, n), prev[n], next[n])
                     EXCEPT ![n] = NoNode]
        /\ prev' = [UpdateNeighbor(prev, next[n], prev[n]) EXCEPT ![n] = l]
        /\ oi' = [oi EXCEPT ![n] = OrderIndexOf(l) + OrderIndexStep]
    BY <1>1, <1>2, <1>4, <2>1 DEF UpdateNeighbor, OrderIndexOf
  <2>3. IInv' /\ L!Place(n, Linked \ {n})
    BY <1>1, <1>2, <1>4, <2>1, <2>2, ToLastIInv
  <2> QED BY <1>2, <1>4, <2>3 DEF L!InsertLast, L!ToLast
<1> QED BY <1>3, <1>4

(* MoveToLast is ToLast of ListSpec, in an empty list, too. *)
LEMMA MoveToLastIInv ==
  ASSUME IInv, NEW n \in NodeOrNull, MoveToLast(n)
  PROVE  IInv' /\ L!ToLast(n)
<1>1. PICK l \in NodeOrNull :
        /\ FetchLastNode(l)
        /\ n = NoNode => Fail("input")
        /\ n # NoNode /\ next[l] = NoNode /\ n = l => Done
        /\ n # NoNode /\ (l # NoNode => next[l] = NoNode) /\ n # l /\ n \notin rows =>
             Fail("notfound")
        /\ n # NoNode /\ (l # NoNode => next[l] = NoNode /\ prev[n] # l)
           /\ n # l /\ n \in rows =>
             /\ next' = [UpdateNeighbor(UpdateNeighbor(next, l, n), prev[n], next[n])
                           EXCEPT ![n] = NoNode]
             /\ prev' = [UpdateNeighbor(prev, next[n], prev[n]) EXCEPT ![n] = l]
             /\ oi' = [oi EXCEPT ![n] = OrderIndexOf(l) + OrderIndexStep]
             /\ err' = "ok"
             /\ UNCHANGED rows
  BY DEF MoveToLast
<1>2. l # NoNode => /\ l \in Linked /\ next[l] = NoNode
                    /\ \A x \in Node : prev[x] # l
                    /\ Ahead[l] = Linked \ {l}
  BY <1>1, LastRow
<1>3. CASE n = NoNode \/ (n # l /\ n \notin rows)
  BY <1>1, <1>2, <1>3, FailIInv, FailRefuses DEF L!ToLast, Outcome
<1>4. CASE n # NoNode /\ n = l
  <2>1. Done /\ n \in Linked /\ Ahead[n] = Linked \ {n}
    BY <1>1, <1>2, <1>4
  <2>2. IInv' /\ L!Place(n, Linked \ {n})
    BY <2>1, DoneIInv, StaysPlaced
  <2> QED BY <1>4, <2>1, <2>2 DEF L!ToLast, Linked
<1>5. CASE n # NoNode /\ n # l /\ n \in rows
  <2>1. n \in Node /\ (l # NoNode => next[l] = NoNode /\ prev[n] # l)
    BY <1>2, <1>5 DEF NodeOrNull
  <2>2. IInv' /\ L!Place(n, Linked \ {n})
    BY <1>1, <1>5, <2>1, ToLastIInv
  <2> QED BY <1>5, <2>2 DEF L!ToLast
<1> QED BY <1>3, <1>4, <1>5

(* What MoveAfterID does to the columns when it moves the row. *)
HalfWay(after) == (oi[after] + OrderIndexOf(next[after])) \div 2

MovesAfter(n, after) ==
  /\ n # NoNode /\ n # after /\ n \in rows /\ after \in rows /\ prev[n] # after
  /\ next' = [UpdateNeighbor([next EXCEPT ![after] = n], prev[n], next[n])
                EXCEPT ![n] = next[after]]
  /\ prev' = [UpdateNeighbor(UpdateNeighbor(prev, next[after], n), next[n], prev[n])
                EXCEPT ![n] = after]
  /\ oi' = IF HalfWay(after) > oi[after]
           THEN [oi EXCEPT ![n] = HalfWay(after)]
           ELSE [IF next[after] # NoNode
                 THEN RecalcOrderIndex(oi[after], 2 * OrderIndexStep)
                 ELSE oi
                 EXCEPT ![n] = oi[after] + OrderIndexStep]
  /\ err' = "ok"
  /\ UNCHANGED rows

(* MoveAfterID puts n into the gap after a row of the list: halfway to the
   next row where a number is free, a step ahead of the row where it is the
   last one, and between renumbered neighbours otherwise. *)
LEMMA AfterIInv ==
  ASSUME IInv, NEW n \in Node, NEW after \in Linked, MovesAfter(n, after)
  PROVE  IInv' /\ L!Place(n, (Ahead[after] \ {n}) \cup {after})
<1> DEFINE b == next[after]
           half == HalfWay(after)
<1>0. /\ n # NoNode /\ n # after /\ n \in rows /\ after \in rows /\ prev[n] # after
      /\ next' = [UpdateNeighbor([next EXCEPT ![after] = n], prev[n], next[n]) EXCEPT ![n] = b]
      /\ prev' = [UpdateNeighbor(UpdateNeighbor(prev, b, n), next[n], prev[n])
                    EXCEPT ![n] = after]
      /\ oi' = IF half > oi[after]
               THEN [oi EXCEPT ![n] = half]
               ELSE [IF b # NoNode THEN RecalcOrderIndex(oi[after], 2 * OrderIndexStep) ELSE oi
                     EXCEPT ![n] = oi[after] + OrderIndexStep]
      /\ err' = "ok"
      /\ UNCHANGED rows
      /\ half = (oi[after] + OrderIndexOf(b)) \div 2
  BY Zenon DEF MovesAfter, HalfWay
<1>1. /\ Chain(Linked, prev, next, oi) /\ after \in Linked /\ n \in Node
      /\ OrderIndexStep \in Nat /\ OrderIndexStep > 0
  BY IInvIsChain, StepAssumption
<1>2. b # NoNode => b \in Linked /\ prev[b] = after /\ b # n /\ b # next[n]
  <2>1. b # NoNode => b \in Linked /\ prev[b] = after
    BY <1>1, Mutual DEF Chain, Successors
  <2>2. b # NoNode /\ b = n => FALSE
    BY <2>1, <1>0
  <2>3. b # NoNode /\ b = next[n] => n \in Linked
    BY <1>1 DEF Chain, Columns
  <2>4. b # NoNode /\ b = next[n] => FALSE
    BY <2>1, <2>3, <1>1, <1>0, Mutual
  <2> QED BY <2>1, <2>2, <2>4
<1>3. Gap(Linked \ {n}, Out(prev, next, n), Out(next, prev, n), after, b)
  BY <1>0, <1>1, <1>2, NodeAssumption DEF Gap, Out, Chain, Columns, NoNode
<1>4. prev' = Into(Out(prev, next, n), n, after, b)
  BY <1>0, <1>1, <1>2, NodeAssumption
  DEF Into, Out, Chain, Columns, UpdateNeighbor, NodeOrNull, NoNode
<1>5. next' = Into(Out(next, prev, n), n, b, after)
  BY <1>0, <1>1, <1>2, NodeAssumption
  DEF Into, Out, Chain, Columns, UpdateNeighbor, NodeOrNull, NoNode
<1>6. /\ oi[after] \in Nat /\ half \in Nat /\ MovedUp(oi, 0, 0) = oi
      /\ b # NoNode => oi[b] \in Nat /\ oi[after] < oi[b] /\ half < oi[b]
  <2>1. oi[after] \in Nat /\ OrderIndexOf(b) \in Nat /\ MovedUp(oi, 0, 0) = oi
    BY <1>1, <1>2 DEF Chain, Columns, OrderIndexOf, MovedUp
  <2>2. b # NoNode => oi[after] < oi[b] /\ OrderIndexOf(b) = oi[b]
    BY <1>1, <1>2 DEF Chain, Successors, OrderIndexOf
  <2> QED BY <1>0, <2>1, <2>2, HalfBounds
<1> DEFINE Goal == IInv' /\ L!Place(n, (Ahead[after] \ {n}) \cup {after})
<1> SUFFICES Goal
  OBVIOUS
<1> HIDE DEF Goal
<1>7. ASSUME NEW border, NEW s, NEW v, Relocates(n, after, b, border, s, v)
      PROVE  Goal
  BY <1>1, <1>7, RelocateIInv, RelocatePlaces, NodeAssumption
  DEF Goal, Front, Chain, Columns, NoNode
<1>8. CASE half > oi[after]
  <2>1. oi' = Numbered(MovedUp(oi, 0, 0), n, half)
    BY <1>0, <1>1, <1>6, <1>8 DEF Numbered, Chain, Columns
  <2>2. half > 0 /\ half \in Nat /\ oi[after] < half /\ (b # NoNode => half < oi[b])
    BY <1>6, <1>8
  <2> HIDE DEF half
  <2>3. Relocates(n, after, b, 0, 0, half)
    BY <1>0, <1>1, <1>3, <1>4, <1>5, <1>6, <2>1, <2>2 DEF Relocates
  <2> QED BY <2>3, <1>7
<1>9. CASE ~(half > oi[after])
  <2> DEFINE v == oi[after] + OrderIndexStep
  <2>1. v \in Nat /\ v > 0 /\ oi[after] < v
    BY <1>1, <1>6
  <2>2. CASE b = NoNode
    <3>1. oi' = Numbered(MovedUp(oi, 0, 0), n, v)
      BY <1>0, <1>1, <1>6, <1>9, <2>2 DEF Numbered, Chain, Columns
    <3> HIDE DEF half, v
    <3>2. Relocates(n, after, b, 0, 0, v)
      BY <1>0, <1>1, <1>3, <1>4, <1>5, <1>6, <2>1, <2>2, <3>1 DEF Relocates
    <3> QED BY <3>2, <1>7
  <2>3. CASE b # NoNode
    <3> DEFINE s == 2 * OrderIndexStep
    <3>1. oi' = Numbered(MovedUp(oi, oi[after], s), n, v)
      BY <1>0, <1>1, <1>6, <1>9, <2>3 DEF Numbered, MovedUp, RecalcOrderIndex, Chain, Columns
    <3>2. MovedUp(oi, oi[after], s)[after] = oi[after]
      BY <1>1, <1>6 DEF MovedUp, Chain, Columns
    <3>3. MovedUp(oi, oi[after], s)[b] = oi[b] + s
      BY <1>1, <1>2, <1>6, <2>3 DEF MovedUp, Chain, Columns
    <3>4. s \in Nat /\ v < oi[b] + s
      BY <1>1, <1>6, <2>3
    <3> HIDE DEF half, v, s
    <3>5. Relocates(n, after, b, oi[after], s, v)
      BY <1>0, <1>1, <1>3, <1>4, <1>5, <1>6, <2>1, <2>3, <3>1, <3>2, <3>3, <3>4 DEF Relocates
    <3> QED BY <3>5, <1>7
  <2> QED BY <2>2, <2>3
<1> QED BY <1>8, <1>9

(* MoveAfterID is After of ListSpec: a row that is right behind the other one
   already is where it is to go. *)
LEMMA MoveAfterIInv ==
  ASSUME IInv, NEW n \in NodeOrNull, NEW after \in Node, MoveAfterListed(n, after)
  PROVE  IInv' /\ L!After(n, after)
<1>1. Chain(Linked, prev, next, oi) /\ (after \in rows => after \in Linked)
  BY IInvIsChain DEF MoveAfterListed
<1>2. after \in Linked => next[after] = NoNode \/ next[after] \in rows
  BY <1>1 DEF Chain, Successors, Linked
<1>3. CASE n = NoNode \/ n = after
  <2>1. Fail("input")
    BY <1>3 DEF MoveAfterListed, MoveAfterID
  <2> QED BY <1>3, <2>1, FailIInv, FailRefuses DEF L!After, Outcome
<1>4. CASE n # NoNode /\ n # after /\ n \notin rows
  <2>1. Fail("notfound")
    BY <1>4 DEF MoveAfterListed, MoveAfterID
  <2> QED BY <1>4, <2>1, FailIInv, FailRefuses DEF L!After, Outcome
<1>5. CASE n # NoNode /\ n # after /\ n \in rows /\ prev[n] = after
  <2>1. Done
    BY <1>5 DEF MoveAfterListed, MoveAfterID
  <2>2. n \in Linked /\ after \in Linked /\ after # NoNode
    BY <1>1, <1>5, NodeAssumption DEF Chain, Columns, Predecessors, NodeOrNull, NoNode
  <2>3. Ahead[n] = (Ahead[after] \ {n}) \cup {after}
    <3>1. \A x \in Linked : oi[x] \in Nat /\ x \in Node
      BY <1>1 DEF Chain, Columns
    <3>2. \A x \in Linked : oi[x] < oi[n] <=> x = after \/ oi[x] < oi[after]
      BY <1>1, <1>5, <2>2, <3>1 DEF Chain, Columns, Predecessors
    <3>3. oi[after] < oi[n]
      BY <2>2, <3>2
    <3>4. \A x : x \in Ahead[n] <=> x \in (Ahead[after] \ {n}) \cup {after}
      BY <2>2, <3>1, <3>2, <3>3, AheadIs
    <3>5. Ahead[n] \subseteq Linked /\ Ahead[after] \subseteq Linked
      BY <2>2, <3>1, AheadIs
    <3> QED BY <3>4
  <2>4. L!Place(n, (Ahead[after] \ {n}) \cup {after})
    BY <2>1, <2>2, <2>3, StaysPlaced
  <2> QED BY <1>5, <2>1, <2>2, <2>4, DoneIInv DEF L!After, Linked
<1>6. CASE n # NoNode /\ n # after /\ n \in rows /\ prev[n] # after /\ after \notin rows
  <2>1. Fail("afternotfound")
    BY <1>6 DEF MoveAfterListed, MoveAfterID
  <2> QED BY <1>6, <2>1, FailIInv, FailRefuses DEF L!After, Outcome
<1>7. CASE n # NoNode /\ n # after /\ n \in rows /\ prev[n] # after /\ after \in rows
  <2>1. MovesAfter(n, after)
    BY <1>1, <1>2, <1>7 DEF MoveAfterListed, MoveAfterID, MovesAfter, HalfWay
  <2>2. n \in Node /\ after \in Linked
    BY <1>1, <1>7 DEF NodeOrNull
  <2> QED BY <1>7, <2>1, <2>2, AfterIInv DEF L!After
<1> QED BY <1>3, <1>4, <1>5, <1>6, <1>7

(* Unlink is Unlist of ListSpec: it takes the row out, joins its neighbours,
   and the row is in front of none any more. *)
LEMMA UnlinkIInv ==
  ASSUME IInv, NEW n \in NodeOrNull, Unlink(n)
  PROVE  IInv' /\ L!Unlist(n)
<1>0. Chain(Linked, prev, next, oi) /\ rows \subseteq Node
  BY IInvIsChain
<1>1. CASE n = NoNode \/ n \notin rows
  BY <1>1, FailIInv, FailRefuses DEF Unlink, L!Unlist, Outcome
<1>2. CASE n # NoNode /\ n \in rows /\ prev[n] = NoNode /\ next[n] = NoNode /\ oi[n] = 0
  <2>1. Done /\ n \notin Linked
    BY <1>2 DEF Unlink, Linked
  <2>2. err' = "ok" /\ rows' = rows /\ Linked' = Linked /\ oi' = oi
    BY <2>1 DEF Done, Linked
  <2>3. Ahead' = [x \in Node |-> IF x = n THEN {} ELSE Ahead[x] \ {n}]
    BY <2>1, <2>2 DEF Ahead
  <2> QED BY <1>2, <2>1, <2>2, <2>3, DoneIInv DEF L!Unlist
<1>3. CASE n # NoNode /\ n \in rows /\ ~(prev[n] = NoNode /\ next[n] = NoNode /\ oi[n] = 0)
  <2>0. /\ next' = [UpdateNeighbor(next, prev[n], next[n]) EXCEPT ![n] = NoNode]
        /\ prev' = [UpdateNeighbor(prev, next[n], prev[n]) EXCEPT ![n] = NoNode]
        /\ oi' = [oi EXCEPT ![n] = 0]
        /\ err' = "ok"
        /\ rows' = rows
    BY <1>3 DEF Unlink
  <2>1. n \in Linked
    BY <1>0, <1>3 DEF Chain, Columns
  <2>2. /\ prev' = Out(prev, next, n)
        /\ next' = Out(next, prev, n)
        /\ oi' = Numbered(oi, n, 0)
    <3>1. prev' = Out(prev, next, n)
      BY <1>0, <2>0, <2>1, NodeAssumption DEF Chain, Columns, UpdateNeighbor, NodeOrNull, NoNode, Out
    <3>2. next' = Out(next, prev, n)
      BY <1>0, <2>0, <2>1, NodeAssumption DEF Chain, Columns, UpdateNeighbor, NodeOrNull, NoNode, Out
    <3>3. oi' = Numbered(oi, n, 0)
      BY <1>0, <2>0, <2>1 DEF Chain, Columns, Numbered
    <3> QED BY <3>1, <3>2, <3>3
  <2>3. Linked' = Linked \ {n}
    BY <1>0, <2>0, <2>1, <2>2 DEF Linked, Numbered
  <2>4. Chain(Linked \ {n}, prev', next', oi')
    BY <1>0, <2>1, <2>2, DetachChain
  <2>5. IInv'
    BY <1>0, <2>0, <2>3, <2>4, IInvIsChainPrimed DEF Outcome
  <2>6. Ahead' = [x \in Node |-> IF x = n THEN {} ELSE Ahead[x] \ {n}]
    <3>1. \A x \in Linked \ {n} : oi'[x] = oi[x]
      BY <1>0, <2>2 DEF Numbered, Chain, Columns
    <3>2. ASSUME NEW x \in Node PROVE Ahead'[x] = IF x = n THEN {} ELSE Ahead[x] \ {n}
      BY <2>3, <3>1 DEF Ahead
    <3> QED BY <3>2 DEF Ahead
  <2> QED BY <1>3, <2>0, <2>3, <2>5, <2>6 DEF L!Unlist
<1> QED BY <1>1, <1>2, <1>3

(* The application creates and deletes rows outside the list only, as in
   ListSpec. *)
LEMMA RowsIInv ==
  ASSUME IInv, NEW n \in Node, CreateRow(n) \/ DeleteRow(n)
  PROVE  IInv' /\ (L!Create(n) \/ L!Delete(n))
<1>1. Chain(Linked, prev, next, oi) /\ rows \subseteq Node
  BY IInvIsChain
<1>2. prev' = prev /\ next' = next /\ oi' = oi /\ err' \in Outcome /\ rows' \subseteq Node
  BY <1>1 DEF CreateRow, DeleteRow, Outcome
<1>3. ASSUME Linked' = Linked PROVE IInv' /\ Ahead' = Ahead
  BY <1>1, <1>2, <1>3, IInvIsChainPrimed DEF Ahead
<1>4. CASE CreateRow(n)
  <2>1. n \notin Linked /\ oi[n] = 0
    BY <1>1, <1>4 DEF CreateRow, Linked, Chain, Columns
  <2>2. Linked' = Linked
    BY <1>2, <1>4, <2>1 DEF CreateRow, Linked
  <2> QED BY <1>3, <1>4, <2>2 DEF CreateRow, L!Create
<1>5. CASE DeleteRow(n)
  <2>1. Linked' = Linked
    BY <1>2, <1>5 DEF DeleteRow, Linked
  <2> QED BY <1>3, <1>5, <2>1 DEF DeleteRow, L!Delete
<1> QED BY <1>4, <1>5

(* The empty table is consistent. *)
LEMMA InitIInv == Init => IInv
  BY NodeAssumption DEF Init, IInv, TypeOK, ListConsistent, UnlinkedIsBare,
     OrderIndexUnique, NextIsSuccessor, PrevIsPredecessor, Linked, NodeOrNull,
     NoNode, Outcome

(* Every call of the service and of the application keeps the invariant. *)
LEMMA NextIInv == IInv /\ [Next]_vars => IInv'
<1> SUFFICES ASSUME IInv, [Next]_vars
             PROVE  IInv'
  OBVIOUS
<1>1. ASSUME NEW n \in Node, CreateRow(n) \/ DeleteRow(n)
      PROVE  IInv'
  BY <1>1, RowsIInv
<1>2. ASSUME NEW n \in NodeOrNull, Insert(n)
      PROVE  IInv'
  BY <1>2, InsertToFirstIInv, InsertToLastIInv DEF Insert
<1>3. ASSUME NEW n \in NodeOrNull, Move(n)
      PROVE  IInv'
  BY <1>3, MoveToFirstIInv, MoveToLastIInv DEF Move
<1>4. ASSUME NEW n \in NodeOrNull, Unlink(n)
      PROVE  IInv'
  BY <1>4, UnlinkIInv
<1>5. ASSUME NEW n \in NodeOrNull, NEW after \in Node, MoveAfterListed(n, after)
      PROVE  IInv'
  BY <1>5, MoveAfterIInv
<1>6. CASE UNCHANGED vars
  <2>1. Linked' = Linked /\ prev' = prev /\ next' = next /\ oi' = oi /\ rows' = rows /\ err' = err
    BY <1>6 DEF vars, Linked
  <2> QED BY <2>1, IInvIsChain, IInvIsChainPrimed
<1> QED BY <1>1, <1>2, <1>3, <1>4, <1>5, <1>6 DEF Next

-----------------------------------------------------------------------------
(* Whatever sequence of calls NodeMover serves, the columns keep their types
   and prev_field_id, next_field_id and order_index describe one list: for
   any set of rows and any orderIndexStep, renumbering included. *)
THEOREM ListStaysConsistent == Spec => [](TypeOK /\ ListConsistent)
<1>1. Spec => []IInv
  BY InitIInv, NextIInv, PTL DEF Spec
<1> QED BY <1>1, PTL DEF IInv

(* The columns of every row stay IDs of rows, or none, and natural numbers. *)
THEOREM TypeIsKept == Spec => []TypeOK
BY ListStaysConsistent, PTL

(* prev_field_id, next_field_id and order_index always describe one list. *)
THEOREM ListAlwaysConsistent == Spec => []ListConsistent
BY ListStaysConsistent, PTL

(* The first row has no previous row and the last one no next row, which is
   what FetchFirstNode and FetchLastNode assert. *)
LEMMA ConsistentEnds == IInv => EndsAreEnds
<1> SUFFICES ASSUME IInv PROVE EndsAreEnds
  OBVIOUS
<1>1. Chain(Linked, prev, next, oi)
  BY IInvIsChain
<1>2. ASSUME NEW f \in Node, FetchFirstNode(f)
      PROVE  prev[f] = NoNode
  <2>1. f \in Linked /\ \A m \in Linked : oi[f] \in Nat /\ oi[m] \in Nat /\ oi[f] <= oi[m]
    BY <1>1, <1>2, NodeAssumption DEF FetchFirstNode, Chain, Columns, NoNode
  <2> QED BY <1>1, <2>1 DEF Chain, Predecessors
<1>3. ASSUME NEW l \in Node, FetchLastNode(l)
      PROVE  next[l] = NoNode
  <2>1. l \in Linked /\ \A m \in Linked : oi[l] \in Nat /\ oi[m] \in Nat /\ oi[m] <= oi[l]
    BY <1>1, <1>3, NodeAssumption DEF FetchLastNode, Chain, Columns, NoNode
  <2> QED BY <1>1, <2>1 DEF Chain, Successors
<1> QED BY <1>2, <1>3 DEF EndsAreEnds

(* Called with a position that is in the list, the service never trips over
   one of its own assertions: an internal error means an empty list. *)
THEOREM InternalErrors == Spec => InternalErrorOnlyWhenEmpty
<1>1. IInv /\ [Next]_vars => [err' = "internal" => Linked = {}]_vars
  <2> SUFFICES ASSUME IInv, Next, err' = "internal", Linked # {}
               PROVE  FALSE
    OBVIOUS
  <2>1. Chain(Linked, prev, next, oi) /\ rows \subseteq Node
    BY IInvIsChain
  <2>2. /\ \A f \in NodeOrNull : FetchFirstNode(f) => f \in Linked /\ f # NoNode /\ prev[f] = NoNode
        /\ \A l \in NodeOrNull : FetchLastNode(l) => l \in Linked /\ l # NoNode /\ next[l] = NoNode
    BY <2>1, ConsistentEnds, NodeAssumption
    DEF EndsAreEnds, FetchFirstNode, FetchLastNode, Chain, Columns, NoNode
  <2>3. /\ \A n \in Node, f \in Linked : prev[f] = NoNode => next[n] # f
        /\ \A n \in Node, l \in Linked : next[l] = NoNode => prev[n] # l
    <3>1. \A n \in Node, f \in Linked : next[n] = f => n \in Linked
      BY <2>1, NodeAssumption DEF Chain, Columns, NoNode
    <3>2. \A n \in Node, l \in Linked : prev[n] = l => n \in Linked
      BY <2>1, NodeAssumption DEF Chain, Columns, NoNode
    <3>3. \A n \in Linked : n # NoNode
      BY <2>1, NodeAssumption DEF Chain, Columns, NoNode
    <3> QED BY <3>1, <3>2, <3>3, <2>1, Mutual
  <2>4. ASSUME NEW n \in Node, CreateRow(n) \/ DeleteRow(n)
        PROVE  FALSE
    BY <2>4 DEF CreateRow, DeleteRow
  <2>5. ASSUME NEW n \in NodeOrNull, Insert(n)
        PROVE  FALSE
    BY <2>5, <2>2 DEF Insert, InsertToFirst, InsertToLast, Fail
  <2>6. ASSUME NEW n \in NodeOrNull, Move(n)
        PROVE  FALSE
    BY <2>6, <2>1, <2>2, <2>3 DEF Move, MoveToFirst, MoveToLast, Fail, Done, NodeOrNull
  <2>7. ASSUME NEW n \in NodeOrNull, Unlink(n)
        PROVE  FALSE
    BY <2>7 DEF Unlink, Fail, Done
  <2>8. ASSUME NEW n \in NodeOrNull, NEW after \in Node, MoveAfterListed(n, after)
        PROVE  FALSE
    <3>1. \A m \in rows : next[m] # NoNode => next[m] \in rows
      BY <2>1 DEF Chain, Columns, Successors, Linked
    <3> QED BY <2>8, <3>1 DEF MoveAfterListed, MoveAfterID, Fail, Done
  <2> QED BY <2>4, <2>5, <2>6, <2>7, <2>8 DEF Next
<1> QED BY <1>1, InitIInv, NextIInv, PTL DEF Spec, InternalErrorOnlyWhenEmpty

-----------------------------------------------------------------------------
(* The refinement of ListSpec *)

(* One step: each call changes the list a reader sees, the rows in the order
   of order_index, as the method of its name in ListSpec. *)
LEMMA CallsImplemented ==
  ASSUME IInv, [Next]_vars
  PROVE  \A n \in NodeOrNull :
           /\ InsertToFirst(n) /\ n \notin Linked => L!ToFirst(n)
           /\ InsertToLast(n) /\ n \notin Linked => L!InsertLast(n)
           /\ MoveToFirst(n) => L!ToFirst(n)
           /\ MoveToLast(n) => L!ToLast(n)
           /\ Unlink(n) => L!Unlist(n)
           /\ \A a \in Node : MoveAfterListed(n, a) => L!After(n, a)
BY InsertToFirstIInv, InsertToLastIInv, MoveToFirstIInv, MoveToLastIInv,
   UnlinkIInv, MoveAfterIInv

(* Every step is a step of ListSpec or leaves its list alone. *)
LEMMA NextImplemented ==
  ASSUME IInv, [Next]_vars
  PROVE  [L!Next]_<<rows, Linked, Ahead, err>>
<1>1. ASSUME NEW n \in Node, CreateRow(n) \/ DeleteRow(n)
      PROVE  L!Next
  BY <1>1, RowsIInv DEF L!Next
<1>2. ASSUME NEW n \in NodeOrNull, Insert(n)
      PROVE  L!Next
  BY <1>2, CallsImplemented DEF Insert, L!Next, NodeOrNull
<1>3. ASSUME NEW n \in NodeOrNull, Move(n)
      PROVE  L!Next
  BY <1>3, CallsImplemented DEF Move, L!Next, NodeOrNull
<1>4. ASSUME NEW n \in NodeOrNull, Unlink(n)
      PROVE  L!Next
  BY <1>4, CallsImplemented DEF L!Next, NodeOrNull
<1>5. ASSUME NEW n \in NodeOrNull, NEW after \in Node, MoveAfterListed(n, after)
      PROVE  L!Next
  <2>1. after \in Linked \/ after \notin rows
    BY <1>5 DEF MoveAfterListed
  <2> QED BY <1>5, <2>1, CallsImplemented DEF L!Next, NodeOrNull
<1>6. CASE UNCHANGED vars
  BY <1>6 DEF vars, Linked, Ahead
<1> QED BY <1>1, <1>2, <1>3, <1>4, <1>5, <1>6 DEF Next

(* The three columns, with their gaps, halvings and renumberings, implement
   the list of ListSpec: after each call the row stands where the method
   says, every other row keeps its place relative to the rest, and a call is
   refused exactly where ListSpec refuses it. *)
THEOREM ListIsImplemented == Spec => ListImplemented
<1>1. Init => L!Init
  BY DEF Init, L!Init, Linked, Ahead
<1>2. IInv /\ [Next]_vars => [L!Next]_(L!vars)
  BY NextImplemented DEF L!vars
<1>3. IInv /\ [Next]_vars =>
        [\A n \in NodeOrNull :
           /\ InsertToFirst(n) /\ n \notin Linked => L!ToFirst(n)
           /\ InsertToLast(n) /\ n \notin Linked => L!InsertLast(n)
           /\ MoveToFirst(n) => L!ToFirst(n)
           /\ MoveToLast(n) => L!ToLast(n)
           /\ Unlink(n) => L!Unlist(n)
           /\ \A a \in Node : MoveAfterListed(n, a) => L!After(n, a)]_vars
  BY CallsImplemented
<1>4. Spec => []IInv
  BY InitIInv, NextIInv, PTL DEF Spec
<1> QED BY <1>1, <1>2, <1>3, <1>4, PTL DEF Spec, ListImplemented, EachCallImplemented, L!Spec
=============================================================================
