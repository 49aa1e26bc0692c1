----------------------------- MODULE MCNodeMover -----------------------------
(***************************************************************************)
(* NodeMover on a few rows, with a step small enough for the free numbers  *)
(* between two neighbours to run out.                                      *)
(***************************************************************************)
EXTENDS NodeMover

CONSTANT MaxOrderIndex   \* bound: order_index values the run explores

(* order_index only grows at the end of the list, so it is cut off there. *)
OrderIndexBound == \A n \in Node : oi[n] <= MaxOrderIndex
=============================================================================
