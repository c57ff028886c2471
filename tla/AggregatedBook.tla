--------------------------- MODULE AggregatedBook ---------------------------
(***************************************************************************)
(* What a price-aggregated book promises, without vectors, sorting or      *)
(* erased levels: a quantity for every cell (a price of one side of one    *)
(* book) that grows when quantity is entered, and shrinks by at most what  *)
(* is there, one cell at a time.                                           *)
(***************************************************************************)
EXTENDS Naturals

CONSTANTS Cells,   \* a cell is a price of one side of one book
          MaxQty   \* the largest quantity of one order

VARIABLE depth

TypeOK == depth \in [Cells -> Nat]

Init == depth = [c \in Cells |-> 0]

Enter(c, q) == depth' = [depth EXCEPT ![c] = @ + q]

Leave(c, q) ==
    /\ q <= depth[c]
    /\ depth' = [depth EXCEPT ![c] = @ - q]

Next == \E c \in Cells, q \in 1 .. MaxQty : Enter(c, q) \/ Leave(c, q)

Spec == Init /\ [][Next]_depth
============================================================================
