--------------------------- MODULE OrderbookSide ---------------------------
(***************************************************************************)
(* One side of an L2Orderbook under a caller that uses all four of its     *)
(* operations, ReplaceOrder included, on orders it really has in the book. *)
(***************************************************************************)
EXTENDS L2Orderbook

CONSTANTS Ids, Prices, MaxQty

ASSUME SideAssumption ==
    /\ Prices \subseteq Int
    /\ IsFiniteSet(Ids) /\ MaxQty \in Nat
    /\ Cardinality(Ids) * MaxQty < QtyMod

VARIABLES side,    \* the side character the caller passes
          levels,  \* m_bids or m_asks
          orders   \* what the caller has in the book, a partial function from Ids

vars == << side, levels, orders >>

Init == side \in {"B", "S"} /\ levels = << >> /\ orders = << >>

Put(id, price, qty) ==
    [i \in DOMAIN orders \cup {id} |-> IF i = id THEN [price |-> price, qty |-> qty] ELSE orders[i]]
Erase(id) == [i \in DOMAIN orders \ {id} |-> orders[i]]

Add(id, price, qty) ==
    /\ id \notin DOMAIN orders
    /\ levels' = AddOrder(levels, price, qty, BookSide(side))
    /\ orders' = Put(id, price, qty)

Execute(id, qty) ==
    /\ qty <= orders[id].qty
    /\ levels' = ExecuteOrder(levels, orders[id].price, qty)
    /\ orders' = IF qty = orders[id].qty THEN Erase(id)
                 ELSE Put(id, orders[id].price, orders[id].qty - qty)

Delete(id) ==
    /\ levels' = DeleteOrder(levels, orders[id].price, orders[id].qty)
    /\ orders' = Erase(id)

Replace(id, price, qty) ==
    /\ levels' = ReplaceOrder(levels, orders[id].price, orders[id].qty, price, qty, BookSide(side))
    /\ orders' = Put(id, price, qty)

Next ==
    /\ \/ \E id \in Ids, price \in Prices, qty \in 1 .. MaxQty : Add(id, price, qty)
       \/ \E id \in DOMAIN orders, qty \in 1 .. MaxQty : Execute(id, qty)
       \/ \E id \in DOMAIN orders : Delete(id)
       \/ \E id \in DOMAIN orders, price \in Prices, qty \in 1 .. MaxQty : Replace(id, price, qty)
    /\ UNCHANGED side

Spec == Init /\ [][Next]_vars

----------------------------------------------------------------------------
(* Properties. *)

At(price) == {id \in DOMAIN orders : orders[id].price = price}

\* Whatever the history of inserts, erased levels and replacements, a side is
\* determined by the orders in it: one level per price in use, worst price first,
\* holding the sum of the orders' quantities.
LevelsAreTheSums ==
    /\ Sorted(levels, BookSide(side))
    /\ {levels[i].price : i \in DOMAIN levels} = {orders[id].price : id \in DOMAIN orders}
    /\ \A i \in DOMAIN levels :
           levels[i].qty = Cardinality(UNION {{id} \X (1 .. orders[id].qty) : id \in At(levels[i].price)})

\* GetBestPrices returns the best price any order in the book has.
BestPriceIsBest ==
    \A id \in DOMAIN orders :
        LET best == GetBestPrice(levels)
        IN  orders[id].price = best \/ Comp(BookSide(side), orders[id].price, best)
============================================================================
