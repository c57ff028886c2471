---------------------------- MODULE L2Orderbook ----------------------------
(***************************************************************************)
(* The price-aggregated order book of lib/core/l2_orderbook.hpp.           *)
(*                                                                         *)
(* A side of the book is a std::vector of (price, quantity) levels whose   *)
(* best level is the LAST one: bids ascend, asks descend.  A side is       *)
(* modelled as a sequence of records, and every member function as an      *)
(* operator that returns the new sequence.  The two ways a member function *)
(* can fail (std::exit(42) in DeleteOrder, and the iterator that is used   *)
(* although EXPECT has just reported that there is no level) share one     *)
(* condition, ~HasLevel, which the caller of this module tests.            *)
(***************************************************************************)
EXTENDS Integers, Sequences, SequencesExt

CONSTANT QtyMod  \* the number of values of a std::uint64_t quantity, 2^64 in the code

ASSUME QtyModAssumption == QtyMod \in Nat \ {0}

\* The values of the quantity type.
Quantity == 0 .. QtyMod - 1

\* Unsigned addition and subtraction of two quantities: both wrap around.
Plus(a, b) == IF a + b < QtyMod THEN a + b ELSE a + b - QtyMod

\* Mutant: the operands exchanged, and the result not an unsigned value.
MinusSwapped(a, b) == b - a

Minus(a, b) == IF b <= a THEN a - b ELSE a - b + QtyMod

\* A level, the pair the vectors hold, and the two sides of one book.
Level(prices) == [price : prices, qty : Quantity]
BookSides == {"bids", "asks"}
EmptyBook == [s \in BookSides |-> << >>]

\* The dispatch on the side character: 'B' is the bid side, anything else the ask side.
BookSide(side) == IF side = "B" THEN "bids" ELSE "asks"

\* The comparators the dispatch passes: std::less for bids, std::greater for asks.
Comp(bs, a, b) == IF bs = "bids" THEN a < b ELSE a > b

\* GetLevel scans from the back: the last index with that price, 0 for rend().
GetLevel(levels, price) == SelectLastInSeq(levels, LAMBDA l : l.price = price)

HasLevel(levels, price) == GetLevel(levels, price) # 0

\* Mutant: a new price is always put at the front.
WorseLevelFront(levels, price, bs) == 0

\* The index behind which AddOrder inserts a new price: the first level from the
\* back that is worse than the price, 0 (the front of the vector) if there is none.
WorseLevel(levels, price, bs) ==
    SelectLastInSeq(levels, LAMBDA l : Comp(bs, l.price, price))

\* AddOrder(levels, price, qty, comp).  The empty vector needs no case of its own:
\* inserting at the front of it is appending to it.
AddOrder(levels, price, qty, bs) ==
    IF HasLevel(levels, price)
    THEN [levels EXCEPT ![GetLevel(levels, price)].qty = Plus(@, qty)]
    ELSE InsertAt(levels, WorseLevel(levels, price, bs) + 1, [price |-> price, qty |-> qty])

\* DeleteOrder(levels, price, qty) when the level exists: the quantity is reduced
\* first, then the level is erased if nothing is left ("<= 0" on an unsigned value).
DeleteOrder(levels, price, qty) ==
    LET i    == GetLevel(levels, price)
        left == Minus(levels[i].qty, qty)
    IN  IF left = 0 THEN RemoveAt(levels, i) ELSE [levels EXCEPT ![i].qty = left]

\* Mutant: a level is erased while one share is left in it.
ExecuteOrderOffByOne(levels, price, qty) ==
    LET i == GetLevel(levels, price)
    IN  IF levels[i].qty > qty + 1
        THEN [levels EXCEPT ![i].qty = @ - qty]
        ELSE RemoveAt(levels, i)

\* ExecuteOrderImpl(levels, price, qty) when the level exists: a level holding no
\* more than the executed quantity is erased as a whole.
ExecuteOrder(levels, price, qty) ==
    LET i == GetLevel(levels, price)
    IN  IF levels[i].qty > qty
        THEN [levels EXCEPT ![i].qty = @ - qty]
        ELSE RemoveAt(levels, i)

\* Mutant: an amendment at the same price leaves the old quantity in.
ReplaceOrderKeepsOld(levels, oldPrice, oldQty, newPrice, newQty, bs) ==
    IF oldPrice = newPrice
    THEN AddOrder(levels, newPrice, newQty, bs)
    ELSE AddOrder(ExecuteOrder(levels, oldPrice, oldQty), newPrice, newQty, bs)

\* ReplaceOrder(levels, oldPrice, oldQty, newPrice, newQty, comp) when the old level
\* exists; no caller in the repository uses it.
ReplaceOrder(levels, oldPrice, oldQty, newPrice, newQty, bs) ==
    LET i == GetLevel(levels, oldPrice)
    IN  IF oldPrice = newPrice
        THEN [levels EXCEPT ![i].qty = Plus(Minus(@, oldQty), newQty)]
        ELSE AddOrder(ExecuteOrder(levels, oldPrice, oldQty), newPrice, newQty, bs)

\* The verdict of Dump: walking the asks from the front and then the bids from the
\* back, every price is below the one before and no quantity is 0; otherwise the
\* code reports "BAD ORDERBOOK".
Bad(book) ==
    LET walk == book["asks"] \o Reverse(book["bids"])
    IN  \/ \E i \in 1 .. Len(walk) - 1 : walk[i].price <= walk[i + 1].price
        \/ \E i \in 1 .. Len(walk) : walk[i].qty = 0

\* Mutant: the front of the vector is taken for the best level.
GetBestPriceFront(levels) == Head(levels).price

\* GetBestPrices, one side of it: the back of a vector that is not empty.
GetBestPrice(levels) == Last(levels).price

----------------------------------------------------------------------------
(* What the vectors are meant to be. *)

\* The quantity a side shows at a price, 0 where it has no level.
QtyAt(levels, price) ==
    IF HasLevel(levels, price) THEN levels[GetLevel(levels, price)].qty ELSE 0

\* Strictly better prices towards the back: in particular, no price twice.
Sorted(levels, bs) ==
    \A i, j \in 1 .. Len(levels) : i < j => Comp(bs, levels[i].price, levels[j].price)

\* No level without quantity.
Positive(levels) == \A i \in 1 .. Len(levels) : levels[i].qty > 0
============================================================================
