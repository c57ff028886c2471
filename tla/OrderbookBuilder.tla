-------------------------- MODULE OrderbookBuilder --------------------------
(***************************************************************************)
(* ConcreteOrderbookBuilder (lib/core/orderbook_builder.hpp) and the       *)
(* dispatch of ItchParser (lib/protocol/itch/itch_parser.hpp) that feeds   *)
(* it.                                                                     *)
(*                                                                         *)
(* The builder is a record:                                                *)
(*   orderbookMap : book -> side -> levels.  The code creates a book the   *)
(*                  first time operator[] meets its id; a book that is not *)
(*                  there yet and an empty one are not told apart here.    *)
(*   orderMap     : the open orders, a partial function from the key       *)
(*                  <<orderbook_id, order_id, side>> to price and left_qty *)
(*   status       : "running"; "exited" after std::exit(42) in DeleteOrder;*)
(*                  "undefined" after ExecuteOrderImpl has used rend().    *)
(*                  Nothing is said of the builder after the last two.     *)
(* A message is one of ItchMessages, decoded from the wire.                *)
(***************************************************************************)
EXTENDS L2Orderbook, ItchMessages

CONSTANTS Books,   \* orderbook ids
          Ids,     \* order ids of one session
          Prices,  \* the int32 prices in use
          MaxQty   \* the largest quantity of one order

\* The side characters an order carries.
Sides == {"B", "S"}

\* The key of m_orderMap.
Keys == Books \X Ids \X Sides
BookOf(key) == key[1]
SideOf(key) == BookSide(key[3])

ASSUME FeedAssumption ==
    /\ Prices \subseteq Int
    /\ MaxQty \in Nat

\* Together, the orders of a session hold fewer shares than a quantity can count.
ASSUME QuantityFits ==
    /\ IsFiniteSet(Keys)
    /\ Cardinality(Keys) * MaxQty < QtyMod

EmptyBuilder ==
    [orderbookMap |-> [ob \in Books |-> EmptyBook],
     orderMap     |-> << >>,
     status       |-> "running"]

\* The levels a key's order rests in, and the maps with new levels in their place.
LevelsOf(b, key) == b.orderbookMap[BookOf(key)][SideOf(key)]
SetLevels(b, key, levels) ==
    [b.orderbookMap EXCEPT ![BookOf(key)] = [@ EXCEPT ![SideOf(key)] = levels]]

\* m_orderMap[key] = order, and m_orderMap.erase(it).
Put(orders, key, order) ==
    [k \in DOMAIN orders \cup {key} |-> IF k = key THEN order ELSE orders[k]]
Erase(orders, key) == [k \in DOMAIN orders \ {key} |-> orders[k]]

\* addOrder: an order already stored under the key is overwritten, its quantity
\* stays in the book.
addOrder(b, m) ==
    [orderbookMap |-> SetLevels(b, m.key, AddOrder(LevelsOf(b, m.key), m.price, m.qty, SideOf(m.key))),
     orderMap     |-> Put(b.orderMap, m.key, [price |-> m.price, left_qty |-> m.qty]),
     status       |-> b.status]

\* Mutant: an order that has been executed completely stays in the order map.
executeOrderKeepsFilled(b, m) ==
    IF m.key \notin DOMAIN b.orderMap \/ ~HasLevel(LevelsOf(b, m.key), b.orderMap[m.key].price) THEN b
    ELSE LET o == b.orderMap[m.key]
         IN  [b EXCEPT !.orderbookMap = SetLevels(b, m.key, ExecuteOrder(LevelsOf(b, m.key), o.price, m.qty)),
                       !.orderMap = Put(@, m.key, [o EXCEPT !.left_qty = Minus(@, m.qty)])]

\* Mutant: the executed quantity is taken off the order twice.
executeOrderTwice(b, m) ==
    IF m.key \notin DOMAIN b.orderMap \/ ~HasLevel(LevelsOf(b, m.key), b.orderMap[m.key].price) THEN b
    ELSE LET o    == b.orderMap[m.key]
             left == Minus(o.left_qty, m.qty)
         IN  [b EXCEPT !.orderbookMap = SetLevels(b, m.key, ExecuteOrder(LevelsOf(b, m.key), o.price, m.qty)),
                       !.orderMap = IF left = 0 THEN Erase(@, m.key)
                                    ELSE Put(@, m.key, [o EXCEPT !.left_qty = Minus(left, m.qty)])]

\* executeOrder: unknown orders are skipped; the book is reduced at the STORED
\* price; left_qty is unsigned and only an exact 0 removes the order.
executeOrder(b, m) ==
    IF m.key \notin DOMAIN b.orderMap THEN b
    ELSE LET o    == b.orderMap[m.key]
             left == Minus(o.left_qty, m.qty)
         IN  IF ~HasLevel(LevelsOf(b, m.key), o.price)
             THEN [b EXCEPT !.status = "undefined"]
             ELSE [orderbookMap |-> SetLevels(b, m.key, ExecuteOrder(LevelsOf(b, m.key), o.price, m.qty)),
                   orderMap     |-> IF left = 0 THEN Erase(b.orderMap, m.key)
                                    ELSE Put(b.orderMap, m.key, [price |-> o.price, left_qty |-> left]),
                   status       |-> b.status]

\* Mutant: the deleted order stays in the order map.
deleteOrderKeepsOrder(b, m) ==
    IF m.key \notin DOMAIN b.orderMap \/ ~HasLevel(LevelsOf(b, m.key), b.orderMap[m.key].price) THEN b
    ELSE LET o == b.orderMap[m.key]
         IN  [b EXCEPT !.orderbookMap = SetLevels(b, m.key, DeleteOrder(LevelsOf(b, m.key), o.price, o.left_qty))]

\* deleteOrder: unknown orders are skipped; what is left of the order leaves the book.
deleteOrder(b, m) ==
    IF m.key \notin DOMAIN b.orderMap THEN b
    ELSE LET o == b.orderMap[m.key]
         IN  IF ~HasLevel(LevelsOf(b, m.key), o.price)
             THEN [b EXCEPT !.status = "exited"]
             ELSE [orderbookMap |-> SetLevels(b, m.key, DeleteOrder(LevelsOf(b, m.key), o.price, o.left_qty)),
                   orderMap     |-> Erase(b.orderMap, m.key),
                   status       |-> b.status]

\* One turn of parsePayload's loop: the switch on the message type.  A process that
\* has exited (or whose behaviour is undefined) takes no further turn.
parseMessage(b, m) ==
    CASE b.status # "running" -> b
      [] b.status = "running" /\ m.type = "A" -> addOrder(b, m)
      [] b.status = "running" /\ m.type = "E" -> executeOrder(b, m)
      [] b.status = "running" /\ m.type = "D" -> deleteOrder(b, m)
      [] OTHER -> b

\* parsePayload: the messages of one packet, in order.
parsePayload(b, messages) ==
    LET turn[i \in 0 .. Len(messages)] ==
            IF i = 0 THEN b ELSE parseMessage(turn[i - 1], messages[i])
    IN  turn[Len(messages)]

----------------------------------------------------------------------------
(* What the two maps are meant to say about each other. *)

Order == [price : Prices, left_qty : Quantity]

BuilderType(b) ==
    /\ b.orderbookMap \in [Books -> [BookSides -> Seq(Level(Prices))]]
    /\ DOMAIN b.orderMap \subseteq Keys
    /\ \A k \in DOMAIN b.orderMap : b.orderMap[k] \in Order
    /\ b.status \in {"running", "exited", "undefined"}

\* The shares that open orders hold at a price of one side of a book, one element
\* per share, so that their number is the total quantity.
Shares(orders, ob, bs, price) ==
    UNION { {k} \X (1 .. orders[k].left_qty) :
            k \in {k \in DOMAIN orders : BookOf(k) = ob /\ SideOf(k) = bs /\ orders[k].price = price} }
============================================================================
