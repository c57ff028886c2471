------------------------------ MODULE ItchFeed ------------------------------
(***************************************************************************)
(* The builder of OrderbookBuilder driven by an exchange that publishes    *)
(* one ITCH message per change of its own order table, every message       *)
(* delivered once and in order.                                            *)
(*                                                                         *)
(* The exchange is external: it is modelled by the messages lib/protocol/  *)
(* itch/ declares.  It never uses an order id of one book and side twice,  *)
(* executes at most what is left of an order, and does not let its book    *)
(* cross (continuous trading).  Of the types it publishes - AddOrder (A),  *)
(* AddOrderWithMPID (F), OrderExecuted (E), OrderExecutedWithPrice (C),    *)
(* OrderDelete (D), OrderReplace (U), OrderbookFlush (Y) - the parser      *)
(* looks at A, E and D only.  Amendments (U) are kept apart: Spec is a     *)
(* feed without them, AmendedSpec one with them.                           *)
(***************************************************************************)
EXTENDS OrderbookBuilder

VARIABLES
    builder,  \* the client's ConcreteOrderbookBuilder
    live,     \* the exchange's open orders, a partial function from Keys to Order
    used,     \* the keys the exchange has given out
    missed    \* the keys of orders some message about which the parser ignored

vars == << builder, live, used, missed >>

Init ==
    /\ builder = EmptyBuilder
    /\ live = << >>
    /\ used = {}
    /\ missed = {}

\* The client handles the message.  Nothing is said of a client that has stopped.
Publish(m) ==
    /\ builder.status = "running"
    /\ builder' = parseMessage(builder, m)

\* The order would not trade against an order that is already open.
DoesNotCross(key, price) ==
    \A k \in DOMAIN live \ {key} :
        BookOf(k) = BookOf(key) /\ SideOf(k) # SideOf(key) =>
            Comp(SideOf(key), price, live[k].price)

\* The two messages that announce a new order, and the two that report a trade.
NewOrderMessage(type, key, price, qty) ==
    IF type = "A" THEN AddOrderMessage(key, price, qty) ELSE AddOrderWithMPIDMessage(key, price, qty)
TradeMessage(type, key, qty, price) ==
    IF type = "E" THEN OrderExecutedMessage(key, qty) ELSE OrderExecutedWithPriceMessage(key, qty, price)

\* A new order, published as A (seen by the client) or F (ignored).
Enter(type, key, price, qty) ==
    /\ key \notin used
    /\ DoesNotCross(key, price)
    /\ Publish(NewOrderMessage(type, key, price, qty))
    /\ live' = Put(live, key, [price |-> price, left_qty |-> qty])
    /\ used' = used \cup {key}
    /\ missed' = IF type = "A" THEN missed ELSE missed \cup {key}

\* A trade, published as E (seen) or C (ignored).
Execute(type, key, qty) ==
    /\ key \in DOMAIN live
    /\ qty <= live[key].left_qty
    /\ Publish(TradeMessage(type, key, qty, live[key].price))
    /\ live' = IF qty = live[key].left_qty THEN Erase(live, key)
               ELSE Put(live, key, [price |-> live[key].price, left_qty |-> live[key].left_qty - qty])
    /\ missed' = IF type = "E" THEN missed ELSE missed \cup {key}
    /\ UNCHANGED used

\* A cancellation, D.
Delete(key) ==
    /\ key \in DOMAIN live
    /\ Publish(OrderDeleteMessage(key))
    /\ live' = Erase(live, key)
    /\ UNCHANGED << used, missed >>

\* An amendment, U: same order id, new price and quantity.
Replace(key, price, qty) ==
    /\ key \in DOMAIN live
    /\ DoesNotCross(key, price)
    /\ Publish(OrderReplaceMessage(key, price, qty))
    /\ live' = Put(live, key, [price |-> price, left_qty |-> qty])
    /\ missed' = missed \cup {key}
    /\ UNCHANGED used

\* The exchange drops all orders of a book, Y.
Flush(ob) ==
    LET gone == {k \in DOMAIN live : BookOf(k) = ob}
    IN  /\ gone # {}
        /\ Publish(OrderbookFlushMessage(ob))
        /\ live' = [k \in DOMAIN live \ gone |-> live[k]]
        /\ missed' = missed \cup gone
        /\ UNCHANGED used

Next ==
    \/ \E type \in {"A", "F"}, key \in Keys, price \in Prices, qty \in 1 .. MaxQty :
           Enter(type, key, price, qty)
    \/ \E type \in {"E", "C"}, key \in Keys, qty \in 1 .. MaxQty : Execute(type, key, qty)
    \/ \E key \in Keys : Delete(key)
    \/ \E ob \in Books : Flush(ob)

Spec == Init /\ [][Next]_vars

AmendedNext ==
    Next \/ \E key \in Keys, price \in Prices, qty \in 1 .. MaxQty : Replace(key, price, qty)

AmendedSpec == Init /\ [][AmendedNext]_vars

----------------------------------------------------------------------------
(* Properties. *)

\* Types of the builder and of the exchange's table.
TypeOK ==
    /\ BuilderType(builder)
    /\ used \subseteq Keys
    /\ missed \subseteq used
    /\ DOMAIN live \subseteq used
    /\ \A k \in DOMAIN live : live[k] \in [price : Prices, left_qty : 1 .. MaxQty]

\* DeleteOrder never reaches std::exit(42), and ExecuteOrderImpl never uses the
\* level EXPECT has just found missing.
NoMissingLevel == builder.status = "running"

\* The vectors of every side stay strictly sorted with the best price at the back,
\* whatever the order in which levels were inserted in the middle and erased.
SortedBook ==
    \A ob \in Books, bs \in BookSides :
        /\ Sorted(builder.orderbookMap[ob][bs], bs)
        /\ Positive(builder.orderbookMap[ob][bs])

\* m_orderbookMap and m_orderMap agree: a level holds exactly what the open orders
\* at its price have left, and a price without open orders has no level.
LevelTotals ==
    \A ob \in Books, bs \in BookSides, price \in Prices :
        QtyAt(builder.orderbookMap[ob][bs], price) =
            Cardinality(Shares(builder.orderMap, ob, bs, price))

\* The damage done by ignored messages is confined to the orders they are about:
\* every other order is open at the client exactly when it is open at the exchange,
\* with the same price and the same quantity left.
Mirror ==
    /\ DOMAIN builder.orderMap \subseteq used
    /\ \A k \in used \ missed :
           /\ k \in DOMAIN builder.orderMap <=> k \in DOMAIN live
           /\ k \in DOMAIN live => builder.orderMap[k] = live[k]

\* What the client still counts as open covers every execution that can follow.
Covered ==
    \A k \in DOMAIN live \cap DOMAIN builder.orderMap :
        live[k].left_qty <= builder.orderMap[k].left_qty

\* The quantity the client's books show, cell by cell, is an aggregated book.
Cells == Books \X BookSides \X Prices
Depth == [c \in Cells |-> QtyAt(builder.orderbookMap[c[1]][c[2]], c[3])]
Aggregated == INSTANCE AggregatedBook WITH depth <- Depth
AggregatedSpec == Aggregated!Spec
============================================================================
