---------------------------- MODULE ItchMessages ----------------------------
(***************************************************************************)
(* The ITCH messages about orders (lib/protocol/itch/), with the fields a  *)
(* handler of this repository, or the exchange's order table, tells apart. *)
(*                                                                         *)
(* key stands for the three members every such message carries, the order  *)
(* id, the orderbook id and the side.  Times, match and combination ids,   *)
(* positions, attributes and participants are left out.                    *)
(***************************************************************************)

AddOrderMessage(key, price, qty) ==
    [type |-> "A", key |-> key, price |-> price, qty |-> qty]
AddOrderWithMPIDMessage(key, price, qty) ==
    [type |-> "F", key |-> key, price |-> price, qty |-> qty]
OrderReplaceMessage(key, price, qty) ==
    [type |-> "U", key |-> key, price |-> price, qty |-> qty]

\* An execution names the order and what is traded; only C has a price, of the trade.
OrderExecutedMessage(key, qty) ==
    [type |-> "E", key |-> key, qty |-> qty]
OrderExecutedWithPriceMessage(key, qty, trade_price) ==
    [type |-> "C", key |-> key, qty |-> qty, trade_price |-> trade_price]

OrderDeleteMessage(key) == [type |-> "D", key |-> key]

OrderbookFlushMessage(orderbook_id) == [type |-> "Y", orderbook_id |-> orderbook_id]
=============================================================================
