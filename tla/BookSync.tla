------------------------------ MODULE BookSync ------------------------------
(***************************************************************************)
(* MarketDataClient together with the builder its packets reach: the book  *)
(* a client that joins a running session ends up with.                     *)
(*                                                                         *)
(* session is what the exchange publishes under the numbers 1 .. LastSeq.  *)
(* parse hands every packet to the ITCH parser before it looks at its      *)
(* number, so the builder is the fold of the parsed messages in the order  *)
(* in which they arrived.                                                  *)
(***************************************************************************)
EXTENDS MarketDataClient, OrderbookBuilder

VARIABLE session

syncVars == << vars, session >>

\* The messages one open order can be about.
Messages ==
    {AddOrderMessage(key, price, qty) : key \in Keys, price \in Prices, qty \in 1 .. MaxQty}
        \cup {OrderExecutedMessage(key, qty) : key \in Keys, qty \in 1 .. MaxQty}
        \cup {OrderDeleteMessage(key) : key \in Keys}

\* The open orders of an exchange once it has published another message.
After(open, m) ==
    LET o == open[m.key]
    IN  CASE m.type = "A" -> Put(open, m.key, [price |-> m.price, left_qty |-> m.qty])
          [] m.type = "E" /\ m.qty < o.left_qty ->
                 Put(open, m.key, [price |-> o.price, left_qty |-> o.left_qty - m.qty])
          [] OTHER -> Erase(open, m.key)

\* The open orders after each number of messages of a session.
OpenOrders(s) ==
    LET open[i \in 0 .. LastSeq] == IF i = 0 THEN << >> ELSE After(open[i - 1], s[i])
    IN  open

\* A message the exchange can publish when these orders are open: order ids are not
\* used twice, an execution is at most what is left, and the book does not cross.
Legal(s, n) ==
    LET open == OpenOrders(s)[n - 1]
        m    == s[n]
    IN  IF m.type = "A"
        THEN /\ \A i \in 1 .. n - 1 : s[i].key # m.key
             /\ \A k \in DOMAIN open :
                    BookOf(k) = BookOf(m.key) /\ SideOf(k) # SideOf(m.key) =>
                        Comp(SideOf(m.key), m.price, open[k].price)
        ELSE /\ m.key \in DOMAIN open
             /\ m.type = "E" => m.qty <= open[m.key].left_qty

Sessions == {s \in [1 .. LastSeq -> Messages] : \A n \in 1 .. LastSeq : Legal(s, n)}

SyncInit == Init /\ session \in Sessions
SyncNext == Next /\ UNCHANGED session
SyncSpec == SyncInit /\ [][SyncNext]_syncVars /\ Fairness

\* m_builder: the messages parsed so far, in the order of their packets.
builder == parsePayload(EmptyBuilder, [i \in 1 .. Len(applied) |-> session[applied[i]]])

\* The orders open at the exchange after the messages the client has.
UpToDate == state = "Continuous" /\ Range(applied) = 1 .. published

----------------------------------------------------------------------------
(* Properties. *)

\* On a reliable network a late joiner never loses an order or a share of one:
\* once it has all messages, every order that is open at the exchange is in its
\* order map, at the same price and with at least the quantity that is left.
NothingUnderstated ==
    UpToDate =>
        LET open == OpenOrders(session)[published]
        IN  \A k \in DOMAIN open :
                /\ k \in DOMAIN builder.orderMap
                /\ builder.orderMap[k].price = open[k].price
                /\ builder.orderMap[k].left_qty >= open[k].left_qty

\* The builder never meets a missing level: neither exit(42) nor a failed EXPECT.
NoMissingLevel == builder.status = "running"

\* Dump never has to report "BAD ORDERBOOK" once the client is up to date.
NeverBad == UpToDate => \A ob \in Books : ~Bad(builder.orderbookMap[ob])
============================================================================
