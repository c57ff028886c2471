--------------------------- MODULE ItchFeedProofs ---------------------------
(***************************************************************************)
(* The builder's two maps agree, for every set of books, orders, prices    *)
(* and quantities, under every feed that does not amend orders.            *)
(***************************************************************************)
EXTENDS ItchFeed, OrderbookBuilderProofs

----------------------------------------------------------------------------
(* The inductive invariant.  Mirror and Covered say nothing of the books, but     *)
(* without them an execution could take more out of a level than the order has    *)
(* left at the client, and a new order could overwrite one that is still open.    *)

TableOK ==
    /\ used \subseteq Keys
    /\ missed \subseteq used
    /\ DOMAIN live \subseteq used
    /\ \A k \in DOMAIN live : live[k] \in [price : Prices, left_qty : 1 .. MaxQty]

FeedInv == GoodBuilder(builder) /\ TableOK /\ Mirror /\ Covered

\* The client's books stay as they are, or one cell of them grows or shrinks.
ClientStep ==
    \/ builder' = builder
    \/ \E key \in Keys, price \in Prices, qty \in 1 .. MaxQty :
           LET n == QtyAt(LevelsOf(builder, key), price)
           IN  \/ Moves(builder, builder', key, price, n + qty)
               \/ qty <= n /\ Moves(builder, builder', key, price, n - qty)

\* Before the first message.
LEMMA InitInv == Init => FeedInv
<1> SUFFICES ASSUME Init PROVE FeedInv
  OBVIOUS
<1>1. builder = EmptyBuilder /\ live = << >> /\ used = {} /\ missed = {}
  BY DEF Init
<1>2. DOMAIN << >> = {}
  OBVIOUS
<1>3. builder.orderMap = << >>
  BY <1>1 DEF EmptyBuilder
<1>4. GoodBuilder(builder)
  BY <1>1, EmptyIsGood
<1>5. TableOK
  BY <1>1, <1>2 DEF TableOK
<1>6. Mirror /\ Covered
  BY <1>1, <1>2, <1>3 DEF Mirror, Covered
<1> QED
  BY <1>4, <1>5, <1>6 DEF FeedInv

\* A message the parser's switch has no case for.
LEMMA Ignored ==
    ASSUME NEW m, Publish(m), m.type \notin {"A", "E", "D"}
    PROVE  builder' = builder
BY DEF Publish, parseMessage

\* An order is added.
LEMMA EnterStep ==
    ASSUME FeedInv, NEW type \in {"A", "F"}, NEW key \in Keys, NEW price \in Prices, NEW qty \in 1 .. MaxQty,
           Enter(type, key, price, qty)
    PROVE  FeedInv' /\ ClientStep
<1> DEFINE m     == NewOrderMessage(type, key, price, qty)
           order == [price |-> price, left_qty |-> qty]
<1>1. /\ key \notin used /\ Publish(m) /\ live' = Put(live, key, order)
      /\ used' = used \cup {key} /\ missed' = (IF type = "A" THEN missed ELSE missed \cup {key})
  BY DEF Enter
<1>2. order \in [price : Prices, left_qty : 1 .. MaxQty]
  OBVIOUS
<1>3. m.type = type /\ m.key = key /\ m.price = price /\ m.qty = qty
  BY DEF NewOrderMessage, AddOrderMessage, AddOrderWithMPIDMessage
<1> HIDE DEF order, m
<1>1a. /\ DOMAIN live' = DOMAIN live \cup {key}
       /\ live'[key] = order
       /\ \A k \in DOMAIN live \ {key} : live'[k] = live[k]
  BY <1>1 DEF Put
<1>4. TableOK'
  BY <1>1, <1>1a, <1>2 DEF FeedInv, TableOK
<1>5. key \notin DOMAIN builder.orderMap /\ key \notin DOMAIN live
  BY <1>1 DEF FeedInv, Mirror, TableOK
<1>6. CASE type = "A"
  <2>1. builder' = addOrder(builder, m)
    BY <1>1, <1>3, <1>6 DEF Publish, parseMessage
  <2>2. Moves(builder, builder', key, price, QtyAt(LevelsOf(builder, key), price) + qty)
    BY <1>3, <1>5, <2>1, AddKeepsTotals DEF FeedInv
  <2>3. GoodBuilder(builder')
    BY <2>2 DEF Moves
  <2>4. builder'.orderMap = Put(builder.orderMap, key, order)
    BY <1>3, <2>1 DEF addOrder, order
  <2>4a. /\ DOMAIN builder'.orderMap = DOMAIN builder.orderMap \cup {key}
         /\ builder'.orderMap[key] = order
         /\ \A k \in DOMAIN builder.orderMap \ {key} : builder'.orderMap[k] = builder.orderMap[k]
    BY <2>4 DEF Put
  <2>5. Mirror'
    BY <1>1, <1>1a, <1>5, <1>6, <2>4a DEF FeedInv, Mirror
  <2>6. Covered'
    <3>1. order.left_qty <= order.left_qty
      BY <1>2, FeedAssumption
    <3> QED
      BY <1>1a, <1>5, <2>4a, <3>1 DEF FeedInv, Covered
  <2> QED
    BY <1>4, <2>2, <2>3, <2>5, <2>6 DEF FeedInv, ClientStep
<1>7. CASE type = "F"
  <2>1. builder' = builder
    BY <1>1, <1>3, <1>7, Ignored
  <2>2. Mirror'
    BY <1>1, <1>1a, <1>5, <1>7, <2>1 DEF FeedInv, Mirror
  <2>3. Covered'
    BY <1>1a, <1>5, <2>1 DEF FeedInv, Covered
  <2> QED
    BY <1>4, <2>1, <2>2, <2>3 DEF FeedInv, ClientStep
<1> QED
  BY <1>6, <1>7

\* An order is executed, wholly or in part.
LEMMA ExecuteStep ==
    ASSUME FeedInv, NEW type \in {"E", "C"}, NEW key \in Keys, NEW qty \in 1 .. MaxQty,
           Execute(type, key, qty)
    PROVE  FeedInv' /\ ClientStep
<1> DEFINE m == TradeMessage(type, key, qty, live[key].price)
<1>1. /\ key \in DOMAIN live /\ qty <= live[key].left_qty /\ Publish(m)
      /\ live' = Remaining(live, key, qty)
      /\ used' = used /\ missed' = (IF type = "E" THEN missed ELSE missed \cup {key})
  BY DEF Execute, Remaining
<1>2. m.type = type /\ m.key = key /\ m.qty = qty
  BY DEF TradeMessage, OrderExecutedMessage, OrderExecutedWithPriceMessage
<1> HIDE DEF m
<1>3. live[key].price \in Prices /\ live[key].left_qty \in 1 .. MaxQty /\ key \in used
  BY <1>1 DEF FeedInv, TableOK
<1>4. /\ qty = live[key].left_qty => DOMAIN live' = DOMAIN live \ {key}
      /\ qty # live[key].left_qty =>
             /\ DOMAIN live' = DOMAIN live
             /\ live'[key] = [price |-> live[key].price, left_qty |-> live[key].left_qty - qty]
      /\ \A k \in DOMAIN live \ {key} : live'[k] = live[k]
  BY <1>1 DEF Remaining, Put, Erase
<1>5. TableOK'
  <2>1. qty # live[key].left_qty =>
            [price |-> live[key].price, left_qty |-> live[key].left_qty - qty]
                \in [price : Prices, left_qty : 1 .. MaxQty]
    BY <1>1, <1>3, FeedAssumption
  <2> QED
    BY <1>1, <1>3, <1>4, <2>1 DEF FeedInv, TableOK
<1>6. ASSUME builder' = builder, key \notin DOMAIN builder.orderMap \/ key \in missed'
      PROVE  Mirror' /\ Covered'
  <2>1. key \in missed'
    BY <1>1, <1>3, <1>6 DEF FeedInv, Mirror
  <2>2. Mirror'
    BY <1>1, <1>4, <1>6, <2>1 DEF FeedInv, Mirror
  <2>3. Covered'
    <3> SUFFICES ASSUME NEW k \in DOMAIN live' \cap DOMAIN builder.orderMap
                 PROVE  live'[k].left_qty <= builder.orderMap[k].left_qty
      BY <1>6 DEF Covered
    <3>1. k \in DOMAIN live /\ live[k].left_qty <= builder.orderMap[k].left_qty
      BY <1>1, <1>4 DEF FeedInv, Covered
    <3>2. CASE k # key
      BY <1>4, <3>1, <3>2
    <3>3. CASE k = key
      <4>1. live'[k].left_qty = live[k].left_qty - qty
        BY <1>4, <3>3
      <4>2. builder.orderMap[k].left_qty \in 1 .. MaxQty
        BY DEF FeedInv, GoodBuilder, OrderMap
      <4> QED
        BY <1>3, <3>1, <3>3, <4>1, <4>2, FeedAssumption
    <3> QED
      BY <3>2, <3>3
  <2> QED
    BY <2>2, <2>3
<1>7. CASE type = "C"
  <2>1. builder' = builder
    BY <1>1, <1>2, <1>7, Ignored
  <2>2. key \in missed'
    BY <1>1, <1>7
  <2> QED
    BY <1>5, <1>6, <2>1, <2>2 DEF FeedInv, ClientStep
<1>8. CASE type = "E" /\ key \notin DOMAIN builder.orderMap
  <2>1. builder' = builder
    BY <1>1, <1>2, <1>8 DEF Publish, parseMessage, executeOrder
  <2> QED
    BY <1>5, <1>6, <1>8, <2>1 DEF FeedInv, ClientStep
<1>9. CASE type = "E" /\ key \in DOMAIN builder.orderMap
  <2> DEFINE o == builder.orderMap[key]
             n == QtyAt(LevelsOf(builder, key), o.price)
  <2>1. builder' = executeOrder(builder, m)
    BY <1>1, <1>2, <1>9 DEF Publish, parseMessage
  <2>2. /\ o.price \in Prices /\ o.left_qty \in 1 .. MaxQty /\ o.left_qty <= n /\ n \in Nat
    BY <1>9, OpenOrderShown DEF FeedInv
  <2>3. qty <= o.left_qty /\ qty <= n
    BY <1>1, <1>3, <1>9, <2>2, FeedAssumption DEF FeedInv, Covered
  <2>4. /\ builder'.orderMap = Remaining(builder.orderMap, key, qty)
        /\ Moves(builder, builder', key, o.price, n - qty)
    BY <1>2, <1>9, <2>1, <2>3, ExecuteKeepsTotals DEF FeedInv
  <2>5. GoodBuilder(builder')
    BY <2>4 DEF Moves
  <2>6. /\ qty = o.left_qty => DOMAIN builder'.orderMap = DOMAIN builder.orderMap \ {key}
        /\ qty # o.left_qty =>
               /\ DOMAIN builder'.orderMap = DOMAIN builder.orderMap
               /\ builder'.orderMap[key] = [price |-> o.price, left_qty |-> o.left_qty - qty]
        /\ \A k \in DOMAIN builder.orderMap \ {key} : builder'.orderMap[k] = builder.orderMap[k]
    BY <1>9, <2>4 DEF Remaining, Put, Erase
  <2>7. Mirror'
    <3>1. key \notin missed => o = live[key]
      BY <1>1, <1>3 DEF FeedInv, Mirror
    <3> HIDE DEF o
    <3>2. DOMAIN builder'.orderMap \subseteq used'
      BY <1>1, <2>6 DEF FeedInv, Mirror
    <3>3. \A k \in used \ missed : k # key =>
              /\ k \in DOMAIN builder'.orderMap <=> k \in DOMAIN live'
              /\ k \in DOMAIN live' => builder'.orderMap[k] = live'[k]
      <4> SUFFICES ASSUME NEW k \in used \ missed, k # key
                   PROVE  /\ k \in DOMAIN builder'.orderMap <=> k \in DOMAIN live'
                          /\ k \in DOMAIN live' => builder'.orderMap[k] = live'[k]
        OBVIOUS
      <4>1. /\ k \in DOMAIN builder.orderMap <=> k \in DOMAIN live
            /\ k \in DOMAIN live => builder.orderMap[k] = live[k]
        BY DEF FeedInv, Mirror
      <4>2. /\ k \in DOMAIN builder'.orderMap <=> k \in DOMAIN builder.orderMap
            /\ k \in DOMAIN live' <=> k \in DOMAIN live
        BY <1>4, <2>6
      <4> QED
        BY <1>4, <2>6, <4>1, <4>2
    <3>4. key \notin missed => /\ key \in DOMAIN builder'.orderMap <=> key \in DOMAIN live'
                               /\ key \in DOMAIN live' => builder'.orderMap[key] = live'[key]
      BY <1>1, <1>4, <1>9, <2>6, <3>1
    <3>5. used' = used /\ missed' = missed
      BY <1>1, <1>9
    <3> QED
      BY <3>2, <3>3, <3>4, <3>5 DEF Mirror
  <2>8. Covered'
    <3> SUFFICES ASSUME NEW k \in DOMAIN live' \cap DOMAIN builder'.orderMap
                 PROVE  live'[k].left_qty <= builder'.orderMap[k].left_qty
      BY DEF Covered
    <3>1. k \in DOMAIN live \cap DOMAIN builder.orderMap
      BY <1>1, <1>4, <1>9, <2>6
    <3>2. live[k].left_qty <= builder.orderMap[k].left_qty
      BY <3>1 DEF FeedInv, Covered
    <3>3. CASE k # key
      BY <1>4, <2>6, <3>1, <3>2, <3>3
    <3>4. CASE k = key
      <4>1. live'[k].left_qty = live[k].left_qty - qty
        BY <1>4, <3>4
      <4>2. builder'.orderMap[k].left_qty = builder.orderMap[k].left_qty - qty
        BY <2>6, <3>4
      <4> QED
        BY <1>3, <2>2, <3>2, <3>4, <4>1, <4>2, FeedAssumption
    <3> QED
      BY <3>3, <3>4
  <2>9. ClientStep
    BY <2>2, <2>3, <2>4 DEF ClientStep
  <2> QED
    BY <1>5, <2>5, <2>7, <2>8, <2>9 DEF FeedInv
<1> QED
  BY <1>7, <1>8, <1>9

\* An order is deleted.
LEMMA DeleteStep ==
    ASSUME FeedInv, NEW key \in Keys, Delete(key)
    PROVE  FeedInv' /\ ClientStep
<1> DEFINE m == OrderDeleteMessage(key)
<1>1. key \in DOMAIN live /\ Publish(m) /\ live' = Erase(live, key) /\ used' = used /\ missed' = missed
  BY DEF Delete
<1>2. m.type = "D" /\ m.key = key
  BY DEF OrderDeleteMessage
<1> HIDE DEF m
<1>3. DOMAIN live' = DOMAIN live \ {key} /\ \A k \in DOMAIN live \ {key} : live'[k] = live[k]
  BY <1>1 DEF Erase
<1>4. TableOK'
  BY <1>1, <1>3 DEF FeedInv, TableOK
<1>5. CASE key \notin DOMAIN builder.orderMap
  <2>1. builder' = builder
    BY <1>1, <1>2, <1>5 DEF Publish, parseMessage, deleteOrder
  <2>2. Mirror'
    BY <1>1, <1>3, <1>5, <2>1 DEF FeedInv, Mirror
  <2>3. Covered'
    BY <1>3, <2>1 DEF FeedInv, Covered
  <2> QED
    BY <1>4, <2>1, <2>2, <2>3 DEF FeedInv, ClientStep
<1>6. CASE key \in DOMAIN builder.orderMap
  <2> DEFINE o == builder.orderMap[key]
             n == QtyAt(LevelsOf(builder, key), o.price)
  <2>1. builder' = deleteOrder(builder, m)
    BY <1>1, <1>2, <1>6 DEF Publish, parseMessage
  <2>2. o.price \in Prices /\ o.left_qty \in 1 .. MaxQty /\ o.left_qty <= n
    BY <1>6, OpenOrderShown DEF FeedInv
  <2>3. /\ builder'.orderMap = Erase(builder.orderMap, key)
        /\ Moves(builder, builder', key, o.price, n - o.left_qty)
    BY <1>2, <1>6, <2>1, DeleteKeepsTotals DEF FeedInv
  <2>4. /\ DOMAIN builder'.orderMap = DOMAIN builder.orderMap \ {key}
        /\ \A k \in DOMAIN builder.orderMap \ {key} : builder'.orderMap[k] = builder.orderMap[k]
    BY <2>3 DEF Erase
  <2>5. GoodBuilder(builder')
    BY <2>3 DEF Moves
  <2>6. Mirror'
    BY <1>1, <1>3, <2>4 DEF FeedInv, Mirror
  <2>7. Covered'
    BY <1>3, <2>4 DEF FeedInv, Covered
  <2>8. ClientStep
    BY <2>2, <2>3 DEF ClientStep
  <2> QED
    BY <1>4, <2>5, <2>6, <2>7, <2>8 DEF FeedInv
<1> QED
  BY <1>5, <1>6

\* A book is flushed with every order in it.
LEMMA FlushStep ==
    ASSUME FeedInv, NEW ob \in Books, Flush(ob)
    PROVE  FeedInv' /\ ClientStep
<1> DEFINE gone == {k \in DOMAIN live : BookOf(k) = ob}
<1>1. /\ Publish(OrderbookFlushMessage(ob))
      /\ live' = [k \in DOMAIN live \ gone |-> live[k]]
      /\ missed' = missed \cup gone /\ used' = used
  BY DEF Flush
<1>2. builder' = builder
  BY <1>1, Ignored DEF OrderbookFlushMessage
<1>3. gone \subseteq DOMAIN live
  OBVIOUS
<1> HIDE DEF gone
<1>4. DOMAIN live' = DOMAIN live \ gone /\ \A k \in DOMAIN live \ gone : live'[k] = live[k]
  BY <1>1
<1>5. TableOK'
  BY <1>1, <1>3, <1>4 DEF FeedInv, TableOK
<1>6. Mirror'
  BY <1>1, <1>2, <1>4 DEF FeedInv, Mirror
<1>7. Covered'
  BY <1>2, <1>4 DEF FeedInv, Covered
<1> QED
  BY <1>2, <1>5, <1>6, <1>7 DEF FeedInv, ClientStep

\* Every message.
LEMMA NextStep ==
    ASSUME FeedInv, Next
    PROVE  FeedInv' /\ ClientStep
<1>1. CASE \E type \in {"A", "F"}, key \in Keys, price \in Prices, qty \in 1 .. MaxQty :
               Enter(type, key, price, qty)
  BY <1>1, EnterStep
<1>2. CASE \E type \in {"E", "C"}, key \in Keys, qty \in 1 .. MaxQty : Execute(type, key, qty)
  BY <1>2, ExecuteStep
<1>3. CASE \E key \in Keys : Delete(key)
  BY <1>3, DeleteStep
<1>4. CASE \E ob \in Books : Flush(ob)
  BY <1>4, FlushStep
<1> QED
  BY <1>1, <1>2, <1>3, <1>4 DEF Next

\* The properties follow from the invariant.
LEMMA InvImplies == FeedInv => TypeOK /\ NoMissingLevel /\ SortedBook /\ LevelTotals
<1> SUFFICES ASSUME FeedInv PROVE TypeOK /\ NoMissingLevel /\ SortedBook /\ LevelTotals
  OBVIOUS
<1>1. \A k \in DOMAIN builder.orderMap : builder.orderMap[k] \in Order
  <2> SUFFICES ASSUME NEW k \in DOMAIN builder.orderMap PROVE builder.orderMap[k] \in Order
    OBVIOUS
  <2>1. k \in Keys /\ builder.orderMap[k] \in [price : Prices, left_qty : 1 .. MaxQty]
    BY DEF FeedInv, GoodBuilder, OrderMap
  <2>2. 1 .. MaxQty \subseteq Quantity
    BY <2>1, QtyFits
  <2> QED
    BY <2>1, <2>2 DEF Order
<1>2. BuilderType(builder)
  BY <1>1 DEF FeedInv, GoodBuilder, OrderMap, BuilderType
<1>3. TypeOK
  BY <1>2 DEF FeedInv, TableOK, TypeOK
<1>4. NoMissingLevel /\ LevelTotals
  BY DEF FeedInv, GoodBuilder, NoMissingLevel, LevelTotals
<1>5. SortedBook
  BY DEF FeedInv, GoodBuilder, GoodSide, SortedBook
<1> QED
  BY <1>3, <1>4, <1>5

\* The invariant holds in every state of every feed without amendments: types, maps
\* in agreement, and an order table that mirrors the exchange's.
THEOREM FeedInvAlways == Spec => []FeedInv
<1>1. Init => FeedInv
  BY InitInv
<1>2. FeedInv /\ [Next]_vars => FeedInv'
  <2> SUFFICES ASSUME FeedInv, [Next]_vars PROVE FeedInv'
    OBVIOUS
  <2>1. CASE Next
    BY <2>1, NextStep
  <2>2. CASE UNCHANGED vars
    BY <2>2 DEF vars, FeedInv, TableOK, Mirror, Covered
  <2> QED
    BY <2>1, <2>2
<1> QED
  BY <1>1, <1>2, PTL DEF Spec

\* Type correctness of the builder's maps and of the exchange's table.
THEOREM TypeOKAlways == Spec => []TypeOK
BY FeedInvAlways, InvImplies, PTL

\* Without amendments on the feed, DeleteOrder's std::exit(42) and the missing level
\* of ExecuteOrderImpl are unreachable, however many messages are ignored.
THEOREM NoMissingLevelAlways == Spec => []NoMissingLevel
BY FeedInvAlways, InvImplies, PTL

\* The vectors of every book stay strictly sorted with the best price at the back,
\* and hold no empty level.
THEOREM SortedBookAlways == Spec => []SortedBook
BY FeedInvAlways, InvImplies, PTL

\* A level always holds exactly what the open orders at its price have left.
THEOREM LevelTotalsAlways == Spec => []LevelTotals
BY FeedInvAlways, InvImplies, PTL

\* An ignored message never damages the client's copy of another order.
THEOREM MirrorAlways == Spec => []Mirror
<1>1. FeedInv => Mirror
  BY DEF FeedInv
<1> QED
  BY <1>1, FeedInvAlways, PTL

\* An order that is open on both sides never has less left at the client than at the
\* exchange, whatever the parser ignores, so an execution never overdraws a level.
THEOREM CoveredAlways == Spec => []Covered
<1>1. FeedInv => Covered
  BY DEF FeedInv
<1> QED
  BY <1>1, FeedInvAlways, PTL

----------------------------------------------------------------------------
(* The books implement the aggregated book. *)

\* A change of one cell of the books is a change of one cell of the depth.
LEMMA DepthMoves ==
    ASSUME NEW key \in Keys, NEW price \in Prices, NEW q, Moves(builder, builder', key, price, q)
    PROVE  Depth' = [Depth EXCEPT ![<< BookOf(key), SideOf(key), price >>] = q]
<1> DEFINE cell == << BookOf(key), SideOf(key), price >>
           new  == [Depth EXCEPT ![cell] = q]
<1>1. Depth' = [c \in Cells |-> QtyAt(builder'.orderbookMap[c[1]][c[2]], c[3])]
  BY DEF Depth
<1>2. new = [c \in Cells |-> IF c = cell THEN q ELSE Depth[c]]
  BY DEF Depth
<1>3. \A c \in Cells : QtyAt(builder'.orderbookMap[c[1]][c[2]], c[3]) =
                           IF c = cell THEN q ELSE Depth[c]
  <2> SUFFICES ASSUME NEW c \in Cells
               PROVE  QtyAt(builder'.orderbookMap[c[1]][c[2]], c[3]) =
                          IF c = cell THEN q ELSE Depth[c]
    OBVIOUS
  <2>1. /\ c[1] \in Books /\ c[2] \in BookSides /\ c[3] \in Prices
        /\ c = cell <=> c[1] = BookOf(key) /\ c[2] = SideOf(key) /\ c[3] = price
    BY DEF Cells
  <2>2. Depth[c] = QtyAt(builder.orderbookMap[c[1]][c[2]], c[3])
    BY DEF Depth
  <2> HIDE DEF cell
  <2> QED
    BY <2>1, <2>2 DEF Moves
<1> HIDE DEF new, cell
<1>4. Depth' = new
  BY <1>1, <1>2, <1>3
<1> QED
  BY <1>4 DEF new, cell

\* A feed without amendments drives the client's books through steps of an
\* aggregated book only: no message empties, fills or moves quantity it is not about.
THEOREM ImplementsAggregatedBook == Spec => AggregatedSpec
<1>1. Init => Aggregated!Init
  <2> SUFFICES ASSUME Init PROVE Depth = [c \in Cells |-> 0]
    BY DEF Aggregated!Init
  <2>1. FeedInv /\ builder = EmptyBuilder
    BY InitInv DEF Init
  <2>2. \A c \in Cells : QtyAt(builder.orderbookMap[c[1]][c[2]], c[3]) = 0
    <3> SUFFICES ASSUME NEW c \in Cells PROVE QtyAt(builder.orderbookMap[c[1]][c[2]], c[3]) = 0
      OBVIOUS
    <3>1. c[1] \in Books /\ c[2] \in BookSides /\ c[3] \in Prices
      BY DEF Cells
    <3>2. QtyAt(builder.orderbookMap[c[1]][c[2]], c[3]) = Cardinality(Shares(builder.orderMap, c[1], c[2], c[3]))
      BY <2>1, <3>1 DEF FeedInv, GoodBuilder
    <3>3. DOMAIN builder.orderMap = {}
      BY <2>1 DEF EmptyBuilder
    <3>4. Shares(builder.orderMap, c[1], c[2], c[3]) = {}
      BY <3>3, SharesMembers
    <3> QED
      BY <3>2, <3>4, FS_EmptySet
  <2> QED
    BY <2>2 DEF Depth
<1>2. FeedInv /\ [Next]_vars => [Aggregated!Next]_Depth
  <2> SUFFICES ASSUME FeedInv, [Next]_vars PROVE [Aggregated!Next]_Depth
    OBVIOUS
  <2>1. CASE UNCHANGED vars
    BY <2>1 DEF vars, Depth
  <2>2. CASE Next
    <3>1. ClientStep
      BY <2>2, NextStep
    <3>2. CASE builder' = builder
      BY <3>2 DEF Depth
    <3>3. CASE builder' # builder
      <4>1. PICK key \in Keys, price \in Prices, qty \in 1 .. MaxQty :
                LET n == QtyAt(LevelsOf(builder, key), price)
                IN  \/ Moves(builder, builder', key, price, n + qty)
                    \/ qty <= n /\ Moves(builder, builder', key, price, n - qty)
        BY <3>1, <3>3 DEF ClientStep
      <4> DEFINE cell == << BookOf(key), SideOf(key), price >>
                 n    == QtyAt(LevelsOf(builder, key), price)
      <4>2. cell \in Cells /\ Depth[cell] = n
        BY KeyParts DEF Cells, Depth, LevelsOf
      <4>3. \/ Moves(builder, builder', key, price, n + qty)
            \/ qty <= n /\ Moves(builder, builder', key, price, n - qty)
        BY <4>1
      <4>4. \/ Depth' = [Depth EXCEPT ![cell] = n + qty]
            \/ qty <= n /\ Depth' = [Depth EXCEPT ![cell] = n - qty]
        BY <4>3, DepthMoves
      <4> HIDE DEF n, cell
      <4>5. Aggregated!Enter(cell, qty) \/ Aggregated!Leave(cell, qty)
        BY <4>2, <4>4 DEF Aggregated!Enter, Aggregated!Leave
      <4> QED
        BY <4>2, <4>5 DEF Aggregated!Next
    <3> QED
      BY <3>2, <3>3
  <2> QED
    BY <2>1, <2>2
<1> QED
  BY <1>1, <1>2, FeedInvAlways, PTL DEF Spec, AggregatedSpec, Aggregated!Spec
=============================================================================
