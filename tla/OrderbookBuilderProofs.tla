----------------------- MODULE OrderbookBuilderProofs -----------------------
(***************************************************************************)
(* The builder's two maps agree, for every set of books, orders, prices    *)
(* and quantities: what each of its operations makes of both of them.      *)
(***************************************************************************)
EXTENDS OrderbookBuilder, L2OrderbookProofs

----------------------------------------------------------------------------
(* Counting shares. *)

\* One share per element.
LEMMA SharesMembers ==
    ASSUME NEW orders, NEW ob, NEW bs, NEW price, NEW x
    PROVE  x \in Shares(orders, ob, bs, price) <=>
               \E k \in DOMAIN orders : /\ BookOf(k) = ob /\ SideOf(k) = bs /\ orders[k].price = price
                                        /\ \E i \in 1 .. orders[k].left_qty : x = << k, i >>
BY DEF Shares

\* The orders of a session.
OrderMap(orders) ==
    /\ DOMAIN orders \subseteq Keys
    /\ \A k \in DOMAIN orders : orders[k] \in [price : Prices, left_qty : 1 .. MaxQty]

\* They hold fewer shares than a quantity can count.
LEMMA SharesFit ==
    ASSUME NEW orders, OrderMap(orders), NEW ob, NEW bs, NEW price
    PROVE  /\ IsFiniteSet(Shares(orders, ob, bs, price))
           /\ Cardinality(Shares(orders, ob, bs, price)) \in Nat
           /\ Cardinality(Shares(orders, ob, bs, price)) < QtyMod
<1> USE QuantityFits, FeedAssumption
<1>1. \A x \in Shares(orders, ob, bs, price) : x \in Keys \X (1 .. MaxQty)
  <2> SUFFICES ASSUME NEW x \in Shares(orders, ob, bs, price)
               PROVE  x \in Keys \X (1 .. MaxQty)
    OBVIOUS
  <2>1. PICK k \in DOMAIN orders : \E i \in 1 .. orders[k].left_qty : x = << k, i >>
    BY SharesMembers
  <2>2. k \in Keys /\ orders[k].left_qty \in 1 .. MaxQty
    BY DEF OrderMap
  <2> QED
    BY <2>1, <2>2
<1>2. IsFiniteSet(1 .. MaxQty) /\ Cardinality(1 .. MaxQty) = MaxQty
  BY FS_Interval
<1>3. /\ IsFiniteSet(Keys \X (1 .. MaxQty))
      /\ Cardinality(Keys \X (1 .. MaxQty)) = Cardinality(Keys) * MaxQty
  BY <1>2, FS_Product
<1>4. /\ IsFiniteSet(Shares(orders, ob, bs, price))
      /\ Cardinality(Shares(orders, ob, bs, price)) <= Cardinality(Keys \X (1 .. MaxQty))
  BY <1>1, <1>3, FS_Subset
<1>5. /\ Cardinality(Shares(orders, ob, bs, price)) \in Nat
      /\ Cardinality(Keys \X (1 .. MaxQty)) \in Nat
  BY <1>3, <1>4, FS_CardinalityType
<1> QED
  BY <1>3, <1>4, <1>5, QtyModAssumption

\* What an order holds, nothing when it is not there.
Left(orders, k) == IF k \in DOMAIN orders THEN orders[k].left_qty ELSE 0

\* o2 is o1 with more left of one order.
Grows(o1, o2, key, price) ==
    /\ \A k \in Keys \ {key} : /\ k \in DOMAIN o1 <=> k \in DOMAIN o2
                               /\ k \in DOMAIN o1 => o1[k] = o2[k]
    /\ key \in DOMAIN o1 => o1[key].price = price
    /\ key \in DOMAIN o2 => o2[key].price = price
    /\ Left(o1, key) <= Left(o2, key)

\* Then the shares at its price grow by that much, and no others do.
LEMMA SharesGrow ==
    ASSUME NEW key \in Keys, NEW price, NEW o1, OrderMap(o1), NEW o2, OrderMap(o2), Grows(o1, o2, key, price),
           NEW ob, NEW bs, NEW p
    PROVE  Cardinality(Shares(o2, ob, bs, p)) =
               IF BookOf(key) = ob /\ SideOf(key) = bs /\ p = price
               THEN Cardinality(Shares(o1, ob, bs, p)) + (Left(o2, key) - Left(o1, key))
               ELSE Cardinality(Shares(o1, ob, bs, p))
<1> DEFINE S1 == Shares(o1, ob, bs, p)
           S2 == Shares(o2, ob, bs, p)
           n1 == Left(o1, key)
           n2 == Left(o2, key)
           D  == {key} \X (n1 + 1 .. n2)
<1>0. n1 \in Nat /\ n2 \in Nat /\ n1 <= n2
  BY FeedAssumption DEF OrderMap, Grows, Left
<1>1. DOMAIN o1 \subseteq Keys /\ DOMAIN o2 \subseteq Keys
  BY DEF OrderMap
<1>2. CASE ~(BookOf(key) = ob /\ SideOf(key) = bs /\ p = price)
  <2>1. \A x : x \in S1 <=> x \in S2
    BY <1>1, <1>2, SharesMembers DEF Grows
  <2>2. S1 = S2
    BY <2>1
  <2> QED
    BY <1>2, <2>2
<1>3. CASE BookOf(key) = ob /\ SideOf(key) = bs /\ p = price
  <2>1. \A x : x \in S2 <=> x \in S1 \cup D
    <3> SUFFICES ASSUME NEW x
                 PROVE  x \in S2 <=> x \in S1 \cup D
      OBVIOUS
    <3>1. ASSUME x \in S1 PROVE x \in S2
      <4>1. PICK k \in DOMAIN o1 : /\ BookOf(k) = ob /\ SideOf(k) = bs /\ o1[k].price = p
                                   /\ \E i \in 1 .. o1[k].left_qty : x = << k, i >>
        BY <3>1, SharesMembers
      <4>2. CASE k # key
        BY <1>1, <4>1, <4>2, SharesMembers DEF Grows
      <4>3. CASE k = key
        <5>1. PICK i \in 1 .. n1 : x = << key, i >>
          BY <4>1, <4>3 DEF Left
        <5>2. key \in DOMAIN o2
          BY <1>0, <5>1 DEF Left
        <5>3. i \in 1 .. o2[key].left_qty
          BY <1>0, <5>1, <5>2 DEF Left
        <5> QED
          BY <1>3, <5>1, <5>2, <5>3, SharesMembers DEF Grows
      <4> QED
        BY <4>2, <4>3
    <3>2. ASSUME x \in D PROVE x \in S2
      <4>1. PICK i \in n1 + 1 .. n2 : x = << key, i >>
        BY <3>2
      <4>2. key \in DOMAIN o2
        BY <1>0, <4>1 DEF Left
      <4>3. i \in 1 .. o2[key].left_qty
        BY <1>0, <4>1, <4>2 DEF Left
      <4> QED
        BY <1>3, <4>1, <4>2, <4>3, SharesMembers DEF Grows
    <3>3. ASSUME x \in S2 PROVE x \in S1 \cup D
      <4>1. PICK k \in DOMAIN o2 : /\ BookOf(k) = ob /\ SideOf(k) = bs /\ o2[k].price = p
                                   /\ \E i \in 1 .. o2[k].left_qty : x = << k, i >>
        BY <3>3, SharesMembers
      <4>2. CASE k # key
        <5>1. x \in S1
          BY <1>1, <4>1, <4>2, SharesMembers DEF Grows
        <5> QED
          BY <5>1
      <4>3. CASE k = key
        <5>1. PICK i \in 1 .. n2 : x = << key, i >>
          BY <4>1, <4>3 DEF Left
        <5>2. CASE i <= n1
          <6>1. key \in DOMAIN o1
            BY <1>0, <5>1, <5>2 DEF Left
          <6>2. i \in 1 .. o1[key].left_qty
            BY <1>0, <5>1, <5>2, <6>1 DEF Left
          <6>3. x \in S1
            BY <1>3, <5>1, <6>1, <6>2, SharesMembers DEF Grows
          <6> QED
            BY <6>3
        <5>3. CASE i > n1
          <6>1. i \in n1 + 1 .. n2
            BY <1>0, <5>1, <5>3
          <6> QED
            BY <5>1, <6>1
        <5> QED
          BY <1>0, <5>2, <5>3
      <4> QED
        BY <4>2, <4>3
    <3> QED
      BY <3>1, <3>2, <3>3
  <2>2. S2 = S1 \cup D
    BY <2>1
  <2>3. S1 \cap D = {}
    <3> SUFFICES ASSUME NEW x, x \in S1, x \in D
                 PROVE  FALSE
      OBVIOUS
    <3>1. PICK i \in n1 + 1 .. n2 : x = << key, i >>
      OBVIOUS
    <3>2. PICK k \in DOMAIN o1 : \E j \in 1 .. o1[k].left_qty : x = << k, j >>
      BY SharesMembers
    <3>3. k = key /\ i \in 1 .. o1[key].left_qty
      BY <3>1, <3>2
    <3>4. i \in 1 .. n1
      BY <3>2, <3>3 DEF Left
    <3> QED
      BY <1>0, <3>1, <3>4
  <2>4. IsFiniteSet(S1) /\ Cardinality(S1) \in Nat
    BY SharesFit
  <2>5. IsFiniteSet(D) /\ Cardinality(D) = n2 - n1
    BY <1>0, CountShares
  <2> HIDE DEF S1, S2, D, n1, n2
  <2>6. Cardinality(S1 \cup D) = Cardinality(S1) + Cardinality(D) - Cardinality(S1 \cap D)
    BY <2>4, <2>5, FS_Union
  <2>7. Cardinality(S1 \cap D) = 0
    BY <2>3, FS_EmptySet
  <2>8. Cardinality(S2) = Cardinality(S1) + (n2 - n1)
    BY <1>0, <2>2, <2>4, <2>5, <2>6, <2>7
  <2> QED
    BY <1>3, <2>8 DEF S1, S2, n1, n2
<1> QED
  BY <1>2, <1>3

----------------------------------------------------------------------------
(* The builder. *)

\* Every side is sorted and shows at every price what the open orders have left.
GoodBuilder(b) ==
    /\ b.orderbookMap \in [Books -> [BookSides -> Seq(Level(Prices))]]
    /\ b.status = "running"
    /\ OrderMap(b.orderMap)
    /\ \A ob \in Books, bs \in BookSides : GoodSide(b.orderbookMap[ob][bs], Prices, bs)
    /\ \A ob \in Books, bs \in BookSides, p \in Prices :
           QtyAt(b.orderbookMap[ob][bs], p) = Cardinality(Shares(b.orderMap, ob, bs, p))

\* c is good, and shows q in the cell of the key and the price and what b shows in
\* every other cell.
Moves(b, c, key, price, q) ==
    /\ GoodBuilder(c)
    /\ \A ob \in Books, bs \in BookSides, p \in Prices :
           QtyAt(c.orderbookMap[ob][bs], p) =
               IF ob = BookOf(key) /\ bs = SideOf(key) /\ p = price
               THEN q ELSE QtyAt(b.orderbookMap[ob][bs], p)

\* A key names a book and a side of it.
LEMMA KeyParts ==
    ASSUME NEW key \in Keys
    PROVE  BookOf(key) \in Books /\ SideOf(key) \in BookSides
BY DEF Keys, BookOf, SideOf, BookSide, BookSides

\* The orders of one key hold at most MaxQty shares, which a quantity can count.
LEMMA QtyFits ==
    ASSUME NEW key \in Keys
    PROVE  MaxQty < QtyMod /\ 1 .. MaxQty \subseteq Quantity \ {0}
<1>1. Cardinality(Keys) \in Nat /\ Cardinality(Keys) # 0
  BY QuantityFits, FS_CardinalityType, FS_EmptySet
<1>2. MaxQty <= Cardinality(Keys) * MaxQty
  <2>1. PICK n \in Nat : Cardinality(Keys) = n + 1
    <3>1. Cardinality(Keys) - 1 \in Nat /\ Cardinality(Keys) = (Cardinality(Keys) - 1) + 1
      BY <1>1
    <3> QED
      BY <3>1
  <2>2. n * MaxQty \in Nat /\ (n + 1) * MaxQty = n * MaxQty + MaxQty
    BY FeedAssumption
  <2> QED
    BY <2>1, <2>2, FeedAssumption
<1>3. Cardinality(Keys) * MaxQty \in Nat
  BY <1>1, FeedAssumption
<1>4. MaxQty < QtyMod
  BY <1>2, <1>3, QuantityFits, FeedAssumption, QtyModAssumption
<1> QED
  BY <1>4, FeedAssumption, QtyModAssumption DEF Quantity

\* A vector and the order table that change together keep the builder good.
LEMMA CellUpdate ==
    ASSUME NEW b, GoodBuilder(b), NEW key \in Keys, NEW price \in Prices, NEW levels, NEW orders,
           OrderMap(orders), NEW q,
           Updates(LevelsOf(b, key), levels, Prices, SideOf(key), price, q),
           \A ob, bs, p : Cardinality(Shares(orders, ob, bs, p)) =
               IF BookOf(key) = ob /\ SideOf(key) = bs /\ p = price THEN q
               ELSE Cardinality(Shares(b.orderMap, ob, bs, p))
    PROVE  Moves(b, [orderbookMap |-> SetLevels(b, key, levels), orderMap |-> orders, status |-> b.status],
                 key, price, q)
<1> DEFINE c == [orderbookMap |-> SetLevels(b, key, levels), orderMap |-> orders, status |-> b.status]
<1>0. /\ c.orderbookMap = SetLevels(b, key, levels)
      /\ c.orderMap = orders
      /\ c.status = b.status
  OBVIOUS
<1>1. BookOf(key) \in Books /\ SideOf(key) \in BookSides
  BY KeyParts
<1>2. /\ GoodSide(levels, Prices, SideOf(key))
      /\ levels \in Seq(Level(Prices))
      /\ QtyAt(levels, price) = q
      /\ \A p \in Prices \ {price} : QtyAt(levels, p) = QtyAt(LevelsOf(b, key), p)
  BY DEF Updates, GoodSide
<1>3. b.orderbookMap \in [Books -> [BookSides -> Seq(Level(Prices))]]
  BY DEF GoodBuilder
<1>4. /\ c.orderbookMap \in [Books -> [BookSides -> Seq(Level(Prices))]]
      /\ \A ob \in Books, bs \in BookSides :
             c.orderbookMap[ob][bs] =
                 IF ob = BookOf(key) /\ bs = SideOf(key) THEN levels ELSE b.orderbookMap[ob][bs]
  <2> HIDE DEF c
  <2> DEFINE m == SetLevels(b, key, levels)
  <2>1. /\ m \in [Books -> [BookSides -> Seq(Level(Prices))]]
        /\ \A ob \in Books, bs \in BookSides :
               m[ob][bs] = IF ob = BookOf(key) /\ bs = SideOf(key) THEN levels ELSE b.orderbookMap[ob][bs]
    BY <1>1, <1>2, <1>3 DEF SetLevels
  <2> HIDE DEF m
  <2>2. c.orderbookMap = m
    BY <1>0 DEF m
  <2> QED
    BY <2>1, <2>2, Zenon
<1> HIDE DEF c
<1>5. \A ob \in Books, bs \in BookSides, p \in Prices :
          QtyAt(c.orderbookMap[ob][bs], p) =
              IF ob = BookOf(key) /\ bs = SideOf(key) /\ p = price
              THEN q ELSE QtyAt(b.orderbookMap[ob][bs], p)
  <2> SUFFICES ASSUME NEW ob \in Books, NEW bs \in BookSides, NEW p \in Prices
               PROVE  QtyAt(c.orderbookMap[ob][bs], p) =
                          IF ob = BookOf(key) /\ bs = SideOf(key) /\ p = price
                          THEN q ELSE QtyAt(b.orderbookMap[ob][bs], p)
    OBVIOUS
  <2>1. CASE ob = BookOf(key) /\ bs = SideOf(key)
    <3>1. c.orderbookMap[ob][bs] = levels /\ b.orderbookMap[ob][bs] = LevelsOf(b, key)
      BY <1>4, <2>1 DEF LevelsOf
    <3> QED
      BY <1>2, <2>1, <3>1
  <2>2. CASE ~(ob = BookOf(key) /\ bs = SideOf(key))
    BY <1>4, <2>2
  <2> QED
    BY <2>1, <2>2
<1>6. \A ob \in Books, bs \in BookSides : GoodSide(c.orderbookMap[ob][bs], Prices, bs)
  BY <1>2, <1>4 DEF GoodBuilder
<1>7. \A ob \in Books, bs \in BookSides, p \in Prices :
          QtyAt(c.orderbookMap[ob][bs], p) = Cardinality(Shares(c.orderMap, ob, bs, p))
  <2> SUFFICES ASSUME NEW ob \in Books, NEW bs \in BookSides, NEW p \in Prices
               PROVE  QtyAt(c.orderbookMap[ob][bs], p) = Cardinality(Shares(orders, ob, bs, p))
    BY <1>0, Zenon
  <2>1. QtyAt(b.orderbookMap[ob][bs], p) = Cardinality(Shares(b.orderMap, ob, bs, p))
    BY DEF GoodBuilder
  <2> QED
    BY <1>5, <2>1
<1>8. GoodBuilder(c)
  BY <1>0, <1>4, <1>6, <1>7 DEF GoodBuilder
<1>9. Moves(b, c, key, price, q)
  BY <1>5, <1>8 DEF Moves
<1> QED
  BY <1>9 DEF c

\* What the side of an open order shows covers it.
LEMMA OpenOrderShown ==
    ASSUME NEW b, GoodBuilder(b), NEW key \in DOMAIN b.orderMap
    PROVE  /\ key \in Keys
           /\ b.orderMap[key].price \in Prices
           /\ b.orderMap[key].left_qty \in 1 .. MaxQty
           /\ b.orderMap[key].left_qty <= QtyAt(LevelsOf(b, key), b.orderMap[key].price)
           /\ QtyAt(LevelsOf(b, key), b.orderMap[key].price) \in Nat
<1> DEFINE o  == b.orderMap[key]
           o1 == Erase(b.orderMap, key)
<1>1. key \in Keys /\ o.price \in Prices /\ o.left_qty \in 1 .. MaxQty
  BY DEF GoodBuilder, OrderMap
<1>2. OrderMap(b.orderMap) /\ OrderMap(o1)
  BY DEF GoodBuilder, OrderMap, Erase
<1>3. Left(o1, key) = 0 /\ Left(b.orderMap, key) = o.left_qty
  BY DEF Left, Erase
<1>4. Grows(o1, b.orderMap, key, o.price)
  BY <1>1, <1>3, FeedAssumption DEF Grows, Erase
<1>5. BookOf(key) \in Books /\ SideOf(key) \in BookSides
  BY <1>1, KeyParts
<1>6. QtyAt(LevelsOf(b, key), o.price) = Cardinality(Shares(b.orderMap, BookOf(key), SideOf(key), o.price))
  BY <1>1, <1>5 DEF GoodBuilder, LevelsOf
<1> HIDE DEF o, o1
<1>7. Cardinality(Shares(b.orderMap, BookOf(key), SideOf(key), o.price)) =
          Cardinality(Shares(o1, BookOf(key), SideOf(key), o.price)) + (Left(b.orderMap, key) - Left(o1, key))
  BY <1>1, <1>2, <1>4, SharesGrow
<1>8. Cardinality(Shares(o1, BookOf(key), SideOf(key), o.price)) \in Nat
  BY <1>2, SharesFit
<1>9. o.left_qty <= QtyAt(LevelsOf(b, key), o.price) /\ QtyAt(LevelsOf(b, key), o.price) \in Nat
  BY <1>1, <1>3, <1>6, <1>7, <1>8, FeedAssumption
<1> QED
  BY <1>1, <1>9 DEF o

\* addOrder under a key that is not in use keeps the two maps in agreement.
THEOREM AddKeepsTotals ==
    ASSUME NEW b, GoodBuilder(b), NEW m, NEW key \in Keys \ DOMAIN b.orderMap, m.key = key,
           NEW price \in Prices, m.price = price, NEW qty \in 1 .. MaxQty, m.qty = qty
    PROVE  Moves(b, addOrder(b, m), key, price, QtyAt(LevelsOf(b, key), price) + qty)
<1> DEFINE o2     == Put(b.orderMap, key, [price |-> price, left_qty |-> qty])
           levels == LevelsOf(b, key)
           n      == QtyAt(levels, price)
<1>1. BookOf(key) \in Books /\ SideOf(key) \in BookSides
  BY KeyParts
<1>2. OrderMap(b.orderMap) /\ OrderMap(o2)
  BY DEF GoodBuilder, OrderMap, Put
<1>3. Left(b.orderMap, key) = 0 /\ Left(o2, key) = qty
  BY DEF Left, Put
<1>4. Grows(b.orderMap, o2, key, price)
  BY <1>3, FeedAssumption DEF Grows, Put
<1>5. n = Cardinality(Shares(b.orderMap, BookOf(key), SideOf(key), price))
  BY <1>1 DEF GoodBuilder, LevelsOf
<1>6. GoodSide(levels, Prices, SideOf(key))
  BY <1>1 DEF GoodBuilder, LevelsOf
<1>6a. addOrder(b, m) = [orderbookMap |-> SetLevels(b, key, AddOrder(levels, price, qty, SideOf(key))),
                         orderMap     |-> o2,
                         status       |-> b.status]
  BY DEF addOrder
<1> HIDE DEF o2, levels, n
<1>7. \A ob, bs, p : Cardinality(Shares(o2, ob, bs, p)) =
          IF BookOf(key) = ob /\ SideOf(key) = bs /\ p = price THEN n + qty
          ELSE Cardinality(Shares(b.orderMap, ob, bs, p))
  <2> SUFFICES ASSUME NEW ob, NEW bs, NEW p
               PROVE  Cardinality(Shares(o2, ob, bs, p)) =
                          IF BookOf(key) = ob /\ SideOf(key) = bs /\ p = price THEN n + qty
                          ELSE Cardinality(Shares(b.orderMap, ob, bs, p))
    OBVIOUS
  <2>1. Cardinality(Shares(o2, ob, bs, p)) =
            IF BookOf(key) = ob /\ SideOf(key) = bs /\ p = price
            THEN Cardinality(Shares(b.orderMap, ob, bs, p)) + (Left(o2, key) - Left(b.orderMap, key))
            ELSE Cardinality(Shares(b.orderMap, ob, bs, p))
    BY <1>2, <1>4, SharesGrow
  <2> QED
    BY <1>3, <1>5, <2>1
<1>8. n \in Nat /\ n + qty < QtyMod
  <2>1. Cardinality(Shares(o2, BookOf(key), SideOf(key), price)) < QtyMod
    BY <1>2, SharesFit
  <2>2. n \in Nat
    BY <1>2, <1>5, SharesFit
  <2> QED
    BY <1>7, <2>1, <2>2
<1>9. Updates(levels, AddOrder(levels, price, qty, SideOf(key)), Prices, SideOf(key), price, n + qty)
  BY <1>1, <1>6, <1>8, QtyFits, AddOrderCorrect, FeedAssumption DEF n
<1>10. Moves(b, addOrder(b, m), key, price, n + qty)
  BY <1>2, <1>6a, <1>7, <1>9, CellUpdate, Zenon DEF levels
<1> QED
  BY <1>10 DEF n, levels

\* What is left of the order table when some of an open order leaves the book.
Remaining(orders, key, qty) ==
    IF qty = orders[key].left_qty THEN Erase(orders, key)
    ELSE Put(orders, key, [price |-> orders[key].price, left_qty |-> orders[key].left_qty - qty])

\* Taking quantity of an open order out of its level and out of the order table
\* keeps the two in agreement.
LEMMA RemoveKeepsTotals ==
    ASSUME NEW b, GoodBuilder(b), NEW key \in DOMAIN b.orderMap,
           NEW price \in Prices, price = b.orderMap[key].price,
           NEW qty \in 1 .. MaxQty, qty <= b.orderMap[key].left_qty,
           NEW levels, Updates(LevelsOf(b, key), levels, Prices, SideOf(key), price,
                               QtyAt(LevelsOf(b, key), price) - qty)
    PROVE  Moves(b, [orderbookMap |-> SetLevels(b, key, levels),
                     orderMap     |-> Remaining(b.orderMap, key, qty),
                     status       |-> b.status],
                 key, price, QtyAt(LevelsOf(b, key), price) - qty)
<1> DEFINE o1   == Remaining(b.orderMap, key, qty)
           o2   == b.orderMap
           left == b.orderMap[key].left_qty
           n    == QtyAt(LevelsOf(b, key), price)
<1>1. key \in Keys /\ left \in 1 .. MaxQty /\ n \in Nat /\ left <= n
  BY OpenOrderShown
<1>2. BookOf(key) \in Books /\ SideOf(key) \in BookSides
  BY <1>1, KeyParts
<1>3. OrderMap(o1) /\ Left(o1, key) = left - qty
  <2>0. OrderMap(o2)
    BY DEF GoodBuilder
  <2>1. CASE qty = left
    BY <1>1, <2>0, <2>1, FeedAssumption DEF OrderMap, Remaining, Erase, Left
  <2>2. CASE qty # left
    <3>1. left - qty \in 1 .. MaxQty
      BY <1>1, <2>2, FeedAssumption
    <3> QED
      BY <1>1, <2>0, <2>2, <3>1 DEF OrderMap, Remaining, Put, Left
  <2> QED
    BY <2>1, <2>2
<1>4. OrderMap(o2) /\ Left(o2, key) = left
  BY DEF GoodBuilder, Left
<1>5. Grows(o1, o2, key, price)
  BY <1>1, <1>3, <1>4, FeedAssumption DEF Grows, Remaining, Put, Erase
<1>6. n = Cardinality(Shares(o2, BookOf(key), SideOf(key), price))
  BY <1>2 DEF GoodBuilder, LevelsOf
<1> HIDE DEF o1, o2, left, n
<1>7. \A ob, bs, p : Cardinality(Shares(o1, ob, bs, p)) =
          IF BookOf(key) = ob /\ SideOf(key) = bs /\ p = price THEN n - qty
          ELSE Cardinality(Shares(o2, ob, bs, p))
  <2> SUFFICES ASSUME NEW ob, NEW bs, NEW p
               PROVE  Cardinality(Shares(o1, ob, bs, p)) =
                          IF BookOf(key) = ob /\ SideOf(key) = bs /\ p = price THEN n - qty
                          ELSE Cardinality(Shares(o2, ob, bs, p))
    OBVIOUS
  <2>1. Cardinality(Shares(o2, ob, bs, p)) =
            IF BookOf(key) = ob /\ SideOf(key) = bs /\ p = price
            THEN Cardinality(Shares(o1, ob, bs, p)) + (Left(o2, key) - Left(o1, key))
            ELSE Cardinality(Shares(o1, ob, bs, p))
    BY <1>1, <1>3, <1>4, <1>5, SharesGrow
  <2>2. Cardinality(Shares(o1, ob, bs, p)) \in Nat
    BY <1>3, SharesFit
  <2> QED
    BY <1>1, <1>3, <1>4, <1>6, <2>1, <2>2, FeedAssumption
<1>8. Updates(LevelsOf(b, key), levels, Prices, SideOf(key), price, n - qty)
  BY DEF n
<1>9. Moves(b, [orderbookMap |-> SetLevels(b, key, levels), orderMap |-> o1, status |-> b.status],
            key, price, n - qty)
  BY <1>1, <1>3, <1>7, <1>8, CellUpdate, Zenon DEF o2
<1> QED
  BY <1>9 DEF n, o1

\* executeOrder of at most what is left of an open order keeps them in agreement and
\* finds the level it needs.
THEOREM ExecuteKeepsTotals ==
    ASSUME NEW b, GoodBuilder(b), NEW m, NEW key \in DOMAIN b.orderMap, m.key = key,
           NEW qty \in 1 .. MaxQty, m.qty = qty, qty <= b.orderMap[key].left_qty
    PROVE  /\ executeOrder(b, m).orderMap = Remaining(b.orderMap, key, qty)
           /\ Moves(b, executeOrder(b, m), key, b.orderMap[key].price,
                    QtyAt(LevelsOf(b, key), b.orderMap[key].price) - qty)
<1> DEFINE price == b.orderMap[key].price
           left  == b.orderMap[key].left_qty
           L     == LevelsOf(b, key)
<1>1. key \in Keys /\ price \in Prices /\ left \in 1 .. MaxQty /\ left <= QtyAt(L, price) /\ QtyAt(L, price) \in Nat
  BY OpenOrderShown
<1>2. BookOf(key) \in Books /\ SideOf(key) \in BookSides
  BY <1>1, KeyParts
<1>3. GoodSide(L, Prices, SideOf(key))
  BY <1>2 DEF GoodBuilder, LevelsOf
<1>4. qty \in Quantity \ {0} /\ qty <= QtyAt(L, price)
  BY <1>1, QtyFits, FeedAssumption
<1>5. /\ HasLevel(L, price)
      /\ Updates(L, ExecuteOrder(L, price, qty), Prices, SideOf(key), price, QtyAt(L, price) - qty)
  BY <1>1, <1>2, <1>3, <1>4, ExecuteOrderCorrect, FeedAssumption
<1>6. Minus(left, qty) = left - qty /\ (left - qty = 0 <=> qty = left)
  BY <1>1, FeedAssumption DEF Minus
<1>7. executeOrder(b, m) = [orderbookMap |-> SetLevels(b, key, ExecuteOrder(L, price, qty)),
                            orderMap     |-> Remaining(b.orderMap, key, qty),
                            status       |-> b.status]
  BY <1>5, <1>6 DEF executeOrder, Remaining
<1>8. executeOrder(b, m).orderMap = Remaining(b.orderMap, key, qty)
  BY <1>7
<1>9. Moves(b, executeOrder(b, m), key, price, QtyAt(L, price) - qty)
  BY <1>1, <1>5, <1>7, RemoveKeepsTotals
<1> QED
  BY <1>8, <1>9

\* deleteOrder of an open order keeps them in agreement and never calls std::exit.
THEOREM DeleteKeepsTotals ==
    ASSUME NEW b, GoodBuilder(b), NEW m, NEW key \in DOMAIN b.orderMap, m.key = key
    PROVE  /\ deleteOrder(b, m).orderMap = Erase(b.orderMap, key)
           /\ Moves(b, deleteOrder(b, m), key, b.orderMap[key].price,
                    QtyAt(LevelsOf(b, key), b.orderMap[key].price) - b.orderMap[key].left_qty)
<1> DEFINE price == b.orderMap[key].price
           left  == b.orderMap[key].left_qty
           L     == LevelsOf(b, key)
<1>1. key \in Keys /\ price \in Prices /\ left \in 1 .. MaxQty /\ left <= QtyAt(L, price) /\ QtyAt(L, price) \in Nat
  BY OpenOrderShown
<1>2. BookOf(key) \in Books /\ SideOf(key) \in BookSides
  BY <1>1, KeyParts
<1>3. GoodSide(L, Prices, SideOf(key))
  BY <1>2 DEF GoodBuilder, LevelsOf
<1>4. left \in Quantity \ {0}
  BY <1>1, QtyFits
<1>5. /\ HasLevel(L, price)
      /\ Updates(L, DeleteOrder(L, price, left), Prices, SideOf(key), price, QtyAt(L, price) - left)
  BY <1>1, <1>2, <1>3, <1>4, DeleteOrderCorrect, FeedAssumption
<1>6. Remaining(b.orderMap, key, left) = Erase(b.orderMap, key)
  BY DEF Remaining
<1>7. deleteOrder(b, m) = [orderbookMap |-> SetLevels(b, key, DeleteOrder(L, price, left)),
                           orderMap     |-> Remaining(b.orderMap, key, left),
                           status       |-> b.status]
  BY <1>5, <1>6 DEF deleteOrder
<1>8. deleteOrder(b, m).orderMap = Erase(b.orderMap, key)
  BY <1>6, <1>7
<1>9. left <= b.orderMap[key].left_qty
  BY <1>1, FeedAssumption
<1>10. Moves(b, deleteOrder(b, m), key, price, QtyAt(L, price) - left)
  BY <1>1, <1>5, <1>7, <1>9, RemoveKeepsTotals
<1> QED
  BY <1>8, <1>10

\* The builder is good before the first message.
LEMMA EmptyIsGood == GoodBuilder(EmptyBuilder)
<1>1. DOMAIN << >> = {}
  OBVIOUS
<1>2. /\ EmptyBuilder.orderbookMap = [ob \in Books |-> EmptyBook]
      /\ EmptyBuilder.orderMap = << >>
      /\ EmptyBuilder.status = "running"
  BY DEF EmptyBuilder
<1>3. EmptyBuilder.orderbookMap \in [Books -> [BookSides -> Seq(Level(Prices))]]
  BY <1>2 DEF EmptyBook
<1>4. \A ob \in Books, bs \in BookSides : EmptyBuilder.orderbookMap[ob][bs] = << >>
  BY <1>2 DEF EmptyBook
<1>5. << >> \in Seq(Level(Prices)) /\ Len(<< >>) = 0
  OBVIOUS
<1>6. \A bs : GoodSide(<< >>, Prices, bs)
  BY <1>5 DEF GoodSide, Sorted, Positive
<1>7. \A p : QtyAt(<< >>, p) = 0
  <2> SUFFICES ASSUME NEW p PROVE QtyAt(<< >>, p) = 0
    OBVIOUS
  <2> DEFINE e == << >>
  <2>1. e \in Seq(Level(Prices)) /\ \A i \in 1 .. Len(e) : e[i].price # p
    BY <1>5
  <2> HIDE DEF e
  <2>2. QtyAt(e, p) = 0
    BY <2>1, QtyAtNoLevel
  <2> QED
    BY <2>2 DEF e
<1>8. \A ob, bs, p : Cardinality(Shares(<< >>, ob, bs, p)) = 0
  <2> SUFFICES ASSUME NEW ob, NEW bs, NEW p
               PROVE  Cardinality(Shares(<< >>, ob, bs, p)) = 0
    OBVIOUS
  <2>1. Shares(<< >>, ob, bs, p) = {}
    BY <1>1, SharesMembers
  <2> QED
    BY <2>1, FS_EmptySet
<1>9. OrderMap(<< >>)
  BY <1>1 DEF OrderMap
<1> QED
  BY <1>2, <1>3, <1>4, <1>6, <1>7, <1>8, <1>9 DEF GoodBuilder
=============================================================================
