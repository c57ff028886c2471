------------------------ MODULE OrderbookSideProofs ------------------------
(***************************************************************************)
(* A side of the book is determined by the orders in it, for every set of  *)
(* orders, prices and quantities and after every sequence of the four      *)
(* operations, ReplaceOrder included.                                      *)
(***************************************************************************)
EXTENDS OrderbookSide, L2OrderbookProofs

----------------------------------------------------------------------------
(* Counting shares. *)

\* The shares of all orders at a price, one element per share.
Held(o, price) == UNION {{id} \X (1 .. o[id].qty) : id \in {i \in DOMAIN o : o[i].price = price}}

\* One share per element.
LEMMA HeldMembers ==
    ASSUME NEW o, NEW price, NEW x
    PROVE  x \in Held(o, price) <=>
               \E id \in DOMAIN o : o[id].price = price /\ \E i \in 1 .. o[id].qty : x = << id, i >>
BY DEF Held

\* The orders a caller may have in the book.
OrderTable(o) ==
    /\ DOMAIN o \subseteq Ids
    /\ \A id \in DOMAIN o : o[id] \in [price : Prices, qty : 1 .. MaxQty]

\* They hold fewer shares than a quantity can count.
LEMMA HeldFits ==
    ASSUME NEW o, OrderTable(o), NEW price
    PROVE  /\ IsFiniteSet(Held(o, price))
           /\ Cardinality(Held(o, price)) \in Nat
           /\ Cardinality(Held(o, price)) < QtyMod
<1> USE SideAssumption
<1>1. \A x \in Held(o, price) : x \in Ids \X (1 .. MaxQty)
  <2> SUFFICES ASSUME NEW x \in Held(o, price) PROVE x \in Ids \X (1 .. MaxQty)
    OBVIOUS
  <2>1. PICK id \in DOMAIN o : \E i \in 1 .. o[id].qty : x = << id, i >>
    BY HeldMembers
  <2>2. id \in Ids /\ o[id].qty \in 1 .. MaxQty
    BY DEF OrderTable
  <2> QED
    BY <2>1, <2>2
<1>2. IsFiniteSet(1 .. MaxQty) /\ Cardinality(1 .. MaxQty) = MaxQty
  BY FS_Interval
<1>3. /\ IsFiniteSet(Ids \X (1 .. MaxQty))
      /\ Cardinality(Ids \X (1 .. MaxQty)) = Cardinality(Ids) * MaxQty
  BY <1>2, FS_Product
<1>4. /\ IsFiniteSet(Held(o, price))
      /\ Cardinality(Held(o, price)) <= Cardinality(Ids \X (1 .. MaxQty))
  BY <1>1, <1>3, FS_Subset
<1>5. Cardinality(Held(o, price)) \in Nat /\ Cardinality(Ids \X (1 .. MaxQty)) \in Nat
  BY <1>3, <1>4, FS_CardinalityType
<1> QED
  BY <1>3, <1>4, <1>5, QtyModAssumption

\* What an order holds, nothing when it is not there.
Left(o, id) == IF id \in DOMAIN o THEN o[id].qty ELSE 0

\* o2 is o1 with more left of one order.
Grows(o1, o2, id, price) ==
    /\ \A k \in Ids \ {id} : /\ k \in DOMAIN o1 <=> k \in DOMAIN o2
                             /\ k \in DOMAIN o1 => o1[k] = o2[k]
    /\ id \in DOMAIN o1 => o1[id].price = price
    /\ id \in DOMAIN o2 => o2[id].price = price
    /\ Left(o1, id) <= Left(o2, id)

\* Then the shares at its price grow by that much, and no others do.
LEMMA HeldGrows ==
    ASSUME NEW id \in Ids, NEW price, NEW o1, OrderTable(o1), NEW o2, OrderTable(o2),
           Grows(o1, o2, id, price), NEW p
    PROVE  Cardinality(Held(o2, p)) =
               IF p = price THEN Cardinality(Held(o1, p)) + (Left(o2, id) - Left(o1, id))
               ELSE Cardinality(Held(o1, p))
<1> DEFINE H1 == Held(o1, p)
           H2 == Held(o2, p)
           n1 == Left(o1, id)
           n2 == Left(o2, id)
           D  == {id} \X (n1 + 1 .. n2)
<1>1. n1 \in Nat /\ n2 \in Nat /\ n1 <= n2 /\ DOMAIN o1 \subseteq Ids /\ DOMAIN o2 \subseteq Ids
  BY SideAssumption DEF OrderTable, Grows, Left
<1>2. CASE p # price
  <2>1. \A x : x \in H1 <=> x \in H2
    BY <1>1, <1>2, HeldMembers DEF Grows
  <2>2. H1 = H2
    BY <2>1
  <2> QED
    BY <1>2, <2>2
<1>3. CASE p = price
  <2>1. ASSUME NEW x \in H1 PROVE x \in H2
    <3>1. PICK k \in DOMAIN o1 : o1[k].price = p /\ \E i \in 1 .. o1[k].qty : x = << k, i >>
      BY HeldMembers
    <3>2. CASE k # id
      BY <1>1, <3>1, <3>2, HeldMembers DEF Grows
    <3>3. CASE k = id
      <4>1. PICK i \in 1 .. n1 : x = << id, i >>
        BY <3>1, <3>3 DEF Left
      <4>2. id \in DOMAIN o2
        BY <1>1, <4>1 DEF Left
      <4>3. i \in 1 .. o2[id].qty
        BY <1>1, <4>1, <4>2 DEF Left
      <4> QED
        BY <1>3, <4>1, <4>2, <4>3, HeldMembers DEF Grows
    <3> QED
      BY <3>2, <3>3
  <2>2. ASSUME NEW x \in D PROVE x \in H2
    <3>1. PICK i \in n1 + 1 .. n2 : x = << id, i >>
      BY <2>2
    <3>2. id \in DOMAIN o2
      BY <1>1, <3>1 DEF Left
    <3>3. i \in 1 .. o2[id].qty
      BY <1>1, <3>1, <3>2 DEF Left
    <3> QED
      BY <1>3, <3>1, <3>2, <3>3, HeldMembers DEF Grows
  <2>3. ASSUME NEW x \in H2, x \notin D PROVE x \in H1
    <3>1. PICK k \in DOMAIN o2 : o2[k].price = p /\ \E i \in 1 .. o2[k].qty : x = << k, i >>
      BY HeldMembers
    <3>2. CASE k # id
      BY <1>1, <3>1, <3>2, HeldMembers DEF Grows
    <3>3. CASE k = id
      <4>1. PICK i \in 1 .. n2 : x = << id, i >>
        BY <3>1, <3>3 DEF Left
      <4>2. i <= n1
        <5> SUFFICES ASSUME i > n1 PROVE FALSE
          BY <1>1
        <5>1. i \in n1 + 1 .. n2
          BY <1>1
        <5> QED
          BY <2>3, <4>1, <5>1
      <4>3. id \in DOMAIN o1
        BY <1>1, <4>1, <4>2 DEF Left
      <4>4. i \in 1 .. o1[id].qty
        BY <1>1, <4>1, <4>2, <4>3 DEF Left
      <4> QED
        BY <1>3, <4>1, <4>3, <4>4, HeldMembers DEF Grows
    <3> QED
      BY <3>2, <3>3
  <2>4. H1 \cap D = {}
    <3> SUFFICES ASSUME NEW x, x \in H1, x \in D PROVE FALSE
      OBVIOUS
    <3>1. PICK i \in n1 + 1 .. n2 : x = << id, i >>
      OBVIOUS
    <3>2. PICK k \in DOMAIN o1 : \E j \in 1 .. o1[k].qty : x = << k, j >>
      BY HeldMembers
    <3>3. k = id /\ i \in 1 .. o1[id].qty
      BY <3>1, <3>2
    <3>4. i \in 1 .. n1
      BY <3>2, <3>3 DEF Left
    <3> QED
      BY <1>1, <3>1, <3>4
  <2>5. IsFiniteSet(H1) /\ Cardinality(H1) \in Nat
    BY HeldFits
  <2>6. IsFiniteSet(D) /\ Cardinality(D) = n2 - n1
    BY <1>1, CountShares
  <2> HIDE DEF H1, H2, D, n1, n2
  <2>7. H2 = H1 \cup D
    BY <2>1, <2>2, <2>3
  <2>8. Cardinality(H1 \cup D) = Cardinality(H1) + Cardinality(D) - Cardinality(H1 \cap D)
    BY <2>5, <2>6, FS_Union
  <2>9. Cardinality(H1 \cap D) = 0
    BY <2>4, FS_EmptySet
  <2>10. Cardinality(H2) = Cardinality(H1) + (n2 - n1)
    BY <1>1, <2>5, <2>6, <2>7, <2>8, <2>9
  <2> QED
    BY <1>3, <2>10 DEF H1, H2, n1, n2
<1> QED
  BY <1>2, <1>3

----------------------------------------------------------------------------
(* The inductive invariant. *)

\* The levels show at every price what the orders hold there.
Shows(l, o) == \A p \in Prices : QtyAt(l, p) = Cardinality(Held(o, p))

SideInv ==
    /\ side \in {"B", "S"}
    /\ OrderTable(orders)
    /\ GoodSide(levels, Prices, BookSide(side))
    /\ Shows(levels, orders)

\* One order's quantity can be counted.
LEMMA QtyFits ==
    ASSUME NEW id \in Ids
    PROVE  1 .. MaxQty \subseteq Quantity \ {0}
<1>1. Cardinality(Ids) \in Nat /\ Cardinality(Ids) # 0
  BY SideAssumption, FS_CardinalityType, FS_EmptySet
<1>2. PICK n \in Nat : Cardinality(Ids) = n + 1
  <2>1. Cardinality(Ids) - 1 \in Nat /\ Cardinality(Ids) = (Cardinality(Ids) - 1) + 1
    BY <1>1
  <2> QED
    BY <2>1
<1>3. n * MaxQty \in Nat /\ (n + 1) * MaxQty = n * MaxQty + MaxQty
  BY SideAssumption
<1>4. MaxQty < QtyMod
  BY <1>2, <1>3, SideAssumption, QtyModAssumption
<1> QED
  BY <1>4, SideAssumption, QtyModAssumption DEF Quantity

\* What the orders hold besides one of them.
LEMMA HeldErase ==
    ASSUME OrderTable(orders), NEW id \in Ids
    PROVE  /\ OrderTable(Erase(id))
           /\ \A p : Cardinality(Held(orders, p)) =
                  IF id \in DOMAIN orders /\ p = orders[id].price
                  THEN Cardinality(Held(Erase(id), p)) + orders[id].qty
                  ELSE Cardinality(Held(Erase(id), p))
           /\ \A p : Cardinality(Held(Erase(id), p)) \in Nat
<1>1. OrderTable(Erase(id)) /\ Left(Erase(id), id) = 0
  BY DEF OrderTable, Erase, Left
<1>2. ASSUME NEW p
      PROVE  Cardinality(Held(orders, p)) =
                 IF id \in DOMAIN orders /\ p = orders[id].price
                 THEN Cardinality(Held(Erase(id), p)) + orders[id].qty
                 ELSE Cardinality(Held(Erase(id), p))
  <2>1. CASE id \in DOMAIN orders
    <3>1. Left(orders, id) = orders[id].qty /\ orders[id].qty \in 1 .. MaxQty
      BY <2>1 DEF Left, OrderTable
    <3>2. Grows(Erase(id), orders, id, orders[id].price)
      BY <1>1, <3>1, SideAssumption DEF Grows, Erase
    <3>3. Cardinality(Held(Erase(id), p)) \in Nat
      BY <1>1, HeldFits
    <3>4. Cardinality(Held(orders, p)) =
              IF p = orders[id].price
              THEN Cardinality(Held(Erase(id), p)) + (Left(orders, id) - Left(Erase(id), id))
              ELSE Cardinality(Held(Erase(id), p))
      BY <1>1, <3>2, HeldGrows
    <3> QED
      BY <1>1, <2>1, <3>1, <3>3, <3>4, SideAssumption
  <2>2. CASE id \notin DOMAIN orders
    <3>1. \A x : x \in Held(orders, p) <=> x \in Held(Erase(id), p)
      BY <2>2, HeldMembers DEF Erase
    <3>2. Held(orders, p) = Held(Erase(id), p)
      BY <3>1
    <3> QED
      BY <2>2, <3>2
  <2> QED
    BY <2>1, <2>2
<1>3. \A p : Cardinality(Held(Erase(id), p)) \in Nat
  BY <1>1, HeldFits
<1> QED
  BY <1>1, <1>2, <1>3

\* What they hold when that one is entered or changed.
LEMMA HeldPut ==
    ASSUME OrderTable(orders), NEW id \in Ids, NEW price \in Prices, NEW qty \in 1 .. MaxQty
    PROVE  /\ OrderTable(Put(id, price, qty))
           /\ \A p : Cardinality(Held(Put(id, price, qty), p)) =
                  IF p = price THEN Cardinality(Held(Erase(id), p)) + qty
                  ELSE Cardinality(Held(Erase(id), p))
           /\ \A p : Cardinality(Held(Put(id, price, qty), p)) < QtyMod
<1> DEFINE new == Put(id, price, qty)
<1>1. OrderTable(Erase(id)) /\ Left(Erase(id), id) = 0
  BY DEF OrderTable, Erase, Left
<1>2. OrderTable(new) /\ Left(new, id) = qty
  BY DEF OrderTable, Put, Left
<1>3. Grows(Erase(id), new, id, price)
  BY <1>1, <1>2, SideAssumption DEF Grows, Erase, Put
<1> HIDE DEF new
<1>4. ASSUME NEW p
      PROVE  Cardinality(Held(new, p)) =
                 IF p = price THEN Cardinality(Held(Erase(id), p)) + qty
                 ELSE Cardinality(Held(Erase(id), p))
  <2>1. Cardinality(Held(Erase(id), p)) \in Nat
    BY <1>1, HeldFits
  <2>2. Cardinality(Held(new, p)) =
            IF p = price THEN Cardinality(Held(Erase(id), p)) + (Left(new, id) - Left(Erase(id), id))
            ELSE Cardinality(Held(Erase(id), p))
    BY <1>1, <1>2, <1>3, HeldGrows
  <2> QED
    BY <1>1, <1>2, <2>1, <2>2
<1>5. \A p : Cardinality(Held(new, p)) < QtyMod
  BY <1>2, HeldFits
<1> QED
  BY <1>2, <1>4, <1>5 DEF new

\* The side of an order covers it.
LEMMA OrderShown ==
    ASSUME SideInv, NEW id \in DOMAIN orders
    PROVE  /\ id \in Ids /\ orders[id].price \in Prices /\ orders[id].qty \in 1 .. MaxQty
           /\ orders[id].qty \in Quantity \ {0}
           /\ QtyAt(levels, orders[id].price) =
                  Cardinality(Held(Erase(id), orders[id].price)) + orders[id].qty
           /\ orders[id].qty <= QtyAt(levels, orders[id].price)
<1>1. id \in Ids /\ orders[id].price \in Prices /\ orders[id].qty \in 1 .. MaxQty
  BY DEF SideInv, OrderTable
<1>2. QtyAt(levels, orders[id].price) = Cardinality(Held(orders, orders[id].price))
  BY <1>1 DEF SideInv, Shows
<1>3. Cardinality(Held(orders, orders[id].price)) = Cardinality(Held(Erase(id), orders[id].price)) + orders[id].qty
  BY <1>1, HeldErase DEF SideInv
<1>4. Cardinality(Held(Erase(id), orders[id].price)) \in Nat
  BY <1>1, HeldErase DEF SideInv
<1> QED
  BY <1>1, <1>2, <1>3, <1>4, QtyFits, SideAssumption

----------------------------------------------------------------------------
(* Each operation preserves the invariant. *)

\* Before the first order.
LEMMA InitInv == Init => SideInv
<1> SUFFICES ASSUME Init PROVE SideInv
  OBVIOUS
<1>1. side \in {"B", "S"} /\ levels = << >> /\ orders = << >>
  BY DEF Init
<1>2. DOMAIN orders = {} /\ OrderTable(orders)
  BY <1>1 DEF OrderTable
<1>3. levels \in Seq(Level(Prices)) /\ Len(levels) = 0
  BY <1>1
<1>4. GoodSide(levels, Prices, BookSide(side))
  BY <1>3 DEF GoodSide, Sorted, Positive
<1>5. \A p : QtyAt(levels, p) = 0
  <2>1. \A p : \A i \in 1 .. Len(levels) : levels[i].price # p
    BY <1>3
  <2> QED
    BY <1>3, <2>1, QtyAtNoLevel
<1>6. \A p : Cardinality(Held(orders, p)) = 0
  <2> SUFFICES ASSUME NEW p PROVE Cardinality(Held(orders, p)) = 0
    OBVIOUS
  <2>1. Held(orders, p) = {}
    BY <1>2, HeldMembers
  <2> QED
    BY <2>1, FS_EmptySet
<1> QED
  BY <1>1, <1>2, <1>4, <1>5, <1>6 DEF SideInv, Shows

\* An update of one price of the levels and of the orders.
LEMMA SideStep ==
    ASSUME SideInv, side' = side, OrderTable(orders'), NEW price \in Prices, NEW q,
           Updates(levels, levels', Prices, BookSide(side), price, q),
           Cardinality(Held(orders', price)) = q,
           \A p \in Prices \ {price} : Cardinality(Held(orders', p)) = Cardinality(Held(orders, p))
    PROVE  SideInv'
<1>1. GoodSide(levels', Prices, BookSide(side)) /\ QtyAt(levels', price) = q
  BY DEF Updates
<1>2. \A p \in Prices \ {price} : QtyAt(levels', p) = QtyAt(levels, p)
  BY DEF Updates
<1>3. \A p \in Prices : QtyAt(levels, p) = Cardinality(Held(orders, p))
  BY DEF SideInv, Shows
<1>4. Shows(levels', orders')
  BY <1>1, <1>2, <1>3 DEF Shows
<1> QED
  BY <1>1, <1>4 DEF SideInv

\* An order is added.
LEMMA AddStep ==
    ASSUME SideInv, NEW id \in Ids, NEW price \in Prices, NEW qty \in 1 .. MaxQty,
           Add(id, price, qty), side' = side
    PROVE  SideInv'
<1> DEFINE n == QtyAt(levels, price)
<1>1. BookSide(side) \in BookSides /\ GoodSide(levels, Prices, BookSide(side)) /\ OrderTable(orders)
  BY DEF SideInv, BookSide, BookSides
<1>2. id \notin DOMAIN orders /\ orders' = Put(id, price, qty)
      /\ levels' = AddOrder(levels, price, qty, BookSide(side))
  BY DEF Add
<1>3. \A p : Cardinality(Held(orders, p)) = Cardinality(Held(Erase(id), p)) /\ Cardinality(Held(orders, p)) \in Nat
  BY <1>1, <1>2, HeldErase
<1>4. /\ OrderTable(orders')
      /\ \A p : Cardinality(Held(orders', p)) =
             IF p = price THEN Cardinality(Held(orders, p)) + qty ELSE Cardinality(Held(orders, p))
      /\ \A p : Cardinality(Held(orders', p)) < QtyMod
  BY <1>1, <1>2, <1>3, HeldPut
<1>5. n = Cardinality(Held(orders, price)) /\ n + qty < QtyMod
  BY <1>4 DEF SideInv, Shows
<1>6. qty \in Quantity \ {0}
  BY QtyFits
<1>7. Updates(levels, levels', Prices, BookSide(side), price, n + qty)
  BY <1>1, <1>2, <1>5, <1>6, AddOrderCorrect, SideAssumption
<1> HIDE DEF n
<1> QED
  BY <1>4, <1>5, <1>7, SideStep

\* An order is executed, wholly or in part.
LEMMA ExecuteStep ==
    ASSUME SideInv, NEW id \in DOMAIN orders, NEW qty \in 1 .. MaxQty, Execute(id, qty), side' = side
    PROVE  SideInv'
<1> DEFINE price == orders[id].price
           left  == orders[id].qty
           n     == QtyAt(levels, price)
           rest  == Cardinality(Held(Erase(id), price))
<1>1. BookSide(side) \in BookSides /\ GoodSide(levels, Prices, BookSide(side)) /\ OrderTable(orders)
  BY DEF SideInv, BookSide, BookSides
<1>2. /\ qty <= left /\ levels' = ExecuteOrder(levels, price, qty)
      /\ orders' = IF qty = left THEN Erase(id) ELSE Put(id, price, left - qty)
  BY DEF Execute
<1>3. /\ id \in Ids /\ price \in Prices /\ left \in 1 .. MaxQty
      /\ n = rest + left /\ left <= n
  BY OrderShown
<1>4. /\ OrderTable(Erase(id)) /\ rest \in Nat
      /\ \A p : p # price => Cardinality(Held(orders, p)) = Cardinality(Held(Erase(id), p))
  BY <1>1, <1>3, HeldErase
<1>5. /\ OrderTable(orders') /\ Cardinality(Held(orders', price)) = n - qty
      /\ \A p \in Prices \ {price} : Cardinality(Held(orders', p)) = Cardinality(Held(orders, p))
  <2>1. CASE qty = left
    BY <1>2, <1>3, <1>4, <2>1, SideAssumption
  <2>2. CASE qty # left
    <3>1. left - qty \in 1 .. MaxQty
      BY <1>2, <1>3, <2>2, SideAssumption
    <3> HIDE DEF price, left, n, rest
    <3>2. /\ OrderTable(Put(id, price, left - qty))
          /\ Cardinality(Held(Put(id, price, left - qty), price)) = Cardinality(Held(Erase(id), price)) + (left - qty)
          /\ \A p : p # price => Cardinality(Held(Put(id, price, left - qty), p)) = Cardinality(Held(Erase(id), p))
      BY <1>1, <1>3, <3>1, HeldPut
    <3>3. rest + (left - qty) = n - qty
      BY <1>3, <1>4, SideAssumption
    <3>4. orders' = Put(id, price, left - qty) /\ rest = Cardinality(Held(Erase(id), price))
      BY <1>2, <2>2 DEF rest
    <3> QED
      BY <1>4, <3>2, <3>3, <3>4
  <2> QED
    BY <2>1, <2>2
<1>6. qty \in Quantity \ {0} /\ qty <= n
  BY <1>2, <1>3, <1>4, QtyFits, SideAssumption
<1>7. Updates(levels, levels', Prices, BookSide(side), price, n - qty)
  BY <1>1, <1>2, <1>3, <1>6, ExecuteOrderCorrect, SideAssumption
<1> HIDE DEF price, n
<1> QED
  BY <1>3, <1>5, <1>7, SideStep

\* An order is deleted.
LEMMA DeleteStep ==
    ASSUME SideInv, NEW id \in DOMAIN orders, Delete(id), side' = side
    PROVE  SideInv'
<1> DEFINE price == orders[id].price
           left  == orders[id].qty
           n     == QtyAt(levels, price)
<1>1. BookSide(side) \in BookSides /\ GoodSide(levels, Prices, BookSide(side)) /\ OrderTable(orders)
  BY DEF SideInv, BookSide, BookSides
<1>2. levels' = DeleteOrder(levels, price, left) /\ orders' = Erase(id)
  BY DEF Delete
<1>3. /\ id \in Ids /\ price \in Prices /\ left \in 1 .. MaxQty /\ left \in Quantity \ {0}
      /\ n = Cardinality(Held(Erase(id), price)) + left /\ left <= n
  BY OrderShown
<1>4. /\ OrderTable(Erase(id)) /\ Cardinality(Held(Erase(id), price)) \in Nat
      /\ \A p : p # price => Cardinality(Held(orders, p)) = Cardinality(Held(Erase(id), p))
  BY <1>1, <1>3, HeldErase
<1>5. Updates(levels, levels', Prices, BookSide(side), price, n - left)
  BY <1>1, <1>2, <1>3, DeleteOrderCorrect, SideAssumption
<1>6. Cardinality(Held(orders', price)) = n - left
  BY <1>2, <1>3, <1>4, SideAssumption
<1> HIDE DEF price, left, n
<1> QED
  BY <1>2, <1>3, <1>4, <1>5, <1>6, SideStep

\* An order is replaced, at its price or at another.
LEMMA ReplaceStep ==
    ASSUME SideInv, NEW id \in DOMAIN orders, NEW price \in Prices, NEW qty \in 1 .. MaxQty,
           Replace(id, price, qty), side' = side
    PROVE  SideInv'
<1> DEFINE old  == orders[id].price
           left == orders[id].qty
           n(p) == QtyAt(levels, p)
           rest(p) == Cardinality(Held(Erase(id), p))
<1>1. BookSide(side) \in BookSides /\ GoodSide(levels, Prices, BookSide(side)) /\ OrderTable(orders)
  BY DEF SideInv, BookSide, BookSides
<1>2. levels' = ReplaceOrder(levels, old, left, price, qty, BookSide(side)) /\ orders' = Put(id, price, qty)
  BY DEF Replace
<1>3. /\ id \in Ids /\ old \in Prices /\ left \in 1 .. MaxQty /\ left \in Quantity \ {0}
      /\ n(old) = rest(old) + left /\ left <= n(old)
  BY OrderShown
<1>4. /\ \A p : rest(p) \in Nat
      /\ \A p : p # old => Cardinality(Held(orders, p)) = rest(p)
  BY <1>1, <1>3, HeldErase
<1>5. \A p \in Prices : n(p) = Cardinality(Held(orders, p))
  BY DEF SideInv, Shows
<1>6. /\ OrderTable(orders')
      /\ \A p : Cardinality(Held(orders', p)) = IF p = price THEN rest(p) + qty ELSE rest(p)
      /\ \A p : Cardinality(Held(orders', p)) < QtyMod
  BY <1>1, <1>2, <1>3, HeldPut
<1>7. (IF price = old THEN n(old) - left ELSE n(price)) = rest(price)
  <2>1. CASE price = old
    BY <1>3, <1>4, <2>1, SideAssumption
  <2>2. CASE price # old
    BY <1>4, <1>5, <2>2
  <2> QED
    BY <2>1, <2>2
<1>8. qty \in Quantity \ {0}
  BY <1>3, QtyFits
<1>9. rest(price) + qty < QtyMod
  BY <1>6
<1>10. /\ GoodSide(levels', Prices, BookSide(side))
       /\ QtyAt(levels', price) = rest(price) + qty
       /\ old # price => QtyAt(levels', old) = n(old) - left
       /\ \A p \in Prices \ {old, price} : QtyAt(levels', p) = n(p)
  <2> DEFINE base == IF price = old THEN n(old) - left ELSE n(price)
  <2>1. base = rest(price) /\ base + qty < QtyMod
    BY <1>7, <1>9
  <2>0. Prices \in SUBSET Int /\ (IF price = old THEN QtyAt(levels, old) - left ELSE QtyAt(levels, price)) + qty < QtyMod
    BY <2>1, SideAssumption
  <2> DEFINE bs == BookSide(side)
  <2> HIDE DEF old, left, bs
  <2>3. /\ bs \in BookSides /\ GoodSide(levels, Prices, bs) /\ left <= QtyAt(levels, old)
        /\ old \in Prices /\ left \in Quantity \ {0}
        /\ levels' = ReplaceOrder(levels, old, left, price, qty, bs)
    BY <1>1, <1>2, <1>3 DEF bs
  <2>4. /\ GoodSide(levels', Prices, bs)
        /\ QtyAt(levels', price) =
               (IF price = old THEN QtyAt(levels, old) - left ELSE QtyAt(levels, price)) + qty
        /\ old # price => QtyAt(levels', old) = QtyAt(levels, old) - left
        /\ \A p \in Prices \ {old, price} : QtyAt(levels', p) = QtyAt(levels, p)
    BY <1>8, <2>0, <2>3, ReplaceOrderCorrect
  <2>2. /\ GoodSide(levels', Prices, BookSide(side))
        /\ QtyAt(levels', price) = base + qty
        /\ old # price => QtyAt(levels', old) = n(old) - left
        /\ \A p \in Prices \ {old, price} : QtyAt(levels', p) = n(p)
    BY <2>4 DEF bs
  <2> HIDE DEF base
  <2> QED
    BY <2>1, <2>2
<1>11. Shows(levels', orders')
  <2> SUFFICES ASSUME NEW p \in Prices PROVE QtyAt(levels', p) = Cardinality(Held(orders', p))
    BY DEF Shows
  <2>1. CASE p = price
    BY <1>6, <1>10, <2>1
  <2>2. CASE p # price /\ p = old
    <3>1. QtyAt(levels', p) = n(old) - left /\ Cardinality(Held(orders', p)) = rest(old)
      BY <1>6, <1>10, <2>2
    <3> QED
      BY <1>3, <1>4, <3>1, SideAssumption
  <2>3. CASE p # price /\ p # old
    <3>1. QtyAt(levels', p) = n(p) /\ Cardinality(Held(orders', p)) = rest(p)
      BY <1>6, <1>10, <2>3
    <3> QED
      BY <1>4, <1>5, <2>3, <3>1
  <2> QED
    BY <2>1, <2>2, <2>3
<1> QED
  BY <1>6, <1>10, <1>11 DEF SideInv

\* Every operation.
LEMMA NextStep == SideInv /\ [Next]_vars => SideInv'
<1> SUFFICES ASSUME SideInv, [Next]_vars PROVE SideInv'
  OBVIOUS
<1>1. CASE UNCHANGED vars
  BY <1>1 DEF vars, SideInv, OrderTable, Shows
<1>2. CASE Next
  BY <1>2, AddStep, ExecuteStep, DeleteStep, ReplaceStep DEF Next
<1> QED
  BY <1>1, <1>2

----------------------------------------------------------------------------
(* The theorems. *)

\* The orders at a price of the current table.
LEMMA HeldNow ==
    ASSUME NEW price
    PROVE  UNION {{id} \X (1 .. orders[id].qty) : id \in At(price)} = Held(orders, price)
BY DEF At, Held

\* An order has a level of its price.
LEMMA OrderHasLevel ==
    ASSUME SideInv, NEW id \in DOMAIN orders
    PROVE  \E i \in 1 .. Len(levels) : levels[i].price = orders[id].price
<1>1. BookSide(side) \in BookSides /\ GoodSide(levels, Prices, BookSide(side))
  BY DEF SideInv, BookSide, BookSides
<1>2. /\ orders[id].price \in Prices /\ orders[id].qty \in Quantity \ {0}
      /\ orders[id].qty <= QtyAt(levels, orders[id].price)
  BY OrderShown
<1>3. HasLevel(levels, orders[id].price)
  BY <1>1, <1>2, ExecuteOrderCorrect, SideAssumption
<1>4. /\ GetLevel(levels, orders[id].price) \in 1 .. Len(levels)
      /\ levels[GetLevel(levels, orders[id].price)].price = orders[id].price
  BY <1>1, <1>3, GetLevelFinds DEF GoodSide, HasLevel
<1> QED
  BY <1>4, Zenon

\* The invariant implies the two properties.
LEMMA InvImplies == SideInv => LevelsAreTheSums /\ BestPriceIsBest
<1> SUFFICES ASSUME SideInv PROVE LevelsAreTheSums /\ BestPriceIsBest
  OBVIOUS
<1>1. /\ BookSide(side) \in BookSides /\ GoodSide(levels, Prices, BookSide(side))
      /\ OrderTable(orders) /\ Shows(levels, orders)
  BY DEF SideInv, BookSide, BookSides
<1>2. /\ Sorted(levels, BookSide(side)) /\ Positive(levels) /\ levels \in Seq(Level(Prices))
      /\ DOMAIN levels = 1 .. Len(levels) /\ Len(levels) \in Nat
  BY <1>1 DEF GoodSide
<1>3. ASSUME NEW i \in 1 .. Len(levels)
      PROVE  /\ levels[i].price \in Prices
             /\ levels[i].qty = Cardinality(Held(orders, levels[i].price))
             /\ levels[i].qty # 0
  <2>1. levels[i].price \in Prices
    BY <1>2, LevelType
  <2>2. QtyAt(levels, levels[i].price) = levels[i].qty
    BY <1>1, <1>2, QtyAtLevel, SideAssumption
  <2>3. levels[i].qty > 0
    BY <1>2 DEF Positive
  <2> QED
    BY <1>1, <2>1, <2>2, <2>3 DEF Shows
<1>4. ASSUME NEW i \in 1 .. Len(levels)
      PROVE  \E id \in DOMAIN orders : orders[id].price = levels[i].price
  <2>1. Held(orders, levels[i].price) # {}
    BY <1>3, FS_EmptySet
  <2> QED
    BY <2>1, HeldMembers
<1>5. {levels[i].price : i \in DOMAIN levels} = {orders[id].price : id \in DOMAIN orders}
  <2>1. ASSUME NEW x \in {levels[i].price : i \in DOMAIN levels}
        PROVE  x \in {orders[id].price : id \in DOMAIN orders}
    BY <1>2, <1>4
  <2>2. ASSUME NEW x \in {orders[id].price : id \in DOMAIN orders}
        PROVE  x \in {levels[i].price : i \in DOMAIN levels}
    BY <1>2, OrderHasLevel
  <2> QED
    BY <2>1, <2>2
<1>6. LevelsAreTheSums
  BY <1>2, <1>3, <1>5, HeldNow DEF LevelsAreTheSums
<1>7. BestPriceIsBest
  <2> SUFFICES ASSUME NEW id \in DOMAIN orders
               PROVE  \/ orders[id].price = GetBestPrice(levels)
                      \/ Comp(BookSide(side), orders[id].price, GetBestPrice(levels))
    BY DEF BestPriceIsBest
  <2>1. PICK i \in 1 .. Len(levels) : levels[i].price = orders[id].price
    BY OrderHasLevel
  <2>2. GetBestPrice(levels) = levels[Len(levels)].price /\ Len(levels) \in 1 .. Len(levels)
    BY <1>2, <2>1 DEF GetBestPrice, Last
  <2>3. CASE i = Len(levels)
    BY <2>1, <2>2, <2>3
  <2>4. CASE i < Len(levels)
    BY <1>2, <2>1, <2>2, <2>4 DEF Sorted
  <2>5. i = Len(levels) \/ i < Len(levels)
    <3>1. Len(levels) \in Nat /\ i \in 1 .. Len(levels)
      BY <1>2
    <3> QED
      BY ONLY <3>1
  <2> QED
    BY <2>3, <2>4, <2>5
<1> QED
  BY <1>6, <1>7

\* The inductive invariant is an invariant.
THEOREM SideInvAlways == Spec => []SideInv
BY InitInv, NextStep, PTL DEF Spec

\* After any sequence of additions, executions, deletions and replacements, a side of
\* L2Orderbook has one level per price in use, worst price first, holding the sum of
\* the quantities of the orders at that price.
THEOREM LevelsAreTheSumsAlways == Spec => []LevelsAreTheSums
BY SideInvAlways, InvImplies, PTL

\* And the level at its back, which GetBestPrices returns, has the best price of all.
THEOREM BestPriceIsBestAlways == Spec => []BestPriceIsBest
BY SideInvAlways, InvImplies, PTL
=============================================================================
