------------------------- MODULE L2OrderbookProofs -------------------------
(***************************************************************************)
(* What the operations of L2Orderbook do to a sorted side of the book, for *)
(* every sequence of levels: each returns a sorted side that differs from  *)
(* the old one in the quantity at one price only.                          *)
(***************************************************************************)
EXTENDS L2Orderbook, FiniteSets, SequenceTheorems, FiniteSetTheorems, TLAPS, WellFoundedInduction

----------------------------------------------------------------------------
(* Finding a level. *)

\* A set of positions that is not empty has a largest one.
LEMMA MaxOfPositions ==
    ASSUME NEW n \in Nat, NEW I \in SUBSET (1 .. n), I # {}
    PROVE  /\ Max(I) \in I
           /\ \A j \in I : j <= Max(I)
<1> DEFINE T == {n - i : i \in I}
<1>1. T \subseteq Nat /\ T # {}
  <2>1. \A i \in I : i \in Int /\ n - i \in Nat
    OBVIOUS
  <2>2. T \subseteq Nat
    BY <2>1
  <2>3. PICK i \in I : TRUE
    OBVIOUS
  <2>4. n - i \in T
    BY <2>3
  <2> QED
    BY <2>2, <2>4
<1>2. \E x \in T : \A y \in T : ~(<< y, x >> \in OpToRel(<, Nat))
  BY <1>1, NatLessThanWellFounded, WFMin
<1>3. PICK x \in T : \A y \in T : ~(y < x)
  BY <1>1, <1>2 DEF OpToRel
<1>4. PICK m \in I : x = n - m
  BY <1>3
<1>5. \A j \in I : m >= j
  BY <1>3, <1>4
<1> QED
  BY <1>5 DEF Max

\* GetLevel finds a level with the price if there is one, and 0 otherwise.
LEMMA GetLevelFinds ==
    ASSUME NEW P, NEW levels \in Seq(Level(P)), NEW price
    PROVE  \/ /\ GetLevel(levels, price) = 0
              /\ \A i \in 1 .. Len(levels) : levels[i].price # price
           \/ /\ GetLevel(levels, price) \in 1 .. Len(levels)
              /\ levels[GetLevel(levels, price)].price = price
<1> DEFINE I == {i \in 1 .. Len(levels) : levels[i].price = price}
<1>1. GetLevel(levels, price) = IF I # {} THEN Max(I) ELSE 0
  BY DEF GetLevel, SelectLastInSeq
<1>2. I \in SUBSET (1 .. Len(levels)) /\ Len(levels) \in Nat
  OBVIOUS
<1>3. CASE I = {}
  BY <1>1, <1>3
<1>4. CASE I # {}
  <2>1. Max(I) \in I
    BY <1>2, <1>4, MaxOfPositions
  <2> QED
    BY <1>1, <1>4, <2>1
<1> QED
  BY <1>3, <1>4

\* WorseLevel is the last position whose price is worse; all behind it are not.
LEMMA WorseLevelFinds ==
    ASSUME NEW P, NEW levels \in Seq(Level(P)), NEW price, NEW bs
    PROVE  /\ WorseLevel(levels, price, bs) \in 0 .. Len(levels)
           /\ WorseLevel(levels, price, bs) # 0 =>
                  Comp(bs, levels[WorseLevel(levels, price, bs)].price, price)
           /\ \A j \in 1 .. Len(levels) :
                  j > WorseLevel(levels, price, bs) => ~Comp(bs, levels[j].price, price)
<1> DEFINE I == {i \in 1 .. Len(levels) : Comp(bs, levels[i].price, price)}
<1>1. WorseLevel(levels, price, bs) = IF I # {} THEN Max(I) ELSE 0
  BY DEF WorseLevel, SelectLastInSeq
<1>2. I \in SUBSET (1 .. Len(levels)) /\ Len(levels) \in Nat
  OBVIOUS
<1>3. CASE I = {}
  BY <1>1, <1>2, <1>3
<1>4. CASE I # {}
  <2>1. Max(I) \in I /\ \A j \in I : j <= Max(I)
    BY <1>2, <1>4, MaxOfPositions
  <2> HIDE DEF I
  <2>2. WorseLevel(levels, price, bs) = Max(I)
    BY <1>1, <1>4
  <2>3. Max(I) \in 1 .. Len(levels) /\ Comp(bs, levels[Max(I)].price, price)
    BY <2>1 DEF I
  <2>4. ASSUME NEW j \in 1 .. Len(levels), j > Max(I)
        PROVE  ~Comp(bs, levels[j].price, price)
    BY <1>2, <2>1, <2>3, <2>4 DEF I
  <2> QED
    BY <2>2, <2>3, <2>4
<1> QED
  BY <1>3, <1>4

----------------------------------------------------------------------------
(* The three ways a side changes: a quantity is set, a level goes, one comes. *)

\* The fields of a level.
LEMMA LevelType ==
    ASSUME NEW P, NEW levels \in Seq(Level(P)), NEW i \in 1 .. Len(levels)
    PROVE  levels[i] \in Level(P) /\ levels[i].price \in P /\ levels[i].qty \in Quantity
<1>1. levels[i] \in Level(P)
  OBVIOUS
<1> QED
  BY <1>1 DEF Level

\* In a sorted side no price has two levels.
LEMMA SortedUnique ==
    ASSUME NEW P \in SUBSET Int, NEW levels \in Seq(Level(P)), NEW bs \in BookSides, Sorted(levels, bs),
           NEW i \in 1 .. Len(levels), NEW j \in 1 .. Len(levels), levels[i].price = levels[j].price
    PROVE  i = j
<1>1. levels[i].price \in Int
  BY LevelType
<1>2. ~Comp(bs, levels[i].price, levels[j].price) /\ ~Comp(bs, levels[j].price, levels[i].price)
  BY <1>1 DEF Comp
<1> QED
  BY <1>2 DEF Sorted

\* So a level's quantity is the quantity at its price.
LEMMA QtyAtLevel ==
    ASSUME NEW P \in SUBSET Int, NEW levels \in Seq(Level(P)), NEW bs \in BookSides, Sorted(levels, bs),
           NEW i \in 1 .. Len(levels)
    PROVE  HasLevel(levels, levels[i].price) /\ QtyAt(levels, levels[i].price) = levels[i].qty
<1>1. /\ GetLevel(levels, levels[i].price) \in 1 .. Len(levels)
      /\ levels[GetLevel(levels, levels[i].price)].price = levels[i].price
  BY GetLevelFinds
<1>2. GetLevel(levels, levels[i].price) = i
  BY <1>1, SortedUnique
<1> QED
  BY <1>2 DEF QtyAt, HasLevel

\* And a price no level has shows no quantity.
LEMMA QtyAtNoLevel ==
    ASSUME NEW P, NEW levels \in Seq(Level(P)), NEW price,
           \A i \in 1 .. Len(levels) : levels[i].price # price
    PROVE  ~HasLevel(levels, price) /\ QtyAt(levels, price) = 0
BY GetLevelFinds DEF QtyAt, HasLevel

\* Two sides with the same levels except at some prices show the same quantity at
\* every other price.
LEMMA SameQtyAt ==
    ASSUME NEW P \in SUBSET Int, NEW bs \in BookSides, NEW price,
           NEW l1 \in Seq(Level(P)), Sorted(l1, bs), NEW l2 \in Seq(Level(P)), Sorted(l2, bs),
           \A i \in 1 .. Len(l1) : l1[i].price = price => \E j \in 1 .. Len(l2) : l2[j] = l1[i],
           \A j \in 1 .. Len(l2) : l2[j].price = price => \E i \in 1 .. Len(l1) : l1[i] = l2[j]
    PROVE  QtyAt(l2, price) = QtyAt(l1, price)
<1>1. CASE \E i \in 1 .. Len(l1) : l1[i].price = price
  <2>1. PICK i \in 1 .. Len(l1) : l1[i].price = price
    BY <1>1
  <2>2. PICK j \in 1 .. Len(l2) : l2[j] = l1[i]
    BY <2>1
  <2>3. QtyAt(l1, price) = l1[i].qty
    BY <2>1, QtyAtLevel
  <2>4. QtyAt(l2, price) = l2[j].qty
    BY <2>1, <2>2, QtyAtLevel
  <2> QED
    BY <2>2, <2>3, <2>4
<1>2. CASE \A i \in 1 .. Len(l1) : l1[i].price # price
  <2>1. \A j \in 1 .. Len(l2) : l2[j].price # price
    BY <1>2
  <2> QED
    BY <1>2, <2>1, QtyAtNoLevel
<1> QED
  BY <1>1, <1>2

\* The sides the builder keeps.
GoodSide(levels, P, bs) == levels \in Seq(Level(P)) /\ Sorted(levels, bs) /\ Positive(levels)

\* new is a good side that shows qty at the price and what old shows elsewhere.
Updates(old, new, P, bs, price, qty) ==
    /\ GoodSide(new, P, bs)
    /\ QtyAt(new, price) = qty
    /\ \A p \in P \ {price} : QtyAt(new, p) = QtyAt(old, p)

\* Setting the quantity of a level.
LEMMA SetQty ==
    ASSUME NEW P \in SUBSET Int, NEW bs \in BookSides, NEW levels, GoodSide(levels, P, bs),
           NEW i \in 1 .. Len(levels), NEW q \in Quantity \ {0}
    PROVE  Updates(levels, [levels EXCEPT ![i].qty = q], P, bs, levels[i].price, q)
<1> DEFINE new == [levels EXCEPT ![i].qty = q]
<1> USE QtyModAssumption
<1>0. levels \in Seq(Level(P)) /\ Sorted(levels, bs) /\ Positive(levels)
  BY DEF GoodSide
<1>1. /\ new \in Seq(Level(P)) /\ Len(new) = Len(levels)
      /\ \A j \in 1 .. Len(levels) : j # i => new[j] = levels[j]
      /\ new[i].price = levels[i].price /\ new[i].qty = q
  <2> DEFINE r == [levels[i] EXCEPT !.qty = q]
  <2>1. r \in Level(P) /\ r.price = levels[i].price /\ r.qty = q
    <3>1. levels[i] \in Level(P)
      BY <1>0, LevelType
    <3> QED
      BY <3>1 DEF Level
  <2>2. new = [levels EXCEPT ![i] = r]
    OBVIOUS
  <2> HIDE DEF new, r
  <2>3. new \in Seq(Level(P)) /\ Len(new) = Len(levels)
    BY <1>0, <2>1, <2>2, ExceptSeq
  <2>4. new[i] = r /\ \A j \in 1 .. Len(levels) : j # i => new[j] = levels[j]
    BY <1>0, <2>2
  <2> QED
    BY <2>1, <2>3, <2>4
<1> HIDE DEF new
<1>2. \A j \in 1 .. Len(levels) : new[j].price = levels[j].price
  BY <1>1
<1>3. Sorted(new, bs)
  BY <1>0, <1>1, <1>2 DEF Sorted
<1>4. Positive(new)
  BY <1>0, <1>1 DEF Positive, Quantity
<1>5. QtyAt(new, levels[i].price) = q
  BY <1>1, <1>3, QtyAtLevel
<1>6. ASSUME NEW p \in P \ {levels[i].price}
      PROVE  QtyAt(new, p) = QtyAt(levels, p)
  <2>1. \A j \in 1 .. Len(levels) : levels[j].price = p => new[j] = levels[j]
    BY <1>1
  <2>2. \A j \in 1 .. Len(new) : new[j].price = p => new[j] = levels[j]
    BY <1>1
  <2> QED
    BY <1>0, <1>1, <1>3, <2>1, <2>2, SameQtyAt
<1> QED
  BY <1>1, <1>3, <1>4, <1>5, <1>6 DEF Updates, GoodSide, new

\* The elements of a sequence from which one is erased.
LEMMA RemoveAtElements ==
    ASSUME NEW S, NEW s \in Seq(S), NEW i \in 1 .. Len(s)
    PROVE  /\ RemoveAt(s, i) \in Seq(S)
           /\ Len(RemoveAt(s, i)) = Len(s) - 1
           /\ \A j \in 1 .. Len(s) - 1 : RemoveAt(s, i)[j] = IF j < i THEN s[j] ELSE s[j + 1]
<1> DEFINE a == SubSeq(s, 1, i - 1)
           b == SubSeq(s, i + 1, Len(s))
<1>1. /\ a \in Seq(S) /\ Len(a) = i - 1
      /\ \A j \in 1 .. i - 1 : a[j] = s[j]
  BY SubSeqProperties
<1>2. /\ b \in Seq(S) /\ Len(b) = Len(s) - i
      /\ \A j \in 1 .. Len(s) - i : b[j] = s[i + j]
  BY SubSeqProperties
<1>3. RemoveAt(s, i) = a \o b
  BY DEF RemoveAt
<1> HIDE DEF a, b
<1>4. /\ a \o b \in Seq(S) /\ Len(a \o b) = Len(s) - 1
      /\ \A j \in 1 .. Len(s) - 1 : (a \o b)[j] = IF j <= i - 1 THEN a[j] ELSE b[j - (i - 1)]
  <2>1. Len(a) + Len(b) = Len(s) - 1
    BY <1>1, <1>2
  <2>2. /\ a \o b \in Seq(S) /\ Len(a \o b) = Len(a) + Len(b)
        /\ \A j \in 1 .. Len(a) + Len(b) : (a \o b)[j] = IF j <= Len(a) THEN a[j] ELSE b[j - Len(a)]
    BY <1>1, <1>2, ConcatProperties, Zenon
  <2> QED
    BY <1>1, <2>1, <2>2, Zenon
<1>5. ASSUME NEW j \in 1 .. Len(s) - 1
      PROVE  (a \o b)[j] = IF j < i THEN s[j] ELSE s[j + 1]
  BY <1>1, <1>2, <1>4
<1> QED
  BY <1>3, <1>4, <1>5

\* The elements of a sequence into which one is inserted.
LEMMA InsertAtElements ==
    ASSUME NEW S, NEW s \in Seq(S), NEW i \in 1 .. Len(s) + 1, NEW e \in S
    PROVE  /\ InsertAt(s, i, e) \in Seq(S)
           /\ Len(InsertAt(s, i, e)) = Len(s) + 1
           /\ \A j \in 1 .. Len(s) + 1 :
                  InsertAt(s, i, e)[j] = IF j < i THEN s[j] ELSE IF j = i THEN e ELSE s[j - 1]
<1> DEFINE a == SubSeq(s, 1, i - 1)
           b == SubSeq(s, i, Len(s))
           m == a \o << e >>
<1>1. /\ a \in Seq(S) /\ Len(a) = i - 1
      /\ \A j \in 1 .. i - 1 : a[j] = s[j]
  BY SubSeqProperties
<1>2. /\ b \in Seq(S) /\ Len(b) = Len(s) - i + 1
      /\ \A j \in 1 .. Len(s) - i + 1 : b[j] = s[i + j - 1]
  BY SubSeqProperties
<1>3. InsertAt(s, i, e) = m \o b
  BY DEF InsertAt
<1>4. << e >> \in Seq(S) /\ Len(<< e >>) = 1 /\ << e >>[1] = e
  OBVIOUS
<1> HIDE DEF a, b
<1>5. /\ m \in Seq(S) /\ Len(m) = i
      /\ \A j \in 1 .. i : m[j] = IF j <= i - 1 THEN a[j] ELSE << e >>[j - (i - 1)]
  BY <1>1, <1>4, ConcatProperties
<1>6. \A j \in 1 .. i : m[j] = IF j < i THEN s[j] ELSE e
  BY <1>1, <1>4, <1>5
<1> HIDE DEF m
<1>7. /\ m \o b \in Seq(S) /\ Len(m \o b) = Len(s) + 1
      /\ \A j \in 1 .. Len(s) + 1 : (m \o b)[j] = IF j <= i THEN m[j] ELSE b[j - i]
  <2>1. Len(m) + Len(b) = Len(s) + 1
    BY <1>2, <1>5
  <2>2. /\ m \o b \in Seq(S) /\ Len(m \o b) = Len(m) + Len(b)
        /\ \A j \in 1 .. Len(m) + Len(b) : (m \o b)[j] = IF j <= Len(m) THEN m[j] ELSE b[j - Len(m)]
    BY <1>2, <1>5, ConcatProperties, Zenon
  <2> QED
    BY <1>5, <2>1, <2>2, Zenon
<1>8. ASSUME NEW j \in 1 .. Len(s) + 1
      PROVE  (m \o b)[j] = IF j < i THEN s[j] ELSE IF j = i THEN e ELSE s[j - 1]
  BY <1>2, <1>6, <1>7
<1> QED
  BY <1>3, <1>7, <1>8

\* Erasing a level.
LEMMA EraseLevel ==
    ASSUME NEW P \in SUBSET Int, NEW bs \in BookSides, NEW levels, GoodSide(levels, P, bs),
           NEW i \in 1 .. Len(levels)
    PROVE  Updates(levels, RemoveAt(levels, i), P, bs, levels[i].price, 0)
<1> DEFINE new == RemoveAt(levels, i)
           from(j) == IF j < i THEN j ELSE j + 1
<1>0. levels \in Seq(Level(P)) /\ Sorted(levels, bs) /\ Positive(levels)
  BY DEF GoodSide
<1>1. /\ new \in Seq(Level(P)) /\ Len(new) = Len(levels) - 1
      /\ \A j \in 1 .. Len(levels) - 1 : new[j] = IF j < i THEN levels[j] ELSE levels[j + 1]
  BY <1>0, RemoveAtElements
<1> HIDE DEF new
<1>2. \A j \in 1 .. Len(new) :
          from(j) \in 1 .. Len(levels) /\ from(j) # i /\ new[j] = levels[from(j)]
  BY <1>0, <1>1
<1>3. \A j, k \in 1 .. Len(new) : j < k => from(j) < from(k)
  OBVIOUS
<1>4. Sorted(new, bs)
  <2> HIDE DEF from
  <2> QED
    BY <1>0, <1>2, <1>3 DEF Sorted
<1>5. Positive(new)
  <2> HIDE DEF from
  <2> QED
    BY <1>0, <1>2 DEF Positive
<1>6. \A j \in 1 .. Len(new) : new[j].price # levels[i].price
  <2> HIDE DEF from
  <2> QED
    BY <1>0, <1>2, SortedUnique
<1>7. QtyAt(new, levels[i].price) = 0
  BY <1>1, <1>6, QtyAtNoLevel
<1>8. ASSUME NEW p \in P \ {levels[i].price}
      PROVE  QtyAt(new, p) = QtyAt(levels, p)
  <2>1. ASSUME NEW k \in 1 .. Len(levels), levels[k].price = p
        PROVE  \E j \in 1 .. Len(new) : new[j] = levels[k]
    <3>1. k # i
      BY <2>1
    <3>2. CASE k < i
      BY <1>0, <1>1, <3>2
    <3>3. CASE k > i
      <4>1. k - 1 \in 1 .. Len(new) /\ new[k - 1] = levels[k]
        BY <1>0, <1>1, <3>3
      <4> QED
        BY <4>1
    <3> QED
      BY <3>1, <3>2, <3>3
  <2>2. \A j \in 1 .. Len(new) : \E k \in 1 .. Len(levels) : levels[k] = new[j]
    BY <1>2
  <2> QED
    BY <1>0, <1>1, <1>4, <2>1, <2>2, SameQtyAt
<1> QED
  BY <1>1, <1>4, <1>5, <1>7, <1>8 DEF Updates, GoodSide, new

\* Inserting a level for a price that has none, where AddOrder inserts it.
LEMMA InsertLevel ==
    ASSUME NEW P \in SUBSET Int, NEW bs \in BookSides, NEW levels, GoodSide(levels, P, bs),
           NEW price \in P, NEW q \in Quantity \ {0},
           \A i \in 1 .. Len(levels) : levels[i].price # price
    PROVE  Updates(levels, InsertAt(levels, WorseLevel(levels, price, bs) + 1, [price |-> price, qty |-> q]),
                   P, bs, price, q)
<1> DEFINE w   == WorseLevel(levels, price, bs) + 1
           e   == [price |-> price, qty |-> q]
           new == InsertAt(levels, w, e)
<1> USE QtyModAssumption
<1>0. levels \in Seq(Level(P)) /\ Sorted(levels, bs) /\ Positive(levels) /\ Len(levels) \in Nat
  BY DEF GoodSide
<1>1. /\ w \in 1 .. Len(levels) + 1
      /\ w # 1 => Comp(bs, levels[w - 1].price, price)
      /\ \A j \in 1 .. Len(levels) : j >= w => ~Comp(bs, levels[j].price, price)
  BY <1>0, WorseLevelFinds
<1>2. e \in Level(P) /\ e.price = price /\ e.qty = q
  BY DEF Level
<1> HIDE DEF w, e
<1>3. /\ new \in Seq(Level(P)) /\ Len(new) = Len(levels) + 1
      /\ \A j \in 1 .. Len(levels) + 1 :
             new[j] = IF j < w THEN levels[j] ELSE IF j = w THEN e ELSE levels[j - 1]
  BY <1>0, <1>1, <1>2, InsertAtElements
<1> HIDE DEF new
<1>4. \A j \in 1 .. Len(levels) : levels[j].price \in Int /\ levels[j].price # price
  BY <1>0, LevelType
<1>5. \A j \in 1 .. Len(levels) : j < w => Comp(bs, levels[j].price, price)
  <2> SUFFICES ASSUME NEW j \in 1 .. Len(levels), j < w
               PROVE  Comp(bs, levels[j].price, price)
    OBVIOUS
  <2>1. CASE j = w - 1
    BY <1>1, <2>1
  <2>2. CASE j < w - 1
    <3>1. w - 1 \in 1 .. Len(levels)
      BY <1>0, <1>1, <2>2
    <3>2. Comp(bs, levels[j].price, levels[w - 1].price)
      BY <1>0, <1>1, <2>2, <3>1 DEF Sorted
    <3>3. Comp(bs, levels[w - 1].price, price)
      BY <1>1, <2>2
    <3> QED
      BY <1>4, <3>1, <3>2, <3>3 DEF Comp
  <2> QED
    BY <1>0, <1>1, <2>1, <2>2
<1>6. \A j \in 1 .. Len(levels) : j >= w => Comp(bs, price, levels[j].price)
  BY <1>1, <1>4 DEF Comp
<1>7. Sorted(new, bs)
  <2> SUFFICES ASSUME NEW j \in 1 .. Len(levels) + 1, NEW k \in 1 .. Len(levels) + 1, j < k
               PROVE  Comp(bs, new[j].price, new[k].price)
    BY <1>3 DEF Sorted
  <2>1. CASE k < w
    <3>1. j \in 1 .. Len(levels) /\ k \in 1 .. Len(levels) /\ new[j] = levels[j] /\ new[k] = levels[k]
      BY <1>0, <1>1, <1>3, <2>1
    <3> QED
      BY <1>0, <3>1 DEF Sorted
  <2>2. CASE k = w
    <3>1. j \in 1 .. Len(levels) /\ j < w /\ new[j] = levels[j] /\ new[k] = e
      BY <1>0, <1>1, <1>3, <2>2
    <3> QED
      BY <1>2, <1>5, <3>1
  <2>3. CASE k > w /\ j = w
    <3>1. k - 1 \in 1 .. Len(levels) /\ k - 1 >= w /\ new[j] = e /\ new[k] = levels[k - 1]
      BY <1>0, <1>1, <1>3, <2>3
    <3> QED
      BY <1>2, <1>6, <3>1
  <2>4. CASE k > w /\ j < w
    <3>1. /\ j \in 1 .. Len(levels) /\ k - 1 \in 1 .. Len(levels) /\ j < k - 1
          /\ new[j] = levels[j] /\ new[k] = levels[k - 1]
      BY <1>0, <1>1, <1>3, <2>4
    <3> QED
      BY <1>0, <3>1 DEF Sorted
  <2>5. CASE k > w /\ j > w
    <3>1. /\ j - 1 \in 1 .. Len(levels) /\ k - 1 \in 1 .. Len(levels) /\ j - 1 < k - 1
          /\ new[j] = levels[j - 1] /\ new[k] = levels[k - 1]
      BY <1>0, <1>1, <1>3, <2>5
    <3> QED
      BY <1>0, <3>1 DEF Sorted
  <2> QED
    BY <1>1, <2>1, <2>2, <2>3, <2>4, <2>5
<1>8. \A j \in 1 .. Len(new) : new[j] = e \/ \E i \in 1 .. Len(levels) : new[j] = levels[i]
  <2> SUFFICES ASSUME NEW j \in 1 .. Len(levels) + 1
               PROVE  new[j] = e \/ \E i \in 1 .. Len(levels) : new[j] = levels[i]
    BY <1>3
  <2>1. CASE j < w
    BY <1>0, <1>1, <1>3, <2>1
  <2>2. CASE j = w
    BY <1>3, <2>2
  <2>3. CASE j > w
    <3>1. j - 1 \in 1 .. Len(levels) /\ new[j] = levels[j - 1]
      BY <1>0, <1>1, <1>3, <2>3
    <3> QED
      BY <3>1
  <2> QED
    BY <1>1, <2>1, <2>2, <2>3
<1>9. Positive(new)
  BY <1>0, <1>2, <1>8 DEF Positive, Quantity
<1>10. w \in 1 .. Len(new) /\ new[w] = e
  BY <1>0, <1>1, <1>3
<1>11. QtyAt(new, price) = q
  BY <1>2, <1>3, <1>7, <1>10, QtyAtLevel
<1>12. ASSUME NEW p \in P \ {price}
       PROVE  QtyAt(new, p) = QtyAt(levels, p)
  <2>1. ASSUME NEW k \in 1 .. Len(levels)
        PROVE  \E j \in 1 .. Len(new) : new[j] = levels[k]
    <3>1. CASE k < w
      BY <1>0, <1>3, <3>1
    <3>2. CASE k >= w
      <4>1. k + 1 \in 1 .. Len(new) /\ new[k + 1] = levels[k]
        BY <1>0, <1>1, <1>3, <3>2
      <4> QED
        BY <4>1
    <3> QED
      BY <1>1, <3>1, <3>2
  <2>2. \A j \in 1 .. Len(new) : new[j].price = p => \E i \in 1 .. Len(levels) : new[j] = levels[i]
    BY <1>2, <1>8
  <2> QED
    BY <1>0, <1>3, <1>7, <2>1, <2>2, SameQtyAt
<1> QED
  BY <1>3, <1>7, <1>9, <1>11, <1>12 DEF Updates, GoodSide, new, w, e

----------------------------------------------------------------------------
(* The operations. *)

\* A price shows quantity exactly when it has a level.
LEMMA LevelIffQty ==
    ASSUME NEW P \in SUBSET Int, NEW bs \in BookSides, NEW levels, GoodSide(levels, P, bs), NEW price
    PROVE  /\ QtyAt(levels, price) \in Quantity
           /\ HasLevel(levels, price) <=> QtyAt(levels, price) # 0
           /\ HasLevel(levels, price) => /\ GetLevel(levels, price) \in 1 .. Len(levels)
                                         /\ levels[GetLevel(levels, price)].price = price
                                         /\ levels[GetLevel(levels, price)].qty = QtyAt(levels, price)
<1>0. levels \in Seq(Level(P)) /\ Positive(levels)
  BY DEF GoodSide
<1>1. CASE HasLevel(levels, price)
  <2>1. GetLevel(levels, price) \in 1 .. Len(levels) /\ levels[GetLevel(levels, price)].price = price
    BY <1>0, <1>1, GetLevelFinds DEF HasLevel
  <2>2. levels[GetLevel(levels, price)].qty \in Quantity
    BY <1>0, <2>1, LevelType
  <2>3. levels[GetLevel(levels, price)].qty > 0
    BY <1>0, <2>1 DEF Positive
  <2> QED
    BY <1>1, <2>1, <2>2, <2>3 DEF QtyAt, Quantity
<1>2. CASE ~HasLevel(levels, price)
  BY <1>2, QtyModAssumption DEF QtyAt, Quantity
<1> QED
  BY <1>1, <1>2

\* AddOrder adds to the price and to no other, as long as the sum can be counted.
THEOREM AddOrderCorrect ==
    ASSUME NEW P \in SUBSET Int, NEW bs \in BookSides, NEW levels, GoodSide(levels, P, bs),
           NEW price \in P, NEW q \in Quantity \ {0}, QtyAt(levels, price) + q < QtyMod
    PROVE  Updates(levels, AddOrder(levels, price, q, bs), P, bs, price, QtyAt(levels, price) + q)
<1> USE QtyModAssumption
<1> DEFINE i == GetLevel(levels, price)
<1>1. CASE HasLevel(levels, price)
  <2>1. i \in 1 .. Len(levels) /\ levels[i].price = price /\ levels[i].qty = QtyAt(levels, price)
    BY <1>1, LevelIffQty
  <2>2. QtyAt(levels, price) \in Quantity
    BY LevelIffQty
  <2>3. Plus(levels[i].qty, q) = QtyAt(levels, price) + q
    BY <2>1 DEF Plus
  <2>4. QtyAt(levels, price) + q \in Quantity \ {0}
    BY <2>2 DEF Quantity
  <2>5. AddOrder(levels, price, q, bs) = [levels EXCEPT ![i].qty = QtyAt(levels, price) + q]
    BY <1>1, <2>3 DEF AddOrder
  <2> HIDE DEF i
  <2>6. Updates(levels, [levels EXCEPT ![i].qty = QtyAt(levels, price) + q], P, bs, levels[i].price,
                QtyAt(levels, price) + q)
    BY <2>1, <2>4, SetQty, Zenon
  <2> QED
    BY <2>1, <2>5, <2>6, Zenon
<1>2. CASE ~HasLevel(levels, price)
  <2>1. \A j \in 1 .. Len(levels) : levels[j].price # price
    BY <1>2, GetLevelFinds DEF HasLevel, GoodSide
  <2>2. QtyAt(levels, price) + q = q
    BY <1>2 DEF QtyAt, Quantity
  <2>3. AddOrder(levels, price, q, bs) =
          InsertAt(levels, WorseLevel(levels, price, bs) + 1, [price |-> price, qty |-> q])
    BY <1>2 DEF AddOrder
  <2> QED
    BY <2>1, <2>2, <2>3, InsertLevel
<1> QED
  BY <1>1, <1>2

\* DeleteOrder takes a quantity the price shows off that price and off no other, and
\* finds the level it needs.
THEOREM DeleteOrderCorrect ==
    ASSUME NEW P \in SUBSET Int, NEW bs \in BookSides, NEW levels, GoodSide(levels, P, bs),
           NEW price \in P, NEW q \in Quantity \ {0}, q <= QtyAt(levels, price)
    PROVE  /\ HasLevel(levels, price)
           /\ Updates(levels, DeleteOrder(levels, price, q), P, bs, price, QtyAt(levels, price) - q)
<1> USE QtyModAssumption
<1> DEFINE i == GetLevel(levels, price)
<1>1. QtyAt(levels, price) \in Quantity
  BY LevelIffQty
<1>2. HasLevel(levels, price)
  <2>1. QtyAt(levels, price) # 0
    BY <1>1 DEF Quantity
  <2> QED
    BY <2>1, LevelIffQty
<1>3. i \in 1 .. Len(levels) /\ levels[i].price = price /\ levels[i].qty = QtyAt(levels, price)
  BY <1>2, LevelIffQty
<1>4. Minus(levels[i].qty, q) = QtyAt(levels, price) - q
  BY <1>3 DEF Minus
<1>5. CASE q = QtyAt(levels, price)
  <2>1. QtyAt(levels, price) - q = 0
    BY <1>1, <1>5 DEF Quantity
  <2>2. DeleteOrder(levels, price, q) = RemoveAt(levels, i)
    BY <1>4, <2>1 DEF DeleteOrder
  <2> QED
    BY <1>2, <1>3, <2>1, <2>2, EraseLevel
<1>6. CASE q # QtyAt(levels, price)
  <2>1. QtyAt(levels, price) - q \in Quantity \ {0}
    BY <1>1, <1>6 DEF Quantity
  <2>2. DeleteOrder(levels, price, q) = [levels EXCEPT ![i].qty = QtyAt(levels, price) - q]
    BY <1>4, <2>1 DEF DeleteOrder
  <2> HIDE DEF i
  <2>3. Updates(levels, [levels EXCEPT ![i].qty = QtyAt(levels, price) - q], P, bs, levels[i].price,
                QtyAt(levels, price) - q)
    BY <1>3, <2>1, SetQty, Zenon
  <2> QED
    BY <1>2, <1>3, <2>2, <2>3, Zenon
<1> QED
  BY <1>5, <1>6

\* ExecuteOrder does the same with an executed quantity the price shows.
THEOREM ExecuteOrderCorrect ==
    ASSUME NEW P \in SUBSET Int, NEW bs \in BookSides, NEW levels, GoodSide(levels, P, bs),
           NEW price \in P, NEW q \in Quantity \ {0}, q <= QtyAt(levels, price)
    PROVE  /\ HasLevel(levels, price)
           /\ Updates(levels, ExecuteOrder(levels, price, q), P, bs, price, QtyAt(levels, price) - q)
<1> USE QtyModAssumption
<1> DEFINE i == GetLevel(levels, price)
<1>1. QtyAt(levels, price) \in Quantity
  BY LevelIffQty
<1>2. HasLevel(levels, price)
  <2>1. QtyAt(levels, price) # 0
    BY <1>1 DEF Quantity
  <2> QED
    BY <2>1, LevelIffQty
<1>3. i \in 1 .. Len(levels) /\ levels[i].price = price /\ levels[i].qty = QtyAt(levels, price)
  BY <1>2, LevelIffQty
<1>4. CASE q = QtyAt(levels, price)
  <2>1. QtyAt(levels, price) - q = 0 /\ ~(levels[i].qty > q)
    BY <1>1, <1>3, <1>4 DEF Quantity
  <2>2. ExecuteOrder(levels, price, q) = RemoveAt(levels, i)
    BY <2>1 DEF ExecuteOrder
  <2> QED
    BY <1>2, <1>3, <2>1, <2>2, EraseLevel
<1>5. CASE q # QtyAt(levels, price)
  <2>1. QtyAt(levels, price) - q \in Quantity \ {0} /\ levels[i].qty > q
    BY <1>1, <1>3, <1>5 DEF Quantity
  <2>2. ExecuteOrder(levels, price, q) = [levels EXCEPT ![i].qty = QtyAt(levels, price) - q]
    BY <1>3, <2>1 DEF ExecuteOrder
  <2> HIDE DEF i
  <2>3. Updates(levels, [levels EXCEPT ![i].qty = QtyAt(levels, price) - q], P, bs, levels[i].price,
                QtyAt(levels, price) - q)
    BY <1>3, <2>1, SetQty, Zenon
  <2> QED
    BY <1>2, <1>3, <2>2, <2>3, Zenon
<1> QED
  BY <1>4, <1>5

\* ReplaceOrder moves quantity the old price shows to the new price, the same one or
\* another, and changes no third price.
THEOREM ReplaceOrderCorrect ==
    ASSUME NEW P \in SUBSET Int, NEW bs \in BookSides, NEW levels, GoodSide(levels, P, bs),
           NEW old \in P, NEW oldQty \in Quantity \ {0}, oldQty <= QtyAt(levels, old),
           NEW new \in P, NEW newQty \in Quantity \ {0},
           (IF new = old THEN QtyAt(levels, old) - oldQty ELSE QtyAt(levels, new)) + newQty < QtyMod,
           NEW moved, moved = ReplaceOrder(levels, old, oldQty, new, newQty, bs)
    PROVE  /\ HasLevel(levels, old)
           /\ GoodSide(moved, P, bs)
           /\ QtyAt(moved, new) =
                  (IF new = old THEN QtyAt(levels, old) - oldQty ELSE QtyAt(levels, new)) + newQty
           /\ old # new => QtyAt(moved, old) = QtyAt(levels, old) - oldQty
           /\ \A p \in P \ {old, new} : QtyAt(moved, p) = QtyAt(levels, p)
<1> USE QtyModAssumption
<1> DEFINE i == GetLevel(levels, old)
<1>1. QtyAt(levels, old) \in Quantity
  BY LevelIffQty
<1>2. HasLevel(levels, old)
  <2>1. QtyAt(levels, old) # 0
    BY <1>1 DEF Quantity
  <2> QED
    BY <2>1, LevelIffQty
<1>3. CASE old = new
  <2> DEFINE q == QtyAt(levels, old) - oldQty + newQty
  <2>1. i \in 1 .. Len(levels) /\ levels[i].price = old /\ levels[i].qty = QtyAt(levels, old)
    BY <1>2, LevelIffQty
  <2>2. q \in Quantity \ {0} /\ q < QtyMod
    BY <1>1, <1>3 DEF Quantity
  <2>3. Plus(Minus(levels[i].qty, oldQty), newQty) = q
    BY <1>1, <1>3, <2>1, <2>2 DEF Plus, Minus
  <2>4. moved = [levels EXCEPT ![i].qty = q]
    BY <1>3, <2>3 DEF ReplaceOrder
  <2> HIDE DEF q, i
  <2>5. Updates(levels, [levels EXCEPT ![i].qty = q], P, bs, levels[i].price, q)
    BY <2>1, <2>2, SetQty, Zenon
  <2>6. Updates(levels, moved, P, bs, old, q)
    BY <2>1, <2>4, <2>5, Zenon
  <2> QED
    BY <1>2, <1>3, <2>6 DEF Updates, q
<1>4. CASE old # new
  <2> DEFINE cut == ExecuteOrder(levels, old, oldQty)
  <2>1. Updates(levels, cut, P, bs, old, QtyAt(levels, old) - oldQty)
    BY ExecuteOrderCorrect
  <2>2. moved = AddOrder(cut, new, newQty, bs)
    BY <1>4 DEF ReplaceOrder
  <2> HIDE DEF cut
  <2>3. GoodSide(cut, P, bs) /\ QtyAt(cut, new) = QtyAt(levels, new)
    BY <1>4, <2>1 DEF Updates
  <2>4. Updates(cut, moved, P, bs, new, QtyAt(levels, new) + newQty)
    BY <1>4, <2>2, <2>3, AddOrderCorrect
  <2> QED
    BY <1>2, <1>4, <2>1, <2>4 DEF Updates
<1> QED
  BY <1>3, <1>4

----------------------------------------------------------------------------
(* Counting shares. *)

\* Consecutive shares of one order are as many as their numbers.
LEMMA CountShares ==
    ASSUME NEW k, NEW m \in Nat, NEW n \in Nat, m <= n
    PROVE  IsFiniteSet({k} \X (m + 1 .. n)) /\ Cardinality({k} \X (m + 1 .. n)) = n - m
<1>1. IsFiniteSet({k}) /\ Cardinality({k}) = 1
  BY FS_Singleton
<1>2. IsFiniteSet(m + 1 .. n) /\ Cardinality(m + 1 .. n) = n - m
  <2>1. m + 1 \in Int /\ n \in Int
    OBVIOUS
  <2>2. /\ IsFiniteSet(m + 1 .. n)
        /\ Cardinality(m + 1 .. n) = IF m + 1 > n THEN 0 ELSE n - (m + 1) + 1
    BY <2>1, FS_Interval, Zenon
  <2>3. CASE m + 1 > n
    <3>1. Cardinality(m + 1 .. n) = 0
      BY <2>2, <2>3, Zenon
    <3> QED
      BY <2>2, <2>3, <3>1
  <2>4. CASE ~(m + 1 > n)
    <3>1. Cardinality(m + 1 .. n) = n - (m + 1) + 1
      BY <2>2, <2>4, Zenon
    <3> QED
      BY <2>2, <3>1
  <2> QED
    BY <2>3, <2>4
<1>3. /\ IsFiniteSet({k} \X (m + 1 .. n))
      /\ Cardinality({k} \X (m + 1 .. n)) = Cardinality({k}) * Cardinality(m + 1 .. n)
  BY <1>1, <1>2, FS_Product
<1> QED
  BY <1>1, <1>2, <1>3
============================================================================
