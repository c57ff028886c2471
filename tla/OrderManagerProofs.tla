------------------------- MODULE OrderManagerProofs -------------------------
(***************************************************************************)
(* The tokens of OrderManager as numbers, for every base, every number of  *)
(* digits and every width of an int: what the constructor, nextToken and   *)
(* the destructor make of them.                                            *)
(***************************************************************************)
EXTENDS TokenCounter, TLAPS, WellFoundedInduction

----------------------------------------------------------------------------
(* Numbers. *)

\* Induction up to a bound, for the members of a set.
LEMMA UpTo ==
    ASSUME NEW N \in Nat, NEW S, 0 \in S, \A n \in 0 .. N - 1 : n \in S => n + 1 \in S
    PROVE  \A n \in 0 .. N : n \in S
<1> DEFINE Out == {n \in 0 .. N : n \notin S}
<1>1. ASSUME Out # {} PROVE FALSE
  <2>1. Out \subseteq Nat
    OBVIOUS
  <2>2. \E x \in Out : \A y \in Out : ~(<< y, x >> \in OpToRel(<, Nat))
    BY <1>1, <2>1, NatLessThanWellFounded, WFMin
  <2>3. PICK x \in Out : \A y \in Out : ~(y < x)
    BY <2>1, <2>2 DEF OpToRel
  <2>4. x # 0 /\ x - 1 \in 0 .. N - 1
    BY <2>3
  <2>5. x - 1 \in S
    BY <2>3, <2>4
  <2> QED
    BY <2>3, <2>4, <2>5
<1> QED
  BY <1>1

\* A number with one more digit.
LEMMA OneMoreDigit ==
    ASSUME NEW a \in Int, NEW d \in Int
    PROVE  a * Base \in Int /\ a * Base + d \in Int
BY ManagerAssumption

\* Multiplying keeps the order.
LEMMA TimesBase ==
    ASSUME NEW x \in Int, NEW y \in Int, x <= y
    PROVE  x * Base <= y * Base
<1> USE ManagerAssumption
<1> DEFINE c == y - x
<1>1. c \in Nat /\ y = x + c
  OBVIOUS
<1>2. c * Base >= 0 /\ (x + c) * Base = x * Base + c * Base
  BY <1>1
<1> HIDE DEF c
<1> QED
  BY <1>1, <1>2

\* A larger number stays larger, whatever digit follows that is not Base less.
LEMMA NextDigit ==
    ASSUME NEW a \in Int, NEW b \in Int, NEW d \in Int, NEW e \in Int, d - e <= Base - 1, a < b
    PROVE  a * Base + d < b * Base + e
<1> USE ManagerAssumption
<1>1. (a + 1) * Base <= b * Base
  BY TimesBase
<1>2. (a + 1) * Base = a * Base + Base
  OBVIOUS
<1>3. a * Base \in Int /\ b * Base \in Int
  OBVIOUS
<1> QED
  BY <1>1, <1>2, <1>3

\* The positions and the range of a token's characters.
LEMMA TokenRange ==
    ASSUME NEW t \in Token
    PROVE  t \in [1 .. Digits -> 1 - Base .. Base - 1] /\ \A i \in 1 .. Digits : t[i] \in Int
BY ManagerAssumption DEF Token

\* v holds the numbers the first 0, 1, ..., n digits of a token spell.
ValueTo(t, n, v) ==
    /\ v \in [0 .. n -> Int]
    /\ v[0] = 0
    /\ \A i \in 1 .. n : v[i] = v[i - 1] * Base + t[i]

Value(t, v) == ValueTo(t, Digits, v)

\* They exist, up to every digit.
LEMMA ValueUpTo ==
    ASSUME NEW t \in Token
    PROVE  \A n \in 0 .. Digits : \E v : ValueTo(t, n, v)
<1> USE ManagerAssumption
<1> DEFINE S == {n \in 0 .. Digits : \E v : ValueTo(t, n, v)}
<1>1. 0 \in S
  <2> DEFINE v == [i \in 0 .. 0 |-> 0]
  <2>1. v \in [0 .. 0 -> Int] /\ v[0] = 0
    OBVIOUS
  <2>2. \A i \in 1 .. 0 : v[i] = v[i - 1] * Base + t[i]
    OBVIOUS
  <2> HIDE DEF v
  <2>3. ValueTo(t, 0, v)
    BY <2>1, <2>2 DEF ValueTo
  <2> QED
    BY <2>3
<1>2. ASSUME NEW n \in 0 .. Digits - 1, n \in S PROVE n + 1 \in S
  <2>1. PICK v : ValueTo(t, n, v)
    BY <1>2
  <2> DEFINE d == t[n + 1]
             last == v[n] * Base + d
             w == [i \in 0 .. n + 1 |-> IF i <= n THEN v[i] ELSE last]
  <2>2. d \in Int /\ v[n] \in Int
    BY <2>1, TokenRange DEF ValueTo
  <2> HIDE DEF d
  <2>3. last \in Int
    BY <2>2, OneMoreDigit
  <2>4. w \in [0 .. n + 1 -> Int] /\ w[0] = 0 /\ w[n + 1] = last /\ \A i \in 0 .. n : w[i] = v[i]
    <3> HIDE DEF last
    <3> QED
      BY <2>1, <2>3 DEF ValueTo
  <2>5. ASSUME NEW i \in 1 .. n + 1 PROVE w[i] = w[i - 1] * Base + t[i]
    <3>1. CASE i <= n
      <4>1. i \in 1 .. n /\ i \in 0 .. n /\ i - 1 \in 0 .. n
        BY <3>1
      <4> HIDE DEF w
      <4> QED
        BY <2>1, <2>4, <4>1 DEF ValueTo
    <3>2. CASE i = n + 1
      <4>1. i - 1 = n /\ n \in 0 .. n
        BY <3>2
      <4> HIDE DEF w
      <4> QED
        BY <2>4, <3>2, <4>1 DEF d
    <3> QED
      BY <3>1, <3>2
  <2> HIDE DEF w
  <2>6. ValueTo(t, n + 1, w)
    BY <2>4, <2>5 DEF ValueTo
  <2>7. n + 1 \in 0 .. Digits
    OBVIOUS
  <2> QED
    BY <2>6, <2>7
<1> HIDE DEF S
<1>3. \A n \in 0 .. Digits : n \in S
  BY <1>1, <1>2, UpTo
<1> QED
  BY <1>3 DEF S

\* parse_order_token_decimal is the last of them.
LEMMA ParseValue ==
    ASSUME NEW t \in Token
    PROVE  \E v : Value(t, v) /\ parse_order_token_decimal(t) = v[Digits]
<1> USE ManagerAssumption
<1> DEFINE Step(v) == [i \in 0 .. Digits |-> IF i = 0 THEN 0 ELSE v[i - 1] * Base + t[i]]
           V == CHOOSE v : v = Step(v)
<1>1. PICK v : ValueTo(t, Digits, v)
  <2>1. Digits \in 0 .. Digits
    OBVIOUS
  <2> QED
    BY <2>1, ValueUpTo
<1>2. v = Step(v)
  BY <1>1 DEF ValueTo
<1>3. V = Step(V)
  BY <1>2
<1>4. parse_order_token_decimal(t) = V[Digits]
  BY DEF parse_order_token_decimal
<1> HIDE DEF V
<1>5. DOMAIN V = 0 .. Digits /\ V[0] = 0 /\ \A i \in 1 .. Digits : V[i] = V[i - 1] * Base + t[i]
  BY <1>3
<1> DEFINE S == {n \in 0 .. Digits : V[n] = v[n]}
<1>6. 0 \in S
  BY <1>1, <1>5 DEF ValueTo
<1>7. ASSUME NEW n \in 0 .. Digits - 1, n \in S PROVE n + 1 \in S
  BY <1>1, <1>5, <1>7 DEF ValueTo
<1> HIDE DEF S
<1>8. \A n \in 0 .. Digits : n \in S
  BY <1>6, <1>7, UpTo
<1>9. V[Digits] = v[Digits]
  BY <1>8 DEF S
<1> QED
  BY <1>1, <1>4, <1>9 DEF Value, ValueTo

\* Only they are.
LEMMA ValueUnique ==
    ASSUME NEW t \in Token, NEW v, NEW w, Value(t, v), Value(t, w)
    PROVE  \A n \in 0 .. Digits : v[n] = w[n]
<1> USE ManagerAssumption
<1> DEFINE S == {n \in 0 .. Digits : v[n] = w[n]}
<1>1. 0 \in S
  BY DEF Value, ValueTo
<1>2. ASSUME NEW n \in 0 .. Digits - 1, n \in S PROVE n + 1 \in S
  BY <1>2 DEF Value, ValueTo
<1> HIDE DEF S
<1>3. \A n \in 0 .. Digits : n \in S
  BY <1>1, <1>2, UpTo
<1> QED
  BY <1>3 DEF S

\* A token spells a number.
LEMMA ParseType ==
    ASSUME NEW t \in Token
    PROVE  parse_order_token_decimal(t) \in Int
<1>1. PICK v : Value(t, v) /\ parse_order_token_decimal(t) = v[Digits]
  BY ParseValue
<1> QED
  BY <1>1, ManagerAssumption DEF Value, ValueTo

\* Tokens that begin with the same digits begin with the same number.
LEMMA SamePrefix ==
    ASSUME NEW s \in Token, NEW t \in Token, NEW v, NEW w, Value(s, v), Value(t, w),
           NEW k \in 0 .. Digits, \A j \in 1 .. k : s[j] = t[j]
    PROVE  \A n \in 0 .. k : v[n] = w[n]
<1> USE ManagerAssumption
<1> DEFINE S == {n \in 0 .. k : v[n] = w[n]}
<1>1. 0 \in S
  BY DEF Value, ValueTo
<1>2. ASSUME NEW n \in 0 .. k - 1, n \in S PROVE n + 1 \in S
  BY <1>2 DEF Value, ValueTo
<1> HIDE DEF S
<1>3. \A n \in 0 .. k : n \in S
  BY <1>1, <1>2, UpTo
<1> QED
  BY <1>3 DEF S

\* No character of s is Base or more larger than that of t.
Below(s, t) == \A i \in 1 .. Digits : s[i] - t[i] <= Base - 1

\* Two numbers stay in order as digits follow that are not Base apart.
LEMMA DigitsFollow ==
    ASSUME NEW s \in Token, NEW t \in Token, NEW v, NEW w, Value(s, v), Value(t, w),
           Below(s, t), NEW k \in 0 .. Digits, v[k] < w[k]
    PROVE  \A n \in k .. Digits : v[n] < w[n]
<1> USE ManagerAssumption
<1> DEFINE S == {n \in 0 .. Digits : n >= k => v[n] < w[n]}
<1>1. 0 \in S
  BY DEF Value, ValueTo
<1>2. ASSUME NEW n \in 0 .. Digits - 1, n \in S PROVE n + 1 \in S
  <2>1. CASE n + 1 > k
    <3> DEFINE a == v[n]
               b == w[n]
               d == s[n + 1]
               e == t[n + 1]
    <3>1. a \in Int /\ b \in Int
      BY DEF Value, ValueTo
    <3>2. d \in Int /\ e \in Int /\ d - e <= Base - 1
      <4>1. n + 1 \in 1 .. Digits
        OBVIOUS
      <4> QED
        BY <4>1, TokenRange DEF Below
    <3>3. a < b
      BY <1>2, <2>1
    <3>4. v[n + 1] = a * Base + d /\ w[n + 1] = b * Base + e
      <4>1. n + 1 \in 1 .. Digits /\ (n + 1) - 1 = n
        OBVIOUS
      <4> QED
        BY <4>1 DEF Value, ValueTo
    <3> HIDE DEF a, b, d, e
    <3>5. a * Base + d < b * Base + e
      BY <3>1, <3>2, <3>3, NextDigit
    <3> QED
      BY <3>4, <3>5
  <2>2. CASE n + 1 <= k
    BY <2>2
  <2> QED
    BY <2>1, <2>2
<1> HIDE DEF S
<1>3. \A n \in 0 .. Digits : n \in S
  BY <1>1, <1>2, UpTo
<1> QED
  BY <1>3 DEF S

----------------------------------------------------------------------------
(* The next token. *)

\* What C++ leaves of a number divided by the base.
LEMMA Divided ==
    ASSUME NEW a \in Int
    PROVE  /\ Quot(a, Base) \in Int /\ Rem(a, Base) \in 1 - Base .. Base - 1
           /\ a = Quot(a, Base) * Base + Rem(a, Base)
           /\ a >= 0 => Quot(a, Base) >= 0 /\ Rem(a, Base) >= 0
           /\ a <= 0 => Quot(a, Base) <= 0 /\ Rem(a, Base) <= 0
<1> USE ManagerAssumption
<1>1. ASSUME NEW b \in Nat
      PROVE  /\ b \div Base \in Nat /\ b % Base \in 0 .. Base - 1
             /\ b = (b \div Base) * Base + (b % Base)
             /\ b = 0 => b \div Base = 0 /\ b % Base = 0
  OBVIOUS
<1>2. CASE a >= 0
  <2>1. a \in Nat /\ Quot(a, Base) = a \div Base /\ Rem(a, Base) = a % Base
    BY <1>2 DEF Quot, Rem
  <2> QED
    BY <1>1, <2>1
<1>3. CASE a < 0
  <2> DEFINE b == -a
             c == b \div Base
             r == b % Base
  <2>1. b \in Nat /\ Quot(a, Base) = -c /\ Rem(a, Base) = -r /\ a = -b
    BY <1>3 DEF Quot, Rem
  <2>2. c \in Nat /\ r \in 0 .. Base - 1 /\ b = c * Base + r
    BY <1>1, <2>1
  <2> HIDE DEF b, c, r
  <2>3. (-c) * Base = -(c * Base) /\ c * Base \in Int
    BY <2>2
  <2>4. a = (-c) * Base + (-r)
    BY <2>1, <2>2, <2>3
  <2> QED
    BY <1>3, <2>1, <2>2, <2>4
<1> QED
  BY <1>2, <1>3

\* What is smaller than the base, and the base itself.
LEMMA SmallRem ==
    /\ \A a \in 1 - Base .. Base - 1 : Rem(a, Base) = a /\ Quot(a, Base) = 0
    /\ Rem(Base, Base) = 0
<1> USE ManagerAssumption
<1>1. \A b \in 0 .. Base - 1 : b % Base = b /\ b \div Base = 0
  OBVIOUS
<1>2. ASSUME NEW a \in 1 - Base .. Base - 1 PROVE Rem(a, Base) = a /\ Quot(a, Base) = 0
  <2>1. CASE a >= 0
    BY <1>1, <2>1 DEF Rem, Quot
  <2>2. CASE a < 0
    <3>1. -a \in 0 .. Base - 1 /\ -(-a) = a
      BY <2>2
    <3>2. (-a) % Base = -a /\ (-a) \div Base = 0
      BY <1>1, <3>1
    <3> QED
      BY <2>2, <3>1, <3>2 DEF Rem, Quot
  <2> QED
    BY <2>1, <2>2
<1>3. Base % Base = 0 /\ Base >= 0
  OBVIOUS
<1> QED
  BY <1>2, <1>3 DEF Rem

\* A digit that receives a carry and is no nine grows by one.
LEMMA DigitGrows ==
    ASSUME NEW t \in Token, NEW i \in 1 .. Digits, carry(t, i) = 1, t[i] # Base - 1
    PROVE  nextToken(t)[i] = t[i] + 1
<1> USE ManagerAssumption
<1>1. t[i] \in 1 - Base .. Base - 1
  BY TokenRange
<1>2. t[i] + 1 \in 1 - Base .. Base - 1
  BY <1>1
<1>3. Rem(t[i] + 1, Base) = t[i] + 1
  BY <1>2, SmallRem
<1> QED
  BY <1>3 DEF nextToken

\* A digit that receives no carry stays.
LEMMA DigitStays ==
    ASSUME NEW t \in Token, NEW i \in 1 .. Digits, carry(t, i) = 0
    PROVE  nextToken(t)[i] = t[i]
<1> USE ManagerAssumption
<1>1. t[i] \in 1 - Base .. Base - 1
  BY TokenRange
<1>2. Rem(t[i], Base) = t[i] /\ t[i] + 0 = t[i]
  BY <1>1, SmallRem
<1> QED
  BY <1>1, <1>2 DEF nextToken

\* A nine that receives a carry becomes a zero.
LEMMA NineTurns ==
    ASSUME NEW t \in Token, NEW i \in 1 .. Digits, carry(t, i) = 1, t[i] = Base - 1
    PROVE  nextToken(t)[i] = 0
<1> USE ManagerAssumption
<1>1. t[i] + 1 = Base
  OBVIOUS
<1> QED
  BY <1>1, SmallRem DEF nextToken

\* A digit is at most one larger than before, and smaller only if it was a nine.
LEMMA DigitRange ==
    ASSUME NEW t \in Token, NEW i \in 1 .. Digits
    PROVE  /\ t[i] \in 1 - Base .. Base - 1 /\ nextToken(t)[i] \in 1 - Base .. Base - 1
           /\ t[i] >= 0 => nextToken(t)[i] >= 0
           /\ t[i] # Base - 1 => nextToken(t)[i] >= t[i]
           /\ t[i] - nextToken(t)[i] <= Base - 1 /\ nextToken(t)[i] - t[i] <= Base - 1
           /\ nextToken(t)[i] > 0 => t[i] > 0 \/ i = Digits \/ t[i + 1] = Base - 1
<1> USE ManagerAssumption
<1>1. t[i] \in 1 - Base .. Base - 1
  BY TokenRange
<1>2. carry(t, i) \in {0, 1}
  BY DEF carry
<1>3. CASE carry(t, i) = 0
  BY <1>1, <1>3, DigitStays
<1>4. CASE carry(t, i) = 1 /\ t[i] = Base - 1
  BY <1>1, <1>4, NineTurns
<1>5. CASE carry(t, i) = 1 /\ t[i] # Base - 1
  <2>1. nextToken(t)[i] = t[i] + 1
    BY <1>5, DigitGrows
  <2>2. i = Digits \/ t[i + 1] = Base - 1
    BY <1>5 DEF carry
  <2> QED
    BY <1>1, <1>5, <2>1, <2>2
<1> QED
  BY <1>2, <1>3, <1>4, <1>5

\* A token is followed by a token: a character grows above '0' only in front of a nine,
\* and what follows a nine is not below '0'.
LEMMA NextTokenType ==
    ASSUME NEW t \in Token
    PROVE  nextToken(t) \in Token
<1> USE ManagerAssumption
<1> DEFINE u == nextToken(t)
<1>1. u \in [1 .. Digits -> 1 - Base .. Base - 1]
  <2>1. \A i \in 1 .. Digits : Rem(t[i] + carry(t, i), Base) \in 1 - Base .. Base - 1
    <3> SUFFICES ASSUME NEW i \in 1 .. Digits PROVE Rem(t[i] + carry(t, i), Base) \in 1 - Base .. Base - 1
      OBVIOUS
    <3>1. u[i] \in 1 - Base .. Base - 1
      BY DigitRange
    <3> QED
      BY <3>1 DEF nextToken
  <2> QED
    BY <2>1 DEF nextToken
<1>2. ASSUME NEW i \in 1 .. Digits, NEW j \in 1 .. Digits, i < j, u[i] > 0 PROVE u[j] >= 0
  <2>1. i # Digits /\ i + 1 \in 1 .. Digits
    BY <1>2
  <2>2. t[i] > 0 \/ t[i + 1] = Base - 1
    BY <1>2, <2>1, DigitRange
  <2>3. t[j] >= 0
    <3>1. CASE t[i] > 0
      BY <1>2, <3>1 DEF Token
    <3>2. CASE t[i + 1] = Base - 1 /\ j = i + 1
      BY <3>2
    <3>3. CASE t[i + 1] = Base - 1 /\ j # i + 1
      <4>1. i + 1 < j /\ t[i + 1] > 0
        BY <1>2, <3>3
      <4> QED
        BY <2>1, <4>1 DEF Token
    <3> QED
      BY <2>2, <3>1, <3>2, <3>3
  <2> QED
    BY <2>3, DigitRange
<1> HIDE DEF u
<1>3. u \in Token
  BY <1>1, <1>2 DEF Token
<1> QED
  BY <1>3 DEF u

\* The characters of a token and the next one are not Base apart.
LEMMA NextIsNear ==
    ASSUME NEW t \in Token
    PROVE  Below(t, nextToken(t)) /\ Below(nextToken(t), t)
BY DigitRange DEF Below

\* The first digit that receives a carry: the digits before it stay, and none of them
\* but the first of all, nor the digit itself unless it is that one, is a nine, which
\* would have passed a carry on.
LEMMA FirstCarry ==
    ASSUME NEW t \in Token
    PROVE  \E i \in 1 .. Digits :
               /\ carry(t, i) = 1
               /\ \A j \in 1 .. i - 1 : nextToken(t)[j] = t[j]
               /\ \A j \in 2 .. i : t[j] # Base - 1
<1> USE ManagerAssumption
<1> DEFINE Carried == {i \in 1 .. Digits : carry(t, i) = 1}
<1>1. Digits \in Carried
  BY DEF carry
<1>2. PICK i \in Carried : \A j \in Carried : ~(j < i)
  <2>1. Carried \subseteq Nat /\ Carried # {}
    BY <1>1
  <2>2. \E x \in Carried : \A y \in Carried : ~(<< y, x >> \in OpToRel(<, Nat))
    BY <2>1, NatLessThanWellFounded, WFMin
  <2> QED
    BY <2>1, <2>2 DEF OpToRel
<1>3. \A j \in 1 .. i - 1 : j \in 1 .. Digits /\ carry(t, j) = 0
  <2>1. \A j \in 1 .. i - 1 : j \in 1 .. Digits /\ j \notin Carried
    BY <1>2
  <2> QED
    BY <2>1 DEF carry
<1>4. \A j \in 2 .. i : t[j] # Base - 1
  <2> SUFFICES ASSUME NEW j \in 2 .. i PROVE t[j] # Base - 1
    OBVIOUS
  <2>1. j - 1 \in 1 .. i - 1 /\ (j - 1) + 1 = j
    BY <1>2
  <2>2. carry(t, j - 1) = 0
    BY <1>3, <2>1
  <2> QED
    BY <2>1, <2>2 DEF carry
<1> QED
  BY <1>2, <1>3, <1>4, DigitStays

\* The first digit that receives a carry grows, unless it is the first of all and a
\* nine: so does the number.
LEMMA NextTokenGrows ==
    ASSUME NEW t \in Token, ~Exhausted(t)
    PROVE  parse_order_token_decimal(t) < parse_order_token_decimal(nextToken(t))
<1> USE ManagerAssumption
<1> DEFINE u == nextToken(t)
<1>1. PICK k \in 1 .. Digits :
          /\ carry(t, k) = 1
          /\ \A j \in 1 .. k - 1 : u[j] = t[j]
          /\ \A j \in 2 .. k : t[j] # Base - 1
  BY FirstCarry
<1>2. t[k] # Base - 1 /\ t[k] \in Int
  BY <1>1, TokenRange DEF Exhausted
<1>3. u[k] = t[k] + 1
  BY <1>1, <1>2, DigitGrows
<1>4. u \in Token /\ Below(t, u)
  BY NextTokenType, NextIsNear
<1> HIDE DEF u
<1>5. PICK v : Value(t, v) /\ parse_order_token_decimal(t) = v[Digits]
  BY ParseValue
<1>6. PICK w : Value(u, w) /\ parse_order_token_decimal(u) = w[Digits]
  BY <1>4, ParseValue
<1>7. v[k] < w[k]
  <2>1. k - 1 \in 0 .. Digits /\ k - 1 \in 0 .. k - 1 /\ \A j \in 1 .. k - 1 : t[j] = u[j]
    BY <1>1
  <2>2. v[k - 1] = w[k - 1]
    BY <1>4, <1>5, <1>6, <2>1, SamePrefix
  <2> DEFINE a == v[k - 1]
  <2>3. a \in Int
    BY <1>5, <2>1 DEF Value, ValueTo
  <2>4. v[k] = a * Base + t[k] /\ w[k] = a * Base + u[k]
    BY <1>5, <1>6, <2>2 DEF Value, ValueTo
  <2> HIDE DEF a
  <2>5. a * Base \in Int
    BY <2>3
  <2> QED
    BY <1>2, <1>3, <2>4, <2>5
<1>8. w[Digits] > v[Digits]
  <2>1. k \in 0 .. Digits /\ Digits \in k .. Digits
    OBVIOUS
  <2>2. \A n \in k .. Digits : v[n] < w[n]
    BY <1>4, <1>5, <1>6, <1>7, <2>1, DigitsFollow
  <2> QED
    BY <2>1, <2>2
<1> QED
  BY <1>5, <1>6, <1>8 DEF u

\* The number after k digits is one larger, and nines follow: it stays one larger.
LEMMA CarryThroughNines ==
    ASSUME NEW t \in Token, NEW u \in Token, NEW v, NEW w, Value(t, v), Value(u, w),
           NEW k \in 1 .. Digits, w[k] = v[k] + 1,
           \A j \in k + 1 .. Digits : t[j] = Base - 1 /\ u[j] = 0
    PROVE  w[Digits] = v[Digits] + 1
<1> USE ManagerAssumption
<1> DEFINE S == {n \in 0 .. Digits : n >= k => w[n] = v[n] + 1}
<1>1. 0 \in S
  OBVIOUS
<1>2. ASSUME NEW n \in 0 .. Digits - 1, n \in S PROVE n + 1 \in S
  <2>1. CASE n + 1 > k
    <3> DEFINE a == v[n]
               b == w[n]
    <3>1. a \in Int /\ b = a + 1
      BY <1>2, <2>1 DEF Value, ValueTo
    <3>2. v[n + 1] = a * Base + t[n + 1] /\ w[n + 1] = b * Base + u[n + 1]
      <4>1. n + 1 \in 1 .. Digits /\ (n + 1) - 1 = n
        OBVIOUS
      <4> QED
        BY <4>1 DEF Value, ValueTo
    <3>3. t[n + 1] = Base - 1 /\ u[n + 1] = 0
      BY <2>1
    <3> HIDE DEF a, b
    <3>4. (a + 1) * Base = a * Base + Base /\ a * Base \in Int
      BY <3>1
    <3>5. b * Base + 0 = (a * Base + (Base - 1)) + 1
      BY <3>1, <3>4
    <3> QED
      BY <3>2, <3>3, <3>5
  <2>2. CASE n + 1 = k
    BY <2>2
  <2>3. CASE n + 1 < k
    BY <2>3
  <2> QED
    BY <2>1, <2>2, <2>3
<1> HIDE DEF S
<1>3. \A n \in 0 .. Digits : n \in S
  BY <1>1, <1>2, UpTo
<1>4. Digits \in S /\ Digits >= k
  BY <1>3
<1> QED
  BY <1>4 DEF S

\* Two numbers at least two apart stay so as digits follow; numbers one apart
\* get there with a digit that does not shrink.
LEMMA TwoApart ==
    ASSUME NEW a \in Int, NEW b \in Int, NEW d \in Int, NEW e \in Int, d - e <= Base - 1,
           a + 2 <= b \/ (a + 1 <= b /\ d <= e)
    PROVE  a * Base + d + 2 <= b * Base + e
<1> USE ManagerAssumption
<1>1. a * Base \in Int /\ b * Base \in Int
  OBVIOUS
<1>2. CASE a + 2 <= b
  <2>1. (a + 2) * Base <= b * Base /\ (a + 2) * Base = a * Base + 2 * Base
    BY <1>2, TimesBase
  <2> QED
    BY <1>1, <2>1
<1>3. CASE a + 1 <= b /\ d <= e
  <2>1. (a + 1) * Base <= b * Base /\ (a + 1) * Base = a * Base + Base
    BY <1>3, TimesBase
  <2> QED
    BY <1>1, <1>3, <2>1
<1> QED
  BY <1>2, <1>3

\* The number after k digits is larger, and one of the digits that follow does not
\* shrink: it ends more than one larger.
LEMMA CarryTooMuch ==
    ASSUME NEW t \in Token, NEW u \in Token, NEW v, NEW w, Value(t, v), Value(u, w),
           Below(t, u), NEW k \in 1 .. Digits, v[k] < w[k],
           NEW m \in k + 1 .. Digits, t[m] <= u[m]
    PROVE  v[Digits] + 2 <= w[Digits]
<1> USE ManagerAssumption
<1> DEFINE S == {n \in 0 .. Digits : n >= m => v[n] + 2 <= w[n]}
<1>1. 0 \in S
  OBVIOUS
<1>2. \A n \in k .. Digits : v[n] < w[n]
  BY DigitsFollow
<1>3. ASSUME NEW n \in 0 .. Digits - 1, n \in S PROVE n + 1 \in S
  <2>1. CASE n + 1 >= m
    <3> DEFINE a == v[n]
               b == w[n]
               d == t[n + 1]
               e == u[n + 1]
    <3>1. a \in Int /\ b \in Int
      <4>1. n \in 0 .. Digits
        OBVIOUS
      <4>2. v \in [0 .. Digits -> Int] /\ w \in [0 .. Digits -> Int]
        BY DEF Value, ValueTo
      <4> QED
        BY ONLY <4>1, <4>2
    <3>2. d \in Int /\ e \in Int /\ d - e <= Base - 1
      <4>1. n + 1 \in 1 .. Digits
        OBVIOUS
      <4> QED
        BY <4>1, TokenRange DEF Below
    <3>3. v[n + 1] = a * Base + d /\ w[n + 1] = b * Base + e
      <4>1. n + 1 \in 1 .. Digits /\ (n + 1) - 1 = n
        OBVIOUS
      <4> QED
        BY <4>1 DEF Value, ValueTo
    <3>4. a < b
      BY <1>2, <2>1
    <3>5. n + 1 > m => a + 2 <= b
      BY <1>3
    <3>6. n + 1 = m => d <= e
      OBVIOUS
    <3> HIDE DEF a, b, d, e
    <3>7. a + 2 <= b \/ (a + 1 <= b /\ d <= e)
      BY <2>1, <3>1, <3>4, <3>5, <3>6
    <3>8. a * Base + d + 2 <= b * Base + e
      BY <3>1, <3>2, <3>7, TwoApart
    <3> QED
      BY <3>3, <3>8
  <2>2. CASE n + 1 < m
    BY <2>2
  <2> QED
    BY <2>1, <2>2
<1> HIDE DEF S
<1>4. \A n \in 0 .. Digits : n \in S
  BY <1>1, <1>3, UpTo
<1>5. Digits \in S /\ Digits >= m
  BY <1>4
<1> QED
  BY <1>5 DEF S

----------------------------------------------------------------------------
(* Tokens of digits only, and their order. *)

\* No character is below '0'.
Natural(t) == \A i \in 1 .. Digits : t[i] >= 0

\* A character below '0' makes the number negative.
LEMMA NaturalIndex ==
    ASSUME NEW t \in Token, parse_order_token_decimal(t) >= 0
    PROVE  Natural(t)
<1> USE ManagerAssumption
<1> DEFINE Negative == {i \in 1 .. Digits : t[i] < 0}
<1>1. PICK v : Value(t, v) /\ parse_order_token_decimal(t) = v[Digits]
  BY ParseValue
<1>2. ASSUME Negative # {} PROVE FALSE
  <2>1. PICK k \in Negative : \A j \in Negative : ~(j < k)
    <3>1. Negative \subseteq Nat
      OBVIOUS
    <3>2. \E x \in Negative : \A y \in Negative : ~(<< y, x >> \in OpToRel(<, Nat))
      BY <1>2, <3>1, NatLessThanWellFounded, WFMin
    <3> QED
      BY <3>1, <3>2 DEF OpToRel
  <2>2. k \in 1 .. Digits /\ t[k] < 0 /\ t[k] \in Int
    BY <2>1, TokenRange
  <2>3. \A j \in 1 .. k - 1 : t[j] = 0
    <3> SUFFICES ASSUME NEW j \in 1 .. k - 1 PROVE t[j] = 0
      OBVIOUS
    <3>1. j \in 1 .. Digits /\ j < k /\ t[j] \in Int
      BY <2>2, TokenRange
    <3>2. t[j] >= 0
      BY <2>1, <3>1
    <3>3. ~(t[j] > 0)
      BY <2>2, <3>1 DEF Token
    <3> QED
      BY <3>1, <3>2, <3>3
  <2> DEFINE S == {n \in 0 .. Digits : (n < k => v[n] = 0) /\ (n >= k => v[n] < 0)}
  <2>4. 0 \in S
    BY <1>1, <2>2 DEF Value, ValueTo
  <2>5. ASSUME NEW n \in 0 .. Digits - 1, n \in S PROVE n + 1 \in S
    <3> DEFINE a == v[n]
               d == t[n + 1]
    <3>1. n + 1 \in 1 .. Digits /\ (n + 1) - 1 = n /\ n + 1 \in 0 .. Digits /\ n \in 0 .. Digits
      OBVIOUS
    <3>2. v[n + 1] = a * Base + d /\ a \in Int /\ d \in 1 - Base .. Base - 1
      BY <1>1, <3>1, TokenRange DEF Value, ValueTo
    <3>3. (n < k => a = 0) /\ (n >= k => a < 0) /\ (n + 1 < k => d = 0) /\ (n + 1 = k => d < 0)
      BY <2>2, <2>3, <2>5, <3>1
    <3> HIDE DEF a, d
    <3>4. CASE n >= k
      <4>1. a * Base <= (-1) * Base
        <5>1. a <= -1
          BY <3>2, <3>3, <3>4
        <5> QED
          BY <3>2, <5>1, TimesBase
      <4>2. a * Base \in Int /\ (-1) * Base = -Base
        BY <3>2
      <4>3. v[n + 1] < 0
        BY <3>2, <4>1, <4>2
      <4> QED
        BY <2>2, <3>1, <3>4, <4>3
    <3>5. CASE n < k
      <4>1. a * Base = 0
        BY <3>3, <3>5
      <4>2. v[n + 1] = d
        BY <3>2, <4>1
      <4> QED
        BY <2>2, <3>1, <3>3, <3>5, <4>2
    <3> QED
      BY <2>2, <3>4, <3>5
  <2> HIDE DEF S
  <2>6. \A n \in 0 .. Digits : n \in S
    BY <2>4, <2>5, UpTo
  <2>7. v[Digits] < 0
    BY <2>2, <2>6 DEF S
  <2>8. v[Digits] \in Int
    BY <1>1 DEF Value, ValueTo
  <2> QED
    BY <1>1, <2>7, <2>8
<1>3. \A i \in 1 .. Digits : t[i] \in Int /\ ~(t[i] < 0)
  BY <1>2, TokenRange
<1> QED
  BY <1>3 DEF Natural

\* Tokens of digits are compared by the first digit that differs.
Less(s, t) ==
    \E i \in 1 .. Digits : s[i] < t[i] /\ \A j \in 1 .. i - 1 : s[j] = t[j]

\* They are ordered like the numbers they spell.
LEMMA LessIsLess ==
    ASSUME NEW s \in Token, NEW t \in Token, Natural(s), Natural(t), Less(s, t)
    PROVE  parse_order_token_decimal(s) < parse_order_token_decimal(t)
<1> USE ManagerAssumption
<1>1. PICK v : Value(s, v) /\ parse_order_token_decimal(s) = v[Digits]
  BY ParseValue
<1>2. PICK w : Value(t, w) /\ parse_order_token_decimal(t) = w[Digits]
  BY ParseValue
<1>3. PICK k \in 1 .. Digits : s[k] < t[k] /\ \A j \in 1 .. k - 1 : s[j] = t[j]
  BY DEF Less
<1>4. v[k - 1] = w[k - 1]
  BY <1>1, <1>2, <1>3, SamePrefix
<1>5. v[k] < w[k]
  <2> DEFINE a == v[k - 1]
             d == s[k]
             e == t[k]
  <2>1. a \in Int /\ d \in Int /\ e \in Int /\ d < e
    <3>1. k - 1 \in 0 .. Digits
      OBVIOUS
    <3> QED
      BY <1>1, <1>3, <3>1, TokenRange DEF Value, ValueTo
  <2>2. v[k] = a * Base + d /\ w[k] = a * Base + e
    BY <1>1, <1>2, <1>4 DEF Value, ValueTo
  <2> HIDE DEF a, d, e
  <2>3. a * Base \in Int
    BY <2>1
  <2> QED
    BY <2>1, <2>2, <2>3
<1>6. Below(s, t)
  <2> SUFFICES ASSUME NEW i \in 1 .. Digits PROVE s[i] - t[i] <= Base - 1
    BY DEF Below
  <2>1. s[i] \in 1 - Base .. Base - 1 /\ t[i] \in Int /\ t[i] >= 0
    BY TokenRange DEF Natural
  <2> QED
    BY <2>1
<1>7. k \in 0 .. Digits /\ Digits \in k .. Digits
  OBVIOUS
<1>8. \A n \in k .. Digits : v[n] < w[n]
  BY <1>1, <1>2, <1>5, <1>6, <1>7, DigitsFollow
<1> QED
  BY <1>1, <1>2, <1>7, <1>8

\* A token is smaller than another one, or larger, or the same.
LEMMA LessTotal ==
    ASSUME NEW s \in Token, NEW t \in Token, s # t
    PROVE  Less(s, t) \/ Less(t, s)
<1> USE ManagerAssumption
<1> DEFINE Differ == {i \in 1 .. Digits : s[i] # t[i]}
<1>1. Differ # {}
  <2>1. s \in [1 .. Digits -> 1 - Base .. Base - 1] /\ t \in [1 .. Digits -> 1 - Base .. Base - 1]
    BY TokenRange
  <2>2. ASSUME \A i \in 1 .. Digits : s[i] = t[i] PROVE FALSE
    <3>1. s = [i \in 1 .. Digits |-> s[i]] /\ t = [i \in 1 .. Digits |-> t[i]]
      BY <2>1
    <3> QED
      BY <2>2, <3>1
  <2> QED
    BY <2>2
<1>2. PICK i \in Differ : \A j \in Differ : ~(j < i)
  <2>1. Differ \subseteq Nat
    OBVIOUS
  <2>2. \E x \in Differ : \A y \in Differ : ~(<< y, x >> \in OpToRel(<, Nat))
    BY <1>1, <2>1, NatLessThanWellFounded, WFMin
  <2> QED
    BY <2>1, <2>2 DEF OpToRel
<1>3. \A j \in 1 .. i - 1 : s[j] = t[j] /\ t[j] = s[j]
  <2>1. \A j \in 1 .. i - 1 : j \in 1 .. Digits /\ j \notin Differ
    BY <1>2
  <2> QED
    BY <2>1
<1>4. s[i] \in Int /\ t[i] \in Int /\ s[i] # t[i] /\ i \in 1 .. Digits
  BY <1>2, TokenRange
<1>5. s[i] < t[i] \/ t[i] < s[i]
  BY <1>4
<1> QED
  BY <1>3, <1>4, <1>5 DEF Less

\* A number that is not negative is spelled by one token only.
LEMMA SpelledOnce ==
    ASSUME NEW s \in Token, NEW t \in Token, parse_order_token_decimal(s) >= 0,
           parse_order_token_decimal(s) = parse_order_token_decimal(t)
    PROVE  s = t
<1>1. Natural(s) /\ Natural(t)
  BY NaturalIndex
<1>2. parse_order_token_decimal(s) \in Int /\ parse_order_token_decimal(t) \in Int
  BY ParseType
<1>3. ~Less(s, t) /\ ~Less(t, s)
  BY <1>1, <1>2, LessIsLess
<1> QED
  BY <1>3, LessTotal

----------------------------------------------------------------------------
(* The first token. *)

\* The quotients the constructor's loop goes through.
QuotientTo(a, n, q) ==
    /\ q \in [0 .. n -> Int]
    /\ q[0] = a
    /\ \A i \in 1 .. n : q[i] = Quot(q[i - 1], Base)

\* They exist.
LEMMA QuotientUpTo ==
    ASSUME NEW a \in Int
    PROVE  \A n \in 0 .. Digits : \E q : QuotientTo(a, n, q)
<1> USE ManagerAssumption
<1> DEFINE S == {n \in 0 .. Digits : \E q : QuotientTo(a, n, q)}
<1>1. 0 \in S
  <2> DEFINE q == [i \in 0 .. 0 |-> a]
  <2>1. q \in [0 .. 0 -> Int] /\ q[0] = a
    OBVIOUS
  <2>2. \A i \in 1 .. 0 : q[i] = Quot(q[i - 1], Base)
    OBVIOUS
  <2> HIDE DEF q
  <2>3. QuotientTo(a, 0, q)
    BY <2>1, <2>2 DEF QuotientTo
  <2> QED
    BY <2>3
<1>2. ASSUME NEW n \in 0 .. Digits - 1, n \in S PROVE n + 1 \in S
  <2>1. PICK q : QuotientTo(a, n, q)
    BY <1>2
  <2> DEFINE last == Quot(q[n], Base)
             r == [i \in 0 .. n + 1 |-> IF i <= n THEN q[i] ELSE last]
  <2>2. q[n] \in Int
    BY <2>1 DEF QuotientTo
  <2>3. last \in Int
    BY <2>2, Divided
  <2>4. r \in [0 .. n + 1 -> Int] /\ r[0] = a /\ r[n + 1] = last /\ \A i \in 0 .. n : r[i] = q[i]
    <3> HIDE DEF last
    <3> QED
      BY <2>1, <2>3 DEF QuotientTo
  <2>5. ASSUME NEW i \in 1 .. n + 1 PROVE r[i] = Quot(r[i - 1], Base)
    <3>1. CASE i <= n
      <4>1. i \in 1 .. n /\ i \in 0 .. n /\ i - 1 \in 0 .. n
        BY <3>1
      <4> HIDE DEF r
      <4> QED
        BY <2>1, <2>4, <4>1 DEF QuotientTo
    <3>2. CASE i = n + 1
      <4>1. i - 1 = n /\ n \in 0 .. n
        BY <3>2
      <4> HIDE DEF r
      <4> QED
        BY <2>4, <3>2, <4>1
    <3> QED
      BY <3>1, <3>2
  <2> HIDE DEF r
  <2>6. QuotientTo(a, n + 1, r)
    BY <2>4, <2>5 DEF QuotientTo
  <2>7. n + 1 \in 0 .. Digits
    OBVIOUS
  <2> QED
    BY <2>6, <2>7
<1> HIDE DEF S
<1>3. \A n \in 0 .. Digits : n \in S
  BY <1>1, <1>2, UpTo
<1> QED
  BY <1>3 DEF S

\* The int the constructor starts with.
StartOf(a) == asInt((a + 1) % SaveMod)

\* It is an int.
LEMMA StartRange ==
    ASSUME NEW a \in Nat
    PROVE  StartOf(a) \in Int /\ IntMin <= StartOf(a) /\ StartOf(a) <= IntMax
<1> USE WidthAssumption
<1> DEFINE u == (a + 1) % SaveMod
           h == SaveMod \div 2
<1>1. u \in Int /\ 0 <= u /\ u < SaveMod
  OBVIOUS
<1>2. h \in Int /\ 1 <= h /\ 2 * h <= SaveMod
  OBVIOUS
<1>3. IntMax = h - 1 /\ IntMin = h - SaveMod
  BY DEF IntMax, IntMin
<1>4. StartOf(a) = IF u <= IntMax THEN u ELSE u - SaveMod
  BY DEF StartOf, asInt
<1> HIDE DEF u, h
<1> QED
  BY <1>1, <1>2, <1>3, <1>4

\* What an int can hold is saved and read back, one larger.
LEMMA StartFollows ==
    ASSUME NEW p \in Int, IntMin <= p + 1, p + 1 <= IntMax
    PROVE  p % SaveMod \in Nat /\ StartOf((p % SaveMod) % SaveMod) = p + 1
<1> USE WidthAssumption
<1> DEFINE h == SaveMod \div 2
<1>1. h \in Int /\ 1 <= h /\ 2 * h <= SaveMod
  OBVIOUS
<1>2. IntMax = h - 1 /\ IntMin = h - SaveMod
  BY DEF IntMax, IntMin
<1> HIDE DEF h
<1>3. \A x \in 0 .. SaveMod - 1 : x % SaveMod = x
  OBVIOUS
<1>4. SaveMod % SaveMod = 0
  OBVIOUS
<1>5. CASE p >= 0
  <2>1. p \in 0 .. SaveMod - 1 /\ p + 1 \in 0 .. SaveMod - 1
    BY <1>1, <1>2, <1>5
  <2>2. p % SaveMod = p /\ (p + 1) % SaveMod = p + 1
    BY <1>3, <2>1
  <2> QED
    BY <1>5, <2>2 DEF StartOf, asInt
<1>6. CASE p < 0
  <2>1. p + SaveMod \in 0 .. SaveMod - 1 /\ p + SaveMod + 1 \in 0 .. SaveMod
    BY <1>1, <1>2, <1>6
  <2>2. p % SaveMod = p + SaveMod
    <3>1. \A x \in 0 .. SaveMod - 1 : (x - SaveMod) % SaveMod = x
      OBVIOUS
    <3>2. (p + SaveMod) - SaveMod = p
      OBVIOUS
    <3> QED
      BY <2>1, <3>1, <3>2
  <2>3. (p % SaveMod) % SaveMod = p + SaveMod
    BY <1>3, <2>1, <2>2
  <2>4. CASE p = -1
    <3>1. p + SaveMod + 1 = SaveMod
      BY <2>4
    <3>2. StartOf((p % SaveMod) % SaveMod) = asInt(0)
      BY <1>4, <2>3, <3>1 DEF StartOf
    <3> QED
      BY <1>1, <1>2, <2>1, <2>2, <2>4, <3>2 DEF asInt
  <2>5. CASE p < -1
    <3>1. p + SaveMod + 1 \in 0 .. SaveMod - 1
      BY <2>1, <2>5
    <3>2. (p + SaveMod + 1) % SaveMod = p + SaveMod + 1
      BY <1>3, <3>1
    <3>3. StartOf((p % SaveMod) % SaveMod) = asInt(p + SaveMod + 1)
      BY <2>3, <3>2 DEF StartOf
    <3>4. ~(p + SaveMod + 1 <= IntMax)
      BY <1>1, <1>2
    <3> QED
      BY <2>1, <2>2, <3>3, <3>4 DEF asInt
  <2> QED
    BY <1>6, <2>4, <2>5
<1> QED
  BY <1>5, <1>6

\* The constructor's token has the remainders as characters, the last one first.
LEMMA FirstTokenDigits ==
    ASSUME NEW a \in Nat
    PROVE  \E q : /\ QuotientTo(StartOf(a), Digits, q)
                  /\ firstToken(a) = [i \in 1 .. Digits |-> Rem(q[Digits - i], Base)]
<1> USE ManagerAssumption
<1> DEFINE start == StartOf(a)
           Step(q) == [i \in 0 .. Digits |-> IF i = 0 THEN start ELSE Quot(q[i - 1], Base)]
           Q == CHOOSE q : q = Step(q)
<1>1. PICK q : QuotientTo(start, Digits, q)
  <2>1. Digits \in 0 .. Digits /\ start \in Int
    BY StartRange
  <2> QED
    BY <2>1, QuotientUpTo
<1>2. q = Step(q)
  <2> HIDE DEF start
  <2> QED
    BY <1>1 DEF QuotientTo
<1>3. Q = Step(Q)
  BY <1>2
<1>4. firstToken(a) = [i \in 1 .. Digits |-> Rem(Q[Digits - i], Base)]
  BY DEF firstToken, StartOf
<1> HIDE DEF Q, start
<1>5. DOMAIN Q = 0 .. Digits /\ Q[0] = start /\ \A i \in 1 .. Digits : Q[i] = Quot(Q[i - 1], Base)
  BY <1>3
<1> DEFINE S == {n \in 0 .. Digits : Q[n] = q[n]}
<1>6. 0 \in S
  BY <1>1, <1>5 DEF QuotientTo
<1>7. ASSUME NEW n \in 0 .. Digits - 1, n \in S PROVE n + 1 \in S
  <2>1. n + 1 \in 1 .. Digits /\ (n + 1) - 1 = n
    OBVIOUS
  <2> QED
    BY <1>1, <1>5, <1>7, <2>1 DEF QuotientTo
<1> HIDE DEF S
<1>8. \A n \in 0 .. Digits : n \in S
  BY <1>6, <1>7, UpTo
<1>9. \A n \in 0 .. Digits : Q[n] = q[n]
  BY <1>8 DEF S
<1>10. \A i \in 1 .. Digits : Digits - i \in 0 .. Digits
  OBVIOUS
<1> QED
  BY <1>1, <1>4, <1>9, <1>10 DEF start

\* It is a token: its characters are all digits, or all minus digits.
LEMMA FirstTokenType ==
    ASSUME NEW a \in Nat
    PROVE  firstToken(a) \in Token
<1> USE ManagerAssumption
<1>1. PICK q : /\ QuotientTo(StartOf(a), Digits, q)
               /\ firstToken(a) = [i \in 1 .. Digits |-> Rem(q[Digits - i], Base)]
  BY FirstTokenDigits
<1>2. StartOf(a) \in Int /\ q[0] = StartOf(a) /\ \A n \in 0 .. Digits : q[n] \in Int
  BY <1>1, StartRange DEF QuotientTo
<1> DEFINE S == {n \in 0 .. Digits : (q[0] >= 0 => q[n] >= 0) /\ (q[0] <= 0 => q[n] <= 0)}
<1>3. 0 \in S
  OBVIOUS
<1>4. ASSUME NEW n \in 0 .. Digits - 1, n \in S PROVE n + 1 \in S
  <2>1. n + 1 \in 1 .. Digits /\ (n + 1) - 1 = n /\ n \in 0 .. Digits /\ n + 1 \in 0 .. Digits
    OBVIOUS
  <2>2. q[n + 1] = Quot(q[n], Base) /\ q[n] \in Int
    BY <1>1, <1>2, <2>1 DEF QuotientTo
  <2>3. (q[n] >= 0 => q[n + 1] >= 0) /\ (q[n] <= 0 => q[n + 1] <= 0)
    BY <2>2, Divided
  <2> QED
    BY <1>4, <2>1, <2>3
<1> HIDE DEF S
<1>5. \A n \in 0 .. Digits : n \in S
  BY <1>3, <1>4, UpTo
<1>6. ASSUME NEW i \in 1 .. Digits
      PROVE  /\ Rem(q[Digits - i], Base) \in 1 - Base .. Base - 1
             /\ q[0] >= 0 => Rem(q[Digits - i], Base) >= 0
             /\ q[0] <= 0 => Rem(q[Digits - i], Base) <= 0
  <2>1. Digits - i \in 0 .. Digits /\ q[Digits - i] \in Int
    BY <1>2
  <2>2. (q[0] >= 0 => q[Digits - i] >= 0) /\ (q[0] <= 0 => q[Digits - i] <= 0)
    BY <1>5, <2>1 DEF S
  <2> QED
    BY <2>1, <2>2, Divided
<1> DEFINE u == firstToken(a)
<1>7. u \in [1 .. Digits -> 1 - Base .. Base - 1]
  BY <1>1, <1>6
<1>8. ASSUME NEW i \in 1 .. Digits, NEW j \in 1 .. Digits, u[i] > 0 PROVE u[j] >= 0
  <2>1. u[i] = Rem(q[Digits - i], Base) /\ u[j] = Rem(q[Digits - j], Base)
    BY <1>1
  <2>2. ~(q[0] <= 0)
    BY <1>6, <1>7, <1>8, <2>1
  <2> QED
    BY <1>2, <1>6, <2>1, <2>2
<1> HIDE DEF u
<1>9. u \in Token
  BY <1>7, <1>8 DEF Token
<1> QED
  BY <1>9 DEF u

\* The smallest token that begins with a nine.
LEMMA SmallestIsToken == SmallestExhausted \in Token /\ SmallestExhausted[1] = Base - 1
BY ManagerAssumption DEF SmallestExhausted, Token

\* The quotients are bounded by what a token that begins with a nine spells.
LEMMA QuotientBound ==
    ASSUME NEW x \in Int, NEW y \in Int, NEW d \in 0 .. Base - 1, y >= 0,
           -(y * Base + d) <= x, x <= y * Base + d
    PROVE  -y <= Quot(x, Base) /\ Quot(x, Base) <= y
<1> USE ManagerAssumption
<1> DEFINE c == Quot(x, Base)
           r == Rem(x, Base)
<1>1. /\ c \in Int /\ r \in 1 - Base .. Base - 1 /\ x = c * Base + r
      /\ x >= 0 => c >= 0 /\ r >= 0
      /\ x <= 0 => c <= 0 /\ r <= 0
  BY Divided
<1> HIDE DEF c, r
<1>2. c * Base \in Int /\ y * Base \in Int /\ (y + 1) * Base = y * Base + Base
      /\ (-(y + 1)) * Base = -(y * Base) - Base
  BY <1>1
<1>3. ASSUME c > y PROVE FALSE
  <2>1. (y + 1) * Base <= c * Base
    BY <1>1, <1>3, TimesBase
  <2>2. x >= 0 /\ r >= 0
    BY <1>1, <1>3
  <2> QED
    BY <1>1, <1>2, <2>1, <2>2
<1>4. ASSUME c < -y PROVE FALSE
  <2>1. c * Base <= (-(y + 1)) * Base
    BY <1>1, <1>4, TimesBase
  <2>2. x <= 0 /\ r <= 0
    BY <1>1, <1>4
  <2> QED
    BY <1>1, <1>2, <2>1, <2>2
<1> QED
  BY <1>1, <1>3, <1>4 DEF c

\* The constructor's token spells its int, and does not begin with a nine.
LEMMA FirstTokenSpells ==
    ASSUME NEW a \in Nat
    PROVE  parse_order_token_decimal(firstToken(a)) = StartOf(a) /\ ~Exhausted(firstToken(a))
<1> USE ManagerAssumption
<1> DEFINE u == firstToken(a)
           start == StartOf(a)
           e == SmallestExhausted
<1>1. PICK v : Value(e, v) /\ parse_order_token_decimal(e) = v[Digits]
  BY SmallestIsToken, ParseValue
<1>2. start \in Int /\ -v[Digits] < start /\ start < v[Digits] /\ v[Digits] \in Int
  <2>1. v[Digits] \in Int /\ -IntMin < v[Digits]
    BY <1>1, TokenHoldsInt DEF Value, ValueTo
  <2>2. start \in Int /\ IntMin <= start /\ start <= IntMax
    BY StartRange
  <2>3. IntMin \in Int /\ IntMax \in Int /\ IntMax < -IntMin
    <3> USE WidthAssumption
    <3> DEFINE h == SaveMod \div 2
    <3>1. h \in Int /\ 1 <= h /\ 2 * h <= SaveMod
      OBVIOUS
    <3>2. IntMax = h - 1 /\ IntMin = h - SaveMod
      BY DEF IntMax, IntMin
    <3> HIDE DEF h
    <3> QED
      BY <3>1, <3>2
  <2> HIDE DEF start
  <2> QED
    BY <2>1, <2>2, <2>3
<1>3. PICK q : QuotientTo(start, Digits, q) /\ u = [i \in 1 .. Digits |-> Rem(q[Digits - i], Base)]
  BY FirstTokenDigits
<1>4. u \in Token /\ e \in Token /\ e[1] = Base - 1 /\ \A i \in 1 .. Digits : e[i] \in 0 .. Base - 1
  BY FirstTokenType, SmallestIsToken DEF SmallestExhausted
<1>5. \A i \in 2 .. Digits : e[i] = 0
  BY DEF SmallestExhausted
<1> HIDE DEF u, start, e
<1>6. \A n \in 0 .. Digits : q[n] \in Int /\ v[n] \in Int
  BY <1>1, <1>3 DEF QuotientTo, Value, ValueTo
<1>7. \A n \in 0 .. Digits : v[n] >= 0
  <2> DEFINE S == {n \in 0 .. Digits : v[n] >= 0}
  <2>1. 0 \in S
    BY <1>1 DEF Value, ValueTo
  <2>2. ASSUME NEW n \in 0 .. Digits - 1, n \in S PROVE n + 1 \in S
    <3> DEFINE x == v[n]
               d == e[n + 1]
    <3>1. n + 1 \in 1 .. Digits /\ (n + 1) - 1 = n /\ n \in 0 .. Digits /\ n + 1 \in 0 .. Digits
      OBVIOUS
    <3>2. v[n + 1] = x * Base + d /\ x \in Int /\ x >= 0 /\ d \in 0 .. Base - 1
      BY <1>1, <1>4, <1>6, <2>2, <3>1 DEF Value, ValueTo
    <3> HIDE DEF x, d
    <3>3. x * Base >= 0
      BY <3>2
    <3>4. v[n + 1] >= 0
      BY <3>2, <3>3
    <3> QED
      BY <3>1, <3>4
  <2> HIDE DEF S
  <2>3. \A n \in 0 .. Digits : n \in S
    BY <2>1, <2>2, UpTo
  <2> QED
    BY <2>3 DEF S
<1>8. \A n \in 0 .. Digits - 1 : -v[Digits - n] <= q[n] /\ q[n] <= v[Digits - n]
  <2> DEFINE S == {n \in 0 .. Digits - 1 : -v[Digits - n] <= q[n] /\ q[n] <= v[Digits - n]}
  <2>1. 0 \in S
    BY <1>2, <1>3 DEF QuotientTo
  <2>2. ASSUME NEW n \in 0 .. (Digits - 1) - 1, n \in S PROVE n + 1 \in S
    <3> DEFINE x == q[n]
               y == v[Digits - n - 1]
               d == e[Digits - n]
    <3>1. x \in Int /\ y \in Int /\ y >= 0 /\ d \in 0 .. Base - 1
      <4>1. n \in 0 .. Digits /\ Digits - n - 1 \in 0 .. Digits /\ Digits - n \in 1 .. Digits
        OBVIOUS
      <4> QED
        BY <1>4, <1>6, <1>7, <4>1
    <3>2. -(y * Base + d) <= x /\ x <= y * Base + d
      <4>1. Digits - n \in 1 .. Digits /\ (Digits - n) - 1 = Digits - n - 1
        OBVIOUS
      <4>2. v[Digits - n] = y * Base + d
        BY <1>1, <4>1 DEF Value, ValueTo
      <4> QED
        BY <2>2, <4>2
    <3>3. q[n + 1] = Quot(x, Base) /\ Digits - (n + 1) = Digits - n - 1 /\ n + 1 \in 0 .. Digits - 1
      <4>1. n + 1 \in 1 .. Digits /\ (n + 1) - 1 = n
        OBVIOUS
      <4> QED
        BY <1>3, <4>1 DEF QuotientTo
    <3> HIDE DEF x, y, d
    <3>4. -y <= Quot(x, Base) /\ Quot(x, Base) <= y
      BY <3>1, <3>2, QuotientBound
    <3> QED
      BY <3>3, <3>4 DEF y
  <2> HIDE DEF S
  <2>3. \A n \in 0 .. Digits - 1 : n \in S
    BY <2>1, <2>2, UpTo
  <2> QED
    BY <2>3 DEF S
<1>9. q[Digits] = 0
  <2>1. -v[1] <= q[Digits - 1] /\ q[Digits - 1] <= v[1] /\ v[1] = 0 * Base + e[1]
    <3>1. Digits - 1 \in 0 .. Digits - 1 /\ Digits - (Digits - 1) = 1 /\ 1 \in 1 .. Digits /\ 1 - 1 = 0
      OBVIOUS
    <3> QED
      BY <1>1, <1>8, <3>1 DEF Value, ValueTo
  <2>2. q[Digits - 1] \in 1 - Base .. Base - 1
    BY <1>4, <1>6, <2>1
  <2>3. q[Digits] = Quot(q[Digits - 1], Base)
    <3>1. Digits \in 1 .. Digits
      OBVIOUS
    <3> QED
      BY <1>3, <3>1 DEF QuotientTo
  <2> QED
    BY <2>2, <2>3, SmallRem
<1> DEFINE w == [i \in 0 .. Digits |-> q[Digits - i]]
<1>10. Value(u, w)
  <2>1. w \in [0 .. Digits -> Int] /\ w[0] = 0
    BY <1>6, <1>9
  <2>2. ASSUME NEW i \in 1 .. Digits PROVE w[i] = w[i - 1] * Base + u[i]
    <3>1. /\ Digits - i \in 0 .. Digits /\ Digits - (i - 1) \in 1 .. Digits
          /\ (Digits - (i - 1)) - 1 = Digits - i /\ i - 1 \in 0 .. Digits
      OBVIOUS
    <3>2. q[Digits - (i - 1)] = Quot(q[Digits - i], Base)
      BY <1>3, <3>1 DEF QuotientTo
    <3>3. q[Digits - i] = Quot(q[Digits - i], Base) * Base + Rem(q[Digits - i], Base)
      BY <1>6, <3>1, Divided
    <3>4. w[i] = q[Digits - i] /\ w[i - 1] = q[Digits - (i - 1)] /\ u[i] = Rem(q[Digits - i], Base)
      BY <1>3, <3>1
    <3> HIDE DEF w
    <3> QED
      BY <3>2, <3>3, <3>4
  <2> HIDE DEF w
  <2> QED
    BY <2>1, <2>2 DEF Value, ValueTo
<1>11. w[Digits] = start
  BY <1>3 DEF QuotientTo
<1> HIDE DEF w
<1>12. PICK x : Value(u, x) /\ parse_order_token_decimal(u) = x[Digits]
  BY <1>4, ParseValue
<1>13. x[Digits] = w[Digits]
  <2>1. Digits \in 0 .. Digits
    OBVIOUS
  <2> QED
    BY <1>4, <1>10, <1>12, <2>1, ValueUnique
<1>14. ASSUME u[1] = Base - 1 PROVE FALSE
  <2>1. \A i \in 1 .. Digits : u[i] \in Int /\ u[i] >= e[i]
    <3> SUFFICES ASSUME NEW i \in 1 .. Digits PROVE u[i] \in Int /\ u[i] >= e[i]
      OBVIOUS
    <3>1. u[i] \in Int /\ 1 \in 1 .. Digits
      BY <1>4, TokenRange
    <3>2. CASE i = 1
      BY <1>4, <1>14, <3>1, <3>2
    <3>3. CASE i # 1
      <4>1. 1 < i /\ u[1] > 0
        BY <1>14, <3>3
      <4>2. u[i] >= 0
        BY <1>4, <3>1, <4>1 DEF Token
      <4> QED
        BY <1>5, <3>1, <3>3, <4>2
    <3> QED
      BY <3>2, <3>3
  <2> DEFINE S == {n \in 0 .. Digits : v[n] <= w[n]}
  <2>2. \A n \in 0 .. Digits : w[n] \in Int
    BY <1>10 DEF Value, ValueTo
  <2>3. 0 \in S
    BY <1>1, <1>10 DEF Value, ValueTo
  <2>4. ASSUME NEW n \in 0 .. Digits - 1, n \in S PROVE n + 1 \in S
    <3> DEFINE x1 == v[n]
               y1 == w[n]
               d1 == e[n + 1]
               d2 == u[n + 1]
    <3>1. n + 1 \in 1 .. Digits /\ (n + 1) - 1 = n /\ n \in 0 .. Digits /\ n + 1 \in 0 .. Digits
      OBVIOUS
    <3>2. v[n + 1] = x1 * Base + d1 /\ w[n + 1] = y1 * Base + d2
      BY <1>1, <1>10, <3>1 DEF Value, ValueTo
    <3>3. x1 \in Int /\ y1 \in Int /\ x1 <= y1 /\ d1 \in Int /\ d2 \in Int /\ d1 <= d2
      BY <1>4, <1>6, <2>1, <2>2, <2>4, <3>1
    <3> HIDE DEF x1, y1, d1, d2
    <3>4. x1 * Base <= y1 * Base /\ x1 * Base \in Int /\ y1 * Base \in Int
      BY <3>3, TimesBase
    <3>5. v[n + 1] <= w[n + 1]
      BY <3>2, <3>3, <3>4
    <3> QED
      BY <3>1, <3>5
  <2> HIDE DEF S
  <2>5. \A n \in 0 .. Digits : n \in S
    BY <2>3, <2>4, UpTo
  <2>6. v[Digits] <= w[Digits]
    BY <2>5 DEF S
  <2> QED
    BY <1>2, <1>11, <2>6
<1> QED
  BY <1>11, <1>12, <1>13, <1>14 DEF u, start, Exhausted

----------------------------------------------------------------------------
(* nextToken called again and again. *)

\* The increment is exact without an inner nine, and only then.
LEMMA ExactIff ==
    ASSUME NEW t \in Token, \E i \in 1 .. Digits : t[i] # Base - 1
    PROVE  parse_order_token_decimal(nextToken(t)) = parse_order_token_decimal(t) + 1 <=> ~InnerNine(t)
<1> USE ManagerAssumption
<1> DEFINE u == nextToken(t)
<1>1. u \in Token /\ Below(t, u) /\ Below(u, t)
  BY NextTokenType, NextIsNear
<1>2. PICK v : Value(t, v) /\ parse_order_token_decimal(t) = v[Digits]
  BY ParseValue
<1>3. PICK w : Value(u, w) /\ parse_order_token_decimal(u) = w[Digits]
  BY <1>1, ParseValue
<1>4. PICK k \in 1 .. Digits :
          /\ carry(t, k) = 1
          /\ \A j \in 1 .. k - 1 : u[j] = t[j]
          /\ \A j \in 2 .. k : t[j] # Base - 1
  BY FirstCarry
<1>5. /\ v[k] = v[k - 1] * Base + t[k] /\ w[k] = v[k - 1] * Base + u[k]
      /\ v[k - 1] \in Int /\ v[k - 1] * Base \in Int
      /\ v[Digits] \in Int /\ w[Digits] \in Int /\ v[k] \in Int /\ w[k] \in Int
      /\ t[k] \in 1 - Base .. Base - 1
  <2>1. k - 1 \in 0 .. Digits /\ k - 1 \in 0 .. k - 1 /\ Digits \in 0 .. Digits /\ k \in 0 .. Digits
    OBVIOUS
  <2> HIDE DEF u
  <2>2. v[k - 1] = w[k - 1]
    <3>1. \A j \in 1 .. k - 1 : t[j] = u[j]
      BY <1>4
    <3> QED
      BY <1>1, <1>2, <1>3, <2>1, <3>1, SamePrefix
  <2>3. v[k - 1] \in Int /\ v[Digits] \in Int /\ w[Digits] \in Int /\ v[k] \in Int /\ w[k] \in Int
    BY <1>2, <1>3, <2>1 DEF Value, ValueTo
  <2>4. v[k] = v[k - 1] * Base + t[k] /\ w[k] = w[k - 1] * Base + u[k]
    BY <1>2, <1>3 DEF Value, ValueTo
  <2>5. t[k] \in 1 - Base .. Base - 1
    BY TokenRange
  <2>6. v[k - 1] * Base \in Int
    BY <2>3
  <2> QED
    BY <2>2, <2>3, <2>4, <2>5, <2>6
<1>6. CASE t[k] = Base - 1
  <2>1. k = 1
    BY <1>4, <1>6
  <2>2. u[k] = 0
    BY <1>4, <1>6, NineTurns
  <2>3. w[k] < v[k]
    BY <1>5, <1>6, <2>2
  <2>4. w[Digits] < v[Digits]
    <3>1. k \in 0 .. Digits /\ Digits \in k .. Digits
      OBVIOUS
    <3> HIDE DEF u
    <3> QED
      BY <1>1, <1>2, <1>3, <2>3, <3>1, DigitsFollow
  <2>5. InnerNine(t)
    <3>1. k # Digits
      BY <1>6, <2>1
    <3>2. t[2] = Base - 1 /\ 2 \in 1 .. Digits
      BY <1>4, <2>1, <3>1 DEF carry
    <3>3. PICK j \in 1 .. Digits : t[j] # Base - 1
      OBVIOUS
    <3>4. 2 < j
      BY <1>6, <2>1, <3>2, <3>3
    <3> QED
      BY <3>2, <3>3, <3>4 DEF InnerNine
  <2> QED
    BY <1>2, <1>3, <1>5, <2>4, <2>5
<1>7. CASE t[k] # Base - 1
  <2>1. u[k] = t[k] + 1
    BY <1>4, <1>7, DigitGrows
  <2>2. w[k] = v[k] + 1
    BY <1>5, <2>1
  <2>3. CASE \A j \in k + 1 .. Digits : t[j] = Base - 1
    <3>1. \A j \in k + 1 .. Digits : t[j] = Base - 1 /\ u[j] = 0
      <4> SUFFICES ASSUME NEW j \in k + 1 .. Digits PROVE t[j] = Base - 1 /\ u[j] = 0
        OBVIOUS
      <4>1. j \in 1 .. Digits /\ t[j] = Base - 1 /\ (j # Digits => j + 1 \in k + 1 .. Digits)
        BY <2>3
      <4>2. carry(t, j) = 1
        BY <2>3, <4>1 DEF carry
      <4> QED
        BY <4>1, <4>2, NineTurns
    <3>2. w[Digits] = v[Digits] + 1
      <4> HIDE DEF u
      <4> QED
        BY <1>1, <1>2, <1>3, <2>2, <3>1, CarryThroughNines
    <3>3. ~InnerNine(t)
      <4> SUFFICES ASSUME NEW i \in 1 .. Digits, NEW j \in 1 .. Digits,
                          1 < i, i < j, t[i] = Base - 1, t[j] # Base - 1
                   PROVE  FALSE
        BY DEF InnerNine
      <4>1. ~(i \in 2 .. k)
        BY <1>4
      <4>2. j \in k + 1 .. Digits
        BY <4>1
      <4> QED
        BY <2>3, <4>2
    <3> QED
      BY <1>2, <1>3, <3>2, <3>3
  <2>4. CASE \E j \in k + 1 .. Digits : t[j] # Base - 1
    <3>1. PICK m \in k + 1 .. Digits : t[m] # Base - 1
      BY <2>4
    <3>2. m \in 1 .. Digits /\ t[m] <= u[m]
      <4>1. m \in 1 .. Digits
        OBVIOUS
      <4>2. u[m] >= t[m] /\ t[m] \in 1 - Base .. Base - 1 /\ u[m] \in 1 - Base .. Base - 1
        BY <3>1, <4>1, DigitRange
      <4> QED
        BY <4>1, <4>2
    <3>3. v[Digits] + 2 <= w[Digits]
      <4>1. v[k] < w[k]
        BY <1>5, <2>2
      <4> HIDE DEF u
      <4> QED
        BY <1>1, <1>2, <1>3, <3>2, <4>1, CarryTooMuch
    <3>4. InnerNine(t)
      <4>1. k # Digits
        OBVIOUS
      <4>2. k + 1 \in 1 .. Digits /\ t[k + 1] = Base - 1 /\ 1 < k + 1
        BY <1>4, <4>1 DEF carry
      <4>3. k + 1 < m
        BY <3>1, <4>2
      <4> QED
        BY <3>1, <3>2, <4>2, <4>3 DEF InnerNine
    <3> QED
      BY <1>2, <1>3, <1>5, <3>3, <3>4
  <2> QED
    BY <2>3, <2>4
<1> QED
  BY <1>6, <1>7

\* Tokens stay tokens.
THEOREM TokenAlways == CountSpec => [](current \in Token)
<1>1. CountInit => current \in Token
  BY DEF CountInit
<1>2. current \in Token /\ [CountNext]_current => (current \in Token)'
  BY NextTokenType DEF CountNext
<1> QED
  BY <1>1, <1>2, PTL DEF CountSpec

\* As long as the most significant digit is no nine, nextToken returns a token that
\* spells a larger number than the one before, although it skips numbers: none is
\* issued twice.  This includes the tokens with characters below '0'.
THEOREM TokensGrowAlways == CountSpec => TokensGrow
<1>1. current \in Token /\ [CountNext]_current =>
          [~Exhausted(current) => parse_order_token_decimal(current) < parse_order_token_decimal(current')]_current
  BY NextTokenGrows DEF CountNext
<1> QED
  BY <1>1, TokenAlways, PTL DEF CountSpec, TokensGrow

\* The branchless increment adds one exactly when the token has no nine that something
\* else than nines follows; otherwise it skips numbers, or falls back.
THEOREM ExactWithoutInnerNineAlways == CountSpec => ExactWithoutInnerNine
<1>1. current \in Token /\ [CountNext]_current =>
          [ (\E i \in 1 .. Digits : current[i] # Base - 1)
            => (parse_order_token_decimal(current') = parse_order_token_decimal(current) + 1 <=> ~InnerNine(current))
          ]_current
  BY ExactIff DEF CountNext
<1> QED
  BY <1>1, TokenAlways, PTL DEF CountSpec, ExactWithoutInnerNine
=============================================================================
