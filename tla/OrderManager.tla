---------------------------- MODULE OrderManager ----------------------------
(***************************************************************************)
(* OrderManager (lib/core/order_manager.hpp): the token counter and the    *)
(* table of own orders.                                                    *)
(*                                                                         *)
(* A token is a function from positions (1 the most significant, 14 of     *)
(* them in the code) to characters, each given by its distance from '0': a *)
(* digit, or, where the constructor's int was negative, minus a digit.     *)
(* The table is an array indexed by the number a token spells; an entry    *)
(* keeps the two members that ever change after an order is accepted.      *)
(***************************************************************************)
EXTENDS CppIntegers, Sequences, SequencesExt

CONSTANTS Base,        \* 10
          Digits,      \* 14, the length of m_token
          OrdersSize,  \* ORDERS_SIZE, the length of m_orders
          QtyMod       \* number of values of a std::uint64_t quantity, 2^64

ASSUME ManagerAssumption ==
    /\ Base \in Nat \ {0, 1}
    /\ Digits \in Nat \ {0}
    /\ OrdersSize \in Nat \ {0}
    /\ QtyMod \in Nat \ {0}

\* No character below '0' follows one above it.
Token ==
    {t \in [1 .. Digits -> 1 - Base .. Base - 1] :
        \A i, j \in 1 .. Digits : i < j /\ t[i] > 0 => t[j] >= 0}

\* The constructor: the digits of the last index plus one, the last one first.  The sum
\* is a uint32_t, and index an int.
firstToken(lastIndex) ==
    LET index[i \in 0 .. Digits] ==
            IF i = 0 THEN asInt((lastIndex + 1) % SaveMod) ELSE Quot(index[i - 1], Base)
    IN  [i \in 1 .. Digits |-> Rem(index[Digits - i], Base)]

\* parse_order_token_decimal, and the loop of the destructor, before the result is cut
\* to a size_t or a uint32_t.
parse_order_token_decimal(token) ==
    LET value[i \in 0 .. Digits] == IF i = 0 THEN 0 ELSE value[i - 1] * Base + token[i]
    IN  value[Digits]

\* Mutant: an eight brings a carry as well.
carryOffByOne(token, i) == IF i = Digits \/ token[i + 1] >= Base - 2 THEN 1 ELSE 0

\* The carry the loop of nextToken brings to digit i: 1 into the last digit, and into
\* every other one whether the digit to its right WAS a nine, incremented or not.
carry(token, i) == IF i = Digits \/ token[i + 1] = Base - 1 THEN 1 ELSE 0

\* Mutant: no carry leaves the last digit.
nextTokenLastDigit(token) == [token EXCEPT ![Digits] = Rem(@ + 1, Base)]

nextToken(token) == [i \in 1 .. Digits |-> Rem(token[i] + carry(token, i), Base)]

\* m_orders as it is constructed: valid entries without quantity.
NoOrders == [i \in 0 .. OrdersSize - 1 |-> [quantity |-> 0, is_valid |-> TRUE]]

\* A negative index is a size_t beyond every table.
withinRange(index) == index \in 0 .. OrdersSize - 1

\* The entry of a token changed by Change, if the table has one (getOrder).
Update(orders, token, Change(_)) ==
    LET index == parse_order_token_decimal(token)
    IN  IF withinRange(index) THEN [orders EXCEPT ![index] = Change(@)] ELSE orders

\* Mutant: tokens beyond the table start again at its first entry.
orderAcceptedWrapped(orders, token, quantity) ==
    [orders EXCEPT ![parse_order_token_decimal(token) % OrdersSize].quantity = quantity]

\* is_valid keeps whatever value it had.
orderAccepted(orders, token, quantity) ==
    Update(orders, token, LAMBDA o : [o EXCEPT !.quantity = quantity])

\* Mutant: the difference is not cut to an unsigned value.
orderExecutedSigned(orders, token, traded) ==
    Update(orders, token,
           LAMBDA o : LET left == o.quantity - traded
                      IN  [quantity |-> left, is_valid |-> o.is_valid /\ left # 0])

\* Mutant: an order is invalid while something of it is left.
orderExecutedInverted(orders, token, traded) ==
    Update(orders, token,
           LAMBDA o : LET left == (o.quantity - traded) % QtyMod
                      IN  [quantity |-> left, is_valid |-> o.is_valid /\ left = 0])

\* quantity is unsigned: trading more than it holds wraps around.
orderExecuted(orders, token, traded) ==
    Update(orders, token,
           LAMBDA o : LET left == (o.quantity - traded) % QtyMod
                      IN  [quantity |-> left, is_valid |-> o.is_valid /\ left # 0])

\* Mutant: the quantity is cleared, the order stays valid.
orderDeletedStaysValid(orders, token) ==
    Update(orders, token, LAMBDA o : [o EXCEPT !.quantity = 0])

orderDeleted(orders, token) ==
    Update(orders, token, LAMBDA o : [o EXCEPT !.is_valid = FALSE])

----------------------------------------------------------------------------
\* A token that begins with a nine, and the smallest of them.
Exhausted(t) == t[1] = Base - 1
SmallestExhausted == [i \in 1 .. Digits |-> IF i = 1 THEN Base - 1 ELSE 0]

\* An int has fewer digits than a token, so that no first token is exhausted.
ASSUME TokenHoldsInt == -IntMin < parse_order_token_decimal(SmallestExhausted)
=============================================================================
