---------------------------- MODULE CppIntegers -----------------------------
(***************************************************************************)
(* The integer arithmetic of C++ where it is not that of Integers: what an *)
(* int makes of a uint32_t, and division, which cuts toward zero.          *)
(***************************************************************************)
EXTENDS Integers

CONSTANT SaveMod  \* number of values of a uint32_t, 2^32

ASSUME WidthAssumption == SaveMod \in Nat \ {0, 1}

\* The range of an int.
IntMax == SaveMod \div 2 - 1
IntMin == SaveMod \div 2 - SaveMod

\* A uint32_t stored in an int: the upper half of its values is negative.
asInt(u) == IF u <= IntMax THEN u ELSE u - SaveMod

\* a / b and a % b, for a positive b: the remainder has the sign of a.
Quot(a, b) == IF a >= 0 THEN a \div b ELSE -((-a) \div b)
Rem(a, b)  == IF a >= 0 THEN a % b ELSE -((-a) % b)
=============================================================================
