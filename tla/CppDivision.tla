---------------------------- MODULE CppDivision ----------------------------
(* Integer division as C++ has it: the quotient is truncated towards zero. *)
EXTENDS Integers

Quot(a, b) == IF a >= 0 THEN a \div b ELSE -((-a) \div b)
Rem(a, b) == a - b * Quot(a, b)
=============================================================================
