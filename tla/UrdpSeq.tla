------------------------------ MODULE UrdpSeq -------------------------------
(***************************************************************************)
(* The modular arithmetic of p2engine's wrappable_integer.hpp, which the   *)
(* reliable UDP flow (urdp_flow) uses for its uint32_t sequence numbers.   *)
(*                                                                         *)
(* M is the size of the unsigned type (2^32 in the code).  A value of the  *)
(* type is a member of Word.  Both operands of every sum and difference    *)
(* are members of Word, so one conditional subtraction (or addition) of M  *)
(* is the whole of the wrap-around of unsigned arithmetic.                 *)
(***************************************************************************)
EXTENDS Integers

CONSTANT M

ASSUME MAssumption == /\ M \in Nat
                      /\ M >= 8
                      /\ \E h \in 0 .. M : M = 2 * h

Word == 0 .. M - 1

\* Unsigned a + b and a - b.
UAdd(a, b) == IF a + b < M THEN a + b ELSE a + b - M

USub(a, b) == IF a >= b THEN a - b ELSE a - b + M

\* wrappable_minus: the unsigned difference reinterpreted as signed.
ModMinus(a, b) == IF 2 * USub(a, b) < M THEN USub(a, b) ELSE USub(a, b) - M

(***************************************************************************)
(* wrappable_cmp compares the distance down from a to b with the distance  *)
(* up: a is less than b iff the way down is the longer one.  Two values    *)
(* exactly M/2 apart compare as equal.                                     *)
(***************************************************************************)
ModLess(a, b) == 2 * USub(a, b) > M

ModLessEqual(a, b) == ~ ModLess(b, a)
=============================================================================
