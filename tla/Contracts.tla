------------------------------- MODULE Contracts -------------------------------
(***************************************************************************)
(* qtx::core checked arithmetic on usize, used before a pointer is formed  *)
(* at the ggml boundary.  UsizeMod stands for 2^64.  The operators with    *)
(* "Portable" in their name are the code for compilers without overflow    *)
(* builtins.                                                               *)
(***************************************************************************)
EXTENDS Integers

CONSTANT UsizeMod

ASSUME UsizeAssumption == UsizeMod \in Nat \ {0}

Usize == 0 .. UsizeMod - 1

(* __builtin_add_overflow, __builtin_mul_overflow: is the exact result too *)
(* large, and what is stored in out.                                       *)
AddOverflow(a, b) == a + b >= UsizeMod
Sum(a, b)         == (a + b) % UsizeMod
MulOverflow(a, b) == a * b >= UsizeMod
Product(a, b)     == (a * b) % UsizeMod

AddOverflowPortable(a, b) == Sum(a, b) < a
MulOverflowPortable(a, b) == a # 0 /\ b # 0 /\ Product(a, b) \div a # b

AddBounded(a, b, limit) == ~AddOverflow(a, b) /\ Sum(a, b) <= limit

RangeWithin(size, offset, length) ==
  /\ offset <= size
  /\ ~AddOverflow(offset, length)
  /\ Sum(offset, length) <= size
=============================================================================
