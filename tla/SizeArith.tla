------------------------------ MODULE SizeArith ------------------------------
(***************************************************************************)
(* lwan-array.c: the size_t arithmetic behind the growth of an array.  A   *)
(* size_t has an even number of bits; Half is 2 to half that number.       *)
(***************************************************************************)
EXTENDS Integers

CONSTANTS Half,         \* MUL_NO_OVERFLOW
          Increment     \* INCREMENT

ASSUME SizeAssumption ==
    /\ Half \in Nat /\ Half > 1
    /\ Increment \in 1 .. Half * Half - 1

SizeMax == Half * Half - 1

Size == 0 .. SizeMax

\* Wrong: two factors below Half are the only ones that cannot overflow.
UmullOverflowBothLarge(a, b) ==
    a >= Half /\ b >= Half /\ a > 0 /\ SizeMax \div a < b

\* umull_overflow(): a division only if one factor could make it overflow.
UmullOverflow(a, b) ==
    /\ a >= Half \/ b >= Half
    /\ a > 0
    /\ SizeMax \div a < b

\* Wrong: the sum that is just too large by one passes.
AddOverflowOffByOne(a, b) == a > 0 /\ b > SizeMax - a + 1

\* add_overflow(), whose result is a + INCREMENT whatever b is.
AddOverflow(a, b) == a > 0 /\ b > SizeMax - a

AddOut(a) == (a + Increment) % (SizeMax + 1)

MulOut(a, b) == (a * b) % (SizeMax + 1)

\* The bytes reallocarray() is asked for when an array that holds n elements
\* of the given size has to grow, and whether the request is made at all.
GrowthOverflows(n, size) ==
    AddOverflow(n, Increment) \/ UmullOverflow(AddOut(n), size)

GrownBytes(n, size) == MulOut(AddOut(n), size)

-----------------------------------------------------------------------------
(* What the checks promise, in terms of whole numbers                      *)

UmullOverflowIsExact(a, b) == UmullOverflow(a, b) <=> a * b > SizeMax

GrowthOverflowIsExact(n, size) ==
    /\ GrowthOverflows(n, size) <=> (n + Increment) * size > SizeMax
    /\ ~GrowthOverflows(n, size) => GrownBytes(n, size) = (n + Increment) * size

=============================================================================
