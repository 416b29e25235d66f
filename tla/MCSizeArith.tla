----------------------------- MODULE MCSizeArith -----------------------------
(***************************************************************************)
(* Every pair of sizes, one after the other, so that the overflow checks   *)
(* of lwan-array.c are compared with arithmetic on whole numbers.          *)
(***************************************************************************)
EXTENDS SizeArith

VARIABLES nmemb, size

FirstPair == nmemb = 0 /\ size = 0

NextSize == size < SizeMax /\ size' = size + 1 /\ UNCHANGED nmemb

NextRow == size = SizeMax /\ size' = 0 /\ nmemb' = (nmemb + 1) % (SizeMax + 1)

EveryPair == FirstPair /\ [][NextSize \/ NextRow]_<<nmemb, size>>

\* umull_overflow() reports an overflow exactly when the product of a number
\* of elements and their size does not fit a size_t.
UmullIsExact == UmullOverflowIsExact(nmemb, size)

\* Growing an array of nmemb elements is refused exactly when the bytes it
\* needs do not fit a size_t; otherwise just those bytes are asked for.
GrowthIsExact == size > 0 => GrowthOverflowIsExact(nmemb, size)

=============================================================================
