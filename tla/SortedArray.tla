----------------------------- MODULE SortedArray -----------------------------
(***************************************************************************)
(* lwan-array.c: an array of integers (what DEFINE_ARRAY_TYPE makes of     *)
(* lwan_array), appended to, sorted and reset in any order.                *)
(***************************************************************************)
EXTENDS LwanArray, TLC

VARIABLE sorted     \* the last call was lwan_array_sort()

vars == <<arrayVars, sorted>>

Init == ArrayInit /\ sorted = FALSE

AppendItem ==
    /\ \/ \E x \in Items : ArrayAppend(x)
       \/ ArrayAppendFails
    /\ sorted' = FALSE

Reset == ArrayReset /\ sorted' = FALSE

\* qsort() of the first count elements.
Qsort(count) ==
    items' = SortSeq(SubSeq(items, 1, count), <) \o SubSeq(items, count + 1, Len(items))

\* lwan_array_sort(): one element less than there are.
Sort ==
    /\ IF items = << >> THEN UNCHANGED items ELSE Qsort(Len(items) - 1)
    /\ sorted' = TRUE
    /\ UNCHANGED <<base, bytes>>

Next == AppendItem \/ Reset \/ Sort

Spec == Init /\ [][Next]_vars

-----------------------------------------------------------------------------
(* Properties                                                              *)

\* After lwan_array_sort() the elements are in order.
SortsAll == sorted => \A n \in 2 .. Len(items) : items[n - 1] <= items[n]

=============================================================================
