------------------------------ MODULE LwanArray ------------------------------
(***************************************************************************)
(* lwan-array.c: an array that grows by Increment elements at a time.      *)
(* struct lwan_array keeps no capacity: the code recomputes it from the    *)
(* number of elements, and grows whenever that number is a multiple of     *)
(* Increment.  The model adds the size of the allocation, which only the   *)
(* C library knows, so that what the code believes can be compared to it.  *)
(***************************************************************************)
EXTENDS SizeArith, Sequences

CONSTANTS ElemSize,     \* element_size
          Addrs,        \* addresses realloc() may return
          Items,        \* what an element can hold
          NULL

ASSUME ArrayAssumption ==
    /\ ElemSize \in Size \ {0}
    /\ NULL \notin Addrs

VARIABLES
    base,       \* a->base
    bytes,      \* the size of the allocation base points to
    items       \* the elements; Len(items) is a->elements

arrayVars == <<base, bytes, items>>

ArrayInit ==
    /\ base = NULL
    /\ bytes = 0
    /\ items = << >>

-----------------------------------------------------------------------------

\* Wrong: the size of the new allocation is not checked for overflow.
ArrayAppendUnchecked(x) ==
    /\ items' = Append(items, x)
    /\ IF Len(items) % Increment = 0
       THEN base' \in Addrs /\ bytes' = GrownBytes(Len(items), ElemSize)
       ELSE UNCHANGED <<base, bytes>>

\* Wrong: the array is reallocated for every element.
ArrayAppendAlwaysGrows(x) ==
    /\ ~GrowthOverflows(Len(items), ElemSize)
    /\ items' = Append(items, x)
    /\ base' \in Addrs
    /\ bytes' = GrownBytes(Len(items), ElemSize)

\* lwan_array_append() and the store through the pointer it returns.  A new
\* allocation is only asked for when the number of elements is a multiple
\* of Increment; realloc() may move the elements or leave them.
ArrayAppend(x) ==
    /\ items' = Append(items, x)
    /\ IF Len(items) % Increment = 0
       THEN /\ ~GrowthOverflows(Len(items), ElemSize)
            /\ base' \in Addrs
            /\ bytes' = GrownBytes(Len(items), ElemSize)
       ELSE UNCHANGED <<base, bytes>>

\* lwan_array_append() that returns NULL: on overflow, or when realloc()
\* has no memory.  The array is as before.
ArrayAppendFails ==
    /\ Len(items) % Increment = 0
    /\ UNCHANGED arrayVars

\* lwan_array_reset()
ArrayReset ==
    /\ base' = NULL
    /\ bytes' = 0
    /\ items' = << >>

-----------------------------------------------------------------------------
(* Properties                                                              *)

ArrayTypeOK ==
    /\ base \in Addrs \cup {NULL}
    /\ bytes \in Size
    /\ items \in Seq(Items)

\* Every element lies inside the allocation, and if the next append does
\* not grow the array, so does the slot it will write: the capacity that is
\* kept nowhere is really there, after any mix of growth, failed growth,
\* overflow, truncation by coro_deferred_run() and reset.
Capacity(n) == IF n % Increment = 0 THEN n ELSE n + Increment - (n % Increment)

ElementsAllocated ==
    /\ Capacity(Len(items)) * ElemSize <= bytes
    /\ base = NULL => items = << >>

=============================================================================
