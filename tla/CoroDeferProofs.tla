--------------------------- MODULE CoroDeferProofs ---------------------------
(***************************************************************************)
(* The deferred functions of a coroutine, for any number of blocks and     *)
(* hooks, any width of size_t, INCREMENT and element size: memory safety   *)
(* of the array and of the calls, no leak, and the refinement of           *)
(* DeferStack.                                                             *)
(***************************************************************************)
EXTENDS CoroDefer, SizeArithProofs, SequenceTheorems

LoopInv ==
    IF InLoop
    THEN /\ alive
         /\ loop.then # "return" => loop.generation = 0
         /\ wild => loop.i # loop.generation /\ loop.defers # base
    ELSE loop = NoLoop /\ ~wild

DeadInv == ~alive => items = << >> /\ base = NULL

\* A dropped release is of an allocated block that no pending call releases.
DroppedInv ==
    \A r \in dropped :
        /\ r.data \in heap
        /\ \A n \in 1 .. PendingLen : ~Owns(n, r.data)

ArrayInv == ArrayTypeOK /\ ElementsAllocated

IInv == /\ TypeOK /\ ElementsAllocated /\ StaleOnlyAfterGrowth /\ LoopInv
        /\ DeadInv /\ PendingFreesAreValid /\ NoLeak /\ DroppedInv

-----------------------------------------------------------------------------
(* The array                                                               *)

LEMMA CapacityFacts ==
    ASSUME NEW n \in Nat
    PROVE  /\ Capacity(n) \in Nat /\ n <= Capacity(n)
           /\ Capacity(n) < n + Increment
           /\ \E q \in Nat : Capacity(n) = Increment * q
<1> USE SizeAssumption, SizeMaxNat
<1>1. Increment \in Nat /\ Increment > 0
  OBVIOUS
<1> DEFINE q == n \div Increment
           r == n % Increment
<1>2. q \in Nat /\ r \in 0 .. Increment - 1 /\ n = Increment * q + r
  BY <1>1, Division
<1>3. Capacity(n) = IF r = 0 THEN n ELSE n + Increment - r
  BY DEF Capacity
<1> HIDE DEF q, r
<1>4. CASE r = 0
  BY <1>1, <1>2, <1>3, <1>4
<1>5. CASE r # 0
  <2>1. Capacity(n) = Increment * (q + 1)
    BY <1>1, <1>2, <1>3, <1>5
  <2>2. Capacity(n) = n + Increment - r
    BY <1>3, <1>5
  <2>3. \E p \in Nat : Capacity(n) = Increment * p
    BY <1>2, <2>1, q + 1 \in Nat
  <2>4. r >= 1 /\ r <= Increment - 1 /\ r \in Nat
    BY <1>1, <1>2, <1>5
  <2>5. Capacity(n) \in Nat /\ n <= Capacity(n) /\ Capacity(n) < n + Increment
    BY <1>1, <2>2, <2>4
  <2> QED BY <2>3, <2>5
<1> QED BY <1>4, <1>5

\* The capacity only depends on how many times the array has grown.
LEMMA CapacityOfNext ==
    ASSUME NEW n \in Nat
    PROVE  Capacity(n + 1) = IF n % Increment = 0 THEN n + Increment ELSE Capacity(n)
<1>1. Increment \in Nat /\ Increment > 0
  BY SizeAssumption, SizeMaxNat
<1>2. (n + 1) % Increment = IF n % Increment = Increment - 1 THEN 0 ELSE (n % Increment) + 1
  BY <1>1, RemainderOfNext
<1>3. n % Increment \in 0 .. Increment - 1
  BY <1>1, Division
<1> DEFINE r == n % Increment
           t == (n + 1) % Increment
<1>4. /\ Capacity(n) = IF r = 0 THEN n ELSE n + Increment - r
      /\ Capacity(n + 1) = IF t = 0 THEN n + 1 ELSE n + 1 + Increment - t
  BY DEF Capacity
<1> HIDE DEF r, t
<1>5. (t = IF r = Increment - 1 THEN 0 ELSE r + 1) /\ r \in 0 .. Increment - 1
  BY <1>2, <1>3 DEF r, t
<1>6. Capacity(n + 1) = IF r = 0 THEN n + Increment ELSE Capacity(n)
  BY <1>1, <1>4, <1>5
<1> QED BY <1>6 DEF r

LEMMA CapacityMonotonic ==
    ASSUME NEW g \in Nat, NEW n \in Nat, g <= n
    PROVE  Capacity(g) <= Capacity(n)
<1>1. Increment \in Nat /\ Increment > 0
  BY SizeAssumption, SizeMaxNat
<1>2. PICK v \in Nat : Capacity(g) = Increment * v
  BY CapacityFacts
<1>3. PICK u \in Nat : Capacity(n) = Increment * u
  BY CapacityFacts
<1>4. /\ Capacity(g) \in Nat /\ Capacity(g) < g + Increment
      /\ Capacity(n) \in Nat /\ n <= Capacity(n)
  BY CapacityFacts
<1>5. ASSUME u < v PROVE FALSE
  <2>1. Increment * (u + 1) <= Increment * v
    BY <1>1, <1>5, ProductMonotonic
  <2>2. Increment * (u + 1) = Increment * u + Increment
    BY <1>1
  <2>3. Capacity(n) + Increment <= Capacity(g)
    BY <1>2, <1>3, <2>1, <2>2
  <2> QED BY <1>1, <1>4, <2>3
<1>6. Increment * v <= Increment * u
  BY <1>1, <1>5, ProductMonotonic
<1> QED BY <1>2, <1>3, <1>6

\* The bytes an array with that capacity needs grow with its elements.
LEMMA CapacityBytesMonotonic ==
    ASSUME NEW g \in Nat, NEW n \in Nat, g <= n
    PROVE  Capacity(g) * ElemSize <= Capacity(n) * ElemSize
<1>1. ElemSize \in Nat /\ ElemSize <= ElemSize
  BY SizeMaxNat, ArrayAssumption DEF Size
<1>2. Capacity(g) \in Nat /\ Capacity(n) \in Nat
  BY CapacityFacts
<1>3. Capacity(g) <= Capacity(n)
  BY CapacityMonotonic
<1> QED BY <1>1, <1>2, <1>3, ProductMonotonic, Zenon

\* lwan_array_append() keeps every element, and the slot it returns, inside
\* the allocation.
LEMMA AppendArrayInv ==
    ASSUME ArrayInv, NEW x \in Items, ArrayAppend(x)
    PROVE  ArrayInv' /\ items' = Append(items, x) /\ base' # NULL
<1> DEFINE n == Len(items)
<1> USE DEF ArrayInv, ArrayTypeOK
<1>1. n \in Nat /\ items \in Seq(Items)
  BY LenProperties
<1>2. items' = Append(items, x) /\ items' \in Seq(Items) /\ Len(items') = n + 1
  BY <1>1 DEF ArrayAppend
<1>3. SizeMax \in Nat /\ Increment \in Nat /\ Increment > 0 /\ ElemSize \in Nat
      /\ ElemSize >= 1 /\ ElemSize \in Size \ {0}
  BY SizeMaxNat, SizeAssumption, ArrayAssumption DEF Size
<1>4. /\ Capacity(n) \in Nat /\ n <= Capacity(n)
      /\ Capacity(n) * ElemSize <= bytes /\ bytes \in Nat /\ bytes <= SizeMax
  BY <1>1, <1>3, CapacityFacts DEF ElementsAllocated, Size
<1>5. n \in Size
  <2>0. 1 \in Nat /\ 1 <= ElemSize /\ ElemSize \in Nat /\ Capacity(n) <= Capacity(n)
    BY <1>3, <1>4
  <2>1. Capacity(n) * 1 <= Capacity(n) * ElemSize
    BY <1>4, <2>0, ProductMonotonic, Zenon
  <2>2. Capacity(n) * 1 = Capacity(n) /\ Capacity(n) * ElemSize \in Nat
    BY <1>3, <1>4
  <2> QED BY <1>1, <1>3, <1>4, <2>1, <2>2 DEF Size
<1>6. CASE n % Increment = 0
  <2>1. /\ ~GrowthOverflows(n, ElemSize)
        /\ base' \in Addrs
        /\ bytes' = GrownBytes(n, ElemSize)
    BY <1>6 DEF ArrayAppend
  <2>2. GrowthOverflowIsExact(n, ElemSize)
    BY <1>3, <1>5, GrowthExact
  <2>3. bytes' = (n + Increment) * ElemSize /\ ~((n + Increment) * ElemSize > SizeMax)
    BY <2>1, <2>2 DEF GrowthOverflowIsExact
  <2>4. bytes' \in Size
    BY <1>1, <1>3, <2>3 DEF Size
  <2>5. Capacity(n + 1) = n + Increment
    BY <1>1, <1>6, CapacityOfNext
  <2>6. Capacity(Len(items')) * ElemSize <= bytes'
    BY <1>1, <1>2, <1>3, <2>3, <2>5
  <2>7. base' # NULL
    BY <2>1, ArrayAssumption
  <2> HIDE DEF n
  <2>8. Capacity(Len(items)') = Capacity(Len(items'))
    OBVIOUS
  <2>9. ElementsAllocated'
    BY <2>6, <2>7 DEF ElementsAllocated, Capacity
  <2> QED BY <1>2, <2>1, <2>4, <2>7, <2>9
<1>7. CASE n % Increment # 0
  <2>1. base' = base /\ bytes' = bytes
    BY <1>7 DEF ArrayAppend
  <2>2. n # 0
    BY <1>3, <1>7, RemainderIs, <1>1, 0 = Increment * 0 + 0
  <2>3. base # NULL
    BY <2>2 DEF ElementsAllocated
  <2>4. Capacity(n + 1) = Capacity(n)
    BY <1>1, <1>7, CapacityOfNext
  <2>5. Capacity(Len(items')) * ElemSize <= bytes'
    BY <1>2, <1>4, <2>1, <2>4
  <2>6. ElementsAllocated'
    BY <2>1, <2>3, <2>5 DEF ElementsAllocated, Capacity
  <2> QED BY <1>2, <2>1, <2>3, <2>6
<1> QED BY <1>6, <1>7

\* Cutting the array back to a generation, as coro_deferred_run() does.
LEMMA TruncateArrayInv ==
    ASSUME ArrayInv, NEW g \in 0 .. Len(items),
           items' = SubSeq(items, 1, g), UNCHANGED <<base, bytes>>
    PROVE  ArrayInv' /\ Len(items') = g
<1> USE DEF ArrayInv, ArrayTypeOK
<1>1. Len(items) \in Nat /\ items \in Seq(Items) /\ g \in Nat /\ g <= Len(items)
  BY LenProperties
<1>2. \A n \in 1 .. g : items[n] \in Items
  BY <1>1
<1>3. items' \in Seq(Items) /\ Len(items') = g
  BY <1>1, <1>2
<1>4. /\ Capacity(g) \in Nat /\ Capacity(Len(items)) \in Nat
      /\ Capacity(g) <= Capacity(Len(items))
  BY <1>1, CapacityFacts, CapacityMonotonic
<1>5. ElemSize \in Nat /\ bytes \in Nat
  BY SizeMaxNat, ArrayAssumption DEF Size
<1>6. Capacity(g) * ElemSize <= Capacity(Len(items)) * ElemSize
  BY <1>1, CapacityBytesMonotonic, Zenon
<1>7. Capacity(g) * ElemSize <= bytes
  BY <1>4, <1>5, <1>6 DEF ElementsAllocated
<1>8. base = NULL => items' = << >>
  BY <1>1, <1>3 DEF ElementsAllocated
<1>9. ElementsAllocated'
  BY <1>3, <1>7, <1>8 DEF ElementsAllocated, Capacity
<1> QED BY <1>3, <1>9

\* An array that is empty, with nothing allocated.
LEMMA EmptyArrayInv == base = NULL /\ bytes = 0 /\ items = << >> => ArrayInv
<1> SUFFICES ASSUME base = NULL, bytes = 0, items = << >> PROVE ArrayInv
  OBVIOUS
<1>1. Capacity(0) = 0
  <2>1. Increment \in Nat /\ Increment > 0
    BY SizeAssumption, SizeMaxNat
  <2>2. 0 % Increment = 0
    BY <2>1, RemainderIs, 0 = Increment * 0 + 0
  <2> QED BY <2>2 DEF Capacity
<1>2. ElemSize \in Nat /\ 0 \in Size
  BY SizeMaxNat, ArrayAssumption DEF Size
<1>3. items \in Seq(Items) /\ Len(items) = 0
  BY EmptySeq
<1> QED BY <1>1, <1>2, <1>3 DEF ArrayInv, ArrayTypeOK, ElementsAllocated

-----------------------------------------------------------------------------
(* Deferred calls                                                          *)

LEMMA DeferredFacts ==
    /\ Items = Deferred /\ NULL \notin Nat
    /\ \A func \in Funcs, b \in Blocks :
          /\ Release(func, b) \in Releases /\ Release(func, b) \in Items
          /\ Release(func, b).func = func /\ Release(func, b).data = b
    /\ \A h \in Hooks : Hook(h) \in Items /\ Hook(h) \notin Releases
                        /\ Hook(h).func = "hook"
    /\ \A r \in Releases : /\ r.func \in Funcs /\ r.data \in Blocks
                            /\ r = Release(r.func, r.data)
    /\ \A r \in Items \ Releases : r.func = "hook"
<1>1. Items = Deferred /\ NULL \notin Nat
  BY DeferAssumption
<1>2. \A func \in Funcs, b \in Blocks :
          /\ Release(func, b) \in Releases /\ Release(func, b) \in Items
          /\ Release(func, b).func = func /\ Release(func, b).data = b
  <2> SUFFICES ASSUME NEW func \in Funcs, NEW b \in Blocks
               PROVE  /\ Release(func, b) \in Releases /\ Release(func, b) \in Items
                      /\ Release(func, b).func = func /\ Release(func, b).data = b
    OBVIOUS
  <2>1. Release(func, b) \in Releases
    BY DEF Releases
  <2>2. Release(func, b).func = func /\ Release(func, b).data = b
    BY DEF Release
  <2> QED BY <1>1, <2>1, <2>2 DEF Deferred
<1>3. \A r \in Releases : /\ r.func \in Funcs /\ r.data \in Blocks
                          /\ r = Release(r.func, r.data)
  <2> SUFFICES ASSUME NEW r \in Releases
               PROVE  r.func \in Funcs /\ r.data \in Blocks /\ r = Release(r.func, r.data)
    OBVIOUS
  <2>1. PICK func \in Funcs, b \in Blocks : r = Release(func, b)
    BY DEF Releases
  <2> QED BY <1>2, <2>1
<1>4. \A h \in Hooks : /\ Hook(h) \in Items /\ Hook(h).func = "hook"
                       /\ Hook(h) \notin Releases
  <2> SUFFICES ASSUME NEW h \in Hooks
               PROVE  Hook(h) \in Items /\ Hook(h).func = "hook" /\ Hook(h) \notin Releases
    OBVIOUS
  <2>1. Hook(h) \in Items /\ Hook(h).func = "hook"
    BY <1>1 DEF Deferred, Hook
  <2> QED BY <1>3, <2>1 DEF Funcs
<1>5. \A r \in Items \ Releases : r.func = "hook"
  BY <1>1 DEF Deferred, Hook
<1> QED BY <1>1, <1>2, <1>3, <1>4, <1>5

LEMMA PendingFacts ==
    ASSUME TypeOK, StaleOnlyAfterGrowth
    PROVE  /\ Len(items) \in Nat /\ items \in Seq(Items)
           /\ PendingLen \in 0 .. Len(items)
           /\ \A n \in 1 .. PendingLen : n \in 1 .. Len(items) /\ items[n] \in Items
<1>1. Len(items) \in Nat /\ items \in Seq(Items)
  BY LenProperties DEF TypeOK, ArrayTypeOK
<1>2. PendingLen \in 0 .. Len(items)
  BY <1>1 DEF PendingLen, StaleOnlyAfterGrowth, TypeOK
<1> QED BY <1>1, <1>2, ElementOfSeq

LEMMA InitIInv == Init => IInv
<1> SUFFICES ASSUME Init PROVE IInv
  OBVIOUS
<1>1. ArrayInv
  BY EmptyArrayInv DEF Init, ArrayInit
<1>2. ~InLoop /\ ~InLoop /\ loop = NoLoop /\ PendingLen = 0
  BY EmptySeq DEF Init, ArrayInit, InLoop, NoLoop, PendingLen
<1>3. TypeOK
  BY <1>1 DEF Init, TypeOK, ArrayInv, NoLoop
<1>4. StaleOnlyAfterGrowth /\ LoopInv /\ DeadInv
  BY <1>2 DEF Init, ArrayInit, StaleOnlyAfterGrowth, LoopInv, DeadInv
<1>5. PendingFreesAreValid
  BY <1>2 DEF PendingFreesAreValid
<1>6. NoLeak /\ DroppedInv
  BY DEF Init, ArrayInit, NoLeak, DroppedInv
<1> QED BY <1>1, <1>3, <1>4, <1>5, <1>6 DEF IInv, ArrayInv

\* Nothing the invariant speaks of changes but the loop.
LEMMA SameCalls ==
    ASSUME IInv, UNCHANGED <<heap, inner, dropped>>,
           PendingLen' = PendingLen,
           \A n \in 1 .. PendingLen : items'[n] = items[n],
           base' = NULL \/ alive'
    PROVE  PendingFreesAreValid' /\ NoLeak' /\ DroppedInv'
<1>1. \A n \in 1 .. PendingLen : \A b : Owns(n, b)' <=> Owns(n, b)
  BY DEF Owns
<1>2. PendingFreesAreValid'
  BY <1>1 DEF IInv, PendingFreesAreValid
<1>3. \A r : WillRelease(r)' <=> WillRelease(r)
  BY DEF WillRelease
<1>4. NoLeak'
  BY <1>3 DEF IInv, NoLeak
<1>5. DroppedInv'
  BY <1>1 DEF IInv, DroppedInv
<1> QED BY <1>2, <1>4, <1>5

LEMMA CoroNewIInv == ASSUME IInv, CoroNew PROVE IInv'
<1>1. ~InLoop /\ items = << >> /\ loop = NoLoop /\ ~wild
  BY DEF IInv, LoopInv, DeadInv, CoroNew
<1>2. /\ base' = NULL /\ bytes' = 0 /\ items' = << >> /\ alive'
      /\ UNCHANGED <<loop, memory, last, wild>>
  BY DEF CoroNew
<1>3. ArrayInv'
  <2>1. (base = NULL /\ bytes = 0 /\ items = << >> => ArrayInv)'
    BY EmptyArrayInv, PTL
  <2> QED BY <1>2, <2>1
<1>4. ~InLoop' /\ PendingLen' = PendingLen /\ PendingLen = 0
  BY <1>1, <1>2, EmptySeq DEF InLoop, PendingLen
<1>5. TypeOK'
  BY <1>2, <1>3 DEF IInv, TypeOK, ArrayInv, memory, CoroNew
<1>6. StaleOnlyAfterGrowth' /\ LoopInv' /\ DeadInv'
  BY <1>1, <1>2, <1>4 DEF StaleOnlyAfterGrowth, LoopInv, DeadInv, NoLoop
<1>7. PendingFreesAreValid' /\ NoLeak' /\ DroppedInv'
  BY <1>2, <1>4, SameCalls DEF memory
<1> QED BY <1>3, <1>5, <1>6, <1>7 DEF IInv, ArrayInv

\* What an append outside the loop adds to the pending calls.
LEMMA AppendPending ==
    ASSUME IInv, ~InLoop, loop' = loop, NEW x \in Items, ArrayAppend(x)
    PROVE  /\ ArrayInv' /\ ~InLoop' /\ base' # NULL
           /\ PendingLen \in Nat
           /\ PendingLen' = PendingLen + 1
           /\ items'[PendingLen + 1] = x
           /\ \A n \in 1 .. PendingLen : items'[n] = items[n]
<1>1. ArrayInv
  BY DEF IInv, TypeOK, ArrayInv
<1>2. ArrayInv' /\ items' = Append(items, x) /\ base' # NULL
  BY <1>1, AppendArrayInv
<1>3. items \in Seq(Items) /\ Len(items) \in Nat
  BY <1>1, LenProperties DEF ArrayInv, ArrayTypeOK
<1>4. ~InLoop'
  BY DEF InLoop
<1>5. PendingLen = Len(items) /\ PendingLen' = Len(items')
  BY <1>4 DEF PendingLen
<1>6. /\ Len(items') = Len(items) + 1
      /\ items'[Len(items) + 1] = x
      /\ \A n \in 1 .. Len(items) : items'[n] = items[n]
  BY <1>2, <1>3
<1> QED BY <1>2, <1>3, <1>4, <1>5, <1>6

\* What a hook appends lies above the calls that are left, and only a growth
\* can have moved the array.
LEMMA AppendInLoop ==
    ASSUME IInv, InLoop, loop' = loop, NEW x \in Items, ArrayAppend(x)
    PROVE  /\ ArrayInv' /\ InLoop' /\ base' # NULL
           /\ PendingLen' = PendingLen
           /\ \A n \in 1 .. PendingLen : items'[n] = items[n]
           /\ StaleOnlyAfterGrowth'
<1>1. ArrayInv /\ StaleOnlyAfterGrowth
  BY DEF IInv, TypeOK, ArrayInv
<1>2. ArrayInv' /\ items' = Append(items, x) /\ base' # NULL
  BY <1>1, AppendArrayInv
<1>3. items \in Seq(Items) /\ Len(items) \in Nat /\ loop.start \in Nat
  BY <1>1, LenProperties DEF ArrayInv, ArrayTypeOK, IInv, TypeOK
<1>4. InLoop' /\ PendingLen' = PendingLen /\ PendingLen = loop.i
  BY DEF InLoop, PendingLen
<1>5. /\ Len(items') = Len(items) + 1
      /\ \A n \in 1 .. Len(items) : items'[n] = items[n]
  BY <1>2, <1>3
<1>6. /\ loop.generation <= loop.i /\ loop.i <= loop.start /\ loop.start <= Len(items)
      /\ loop.defers # base => \E n \in loop.start .. Len(items) - 1 : n % Increment = 0
  BY <1>1 DEF StaleOnlyAfterGrowth
<1>7. \A n \in 1 .. PendingLen : items'[n] = items[n]
  BY <1>3, <1>4, <1>5, <1>6, PendingFacts DEF IInv
<1>8. loop.defers # base' => \E n \in loop.start .. Len(items') - 1 : n % Increment = 0
  <2>1. CASE Len(items) % Increment = 0
    <3>1. Len(items) \in loop.start .. Len(items') - 1
      BY <1>3, <1>5, <1>6
    <3> QED BY <2>1, <3>1
  <2>2. CASE Len(items) % Increment # 0
    <3>1. base' = base
      BY <2>2 DEF ArrayAppend
    <3>2. \A n \in loop.start .. Len(items) - 1 : n \in loop.start .. Len(items') - 1
      BY <1>3, <1>5
    <3> QED BY <1>6, <3>1, <3>2
  <2> QED BY <2>1, <2>2
<1>9. StaleOnlyAfterGrowth'
  <2>1. loop.start <= Len(items')
    BY <1>3, <1>5, <1>6
  <2> QED BY <1>6, <1>8, <2>1 DEF StaleOnlyAfterGrowth
<1> QED BY <1>2, <1>4, <1>7, <1>9

\* A block whose release no run will make: the pending calls are the same.
LEMMA LostRelease ==
    ASSUME IInv, NEW b \in Blocks, NEW destroy \in Funcs,
           b \notin heap, heap' = heap \cup {b}, inner' = inner,
           dropped' = dropped \cup {Release(destroy, b)},
           PendingLen' = PendingLen,
           \A n \in 1 .. PendingLen : items'[n] = items[n],
           alive'
    PROVE  PendingFreesAreValid' /\ NoLeak' /\ DroppedInv'
<1> DEFINE x == Release(destroy, b)
<1>1. x.data = b
  BY DeferredFacts
<1>2. \A n \in 1 .. PendingLen : ~Owns(n, b)
  BY DEF IInv, PendingFreesAreValid
<1>3. \A n \in 1 .. PendingLen : \A c : Owns(n, c)' <=> Owns(n, c)
  BY DEF Owns
<1>4. PendingFreesAreValid'
  BY <1>3 DEF IInv, PendingFreesAreValid
<1>5. (\A r : WillRelease(r) => WillRelease(r)') /\ WillRelease(x)'
  BY DEF WillRelease
<1>6. NoLeak'
  BY <1>5 DEF IInv, NoLeak
<1>7. DroppedInv'
  BY <1>1, <1>2, <1>3 DEF IInv, DroppedInv
<1> QED BY <1>4, <1>6, <1>7

LEMMA CoroDeferIInv ==
    ASSUME IInv, NEW h \in Hooks, CoroDefer(h)
    PROVE  IInv'
<1>1. alive /\ ~wild /\ UNCHANGED <<alive, loop, memory, last, wild>>
  BY DEF CoroDefer, ClientRuns
<1>2. CASE ~InLoop /\ ArrayAppend(Hook(h))
  <2>0. Hook(h) \in Items /\ Hook(h) \notin Releases
    BY DeferredFacts
  <2>1. /\ ArrayInv' /\ ~InLoop' /\ base' # NULL /\ PendingLen \in Nat
        /\ PendingLen' = PendingLen + 1
        /\ items'[PendingLen + 1] = Hook(h)
        /\ \A n \in 1 .. PendingLen : items'[n] = items[n]
    BY <1>1, <1>2, <2>0, AppendPending
  <2>2. TypeOK'
    BY <1>1, <2>1 DEF IInv, TypeOK, ArrayInv, memory
  <2>3. StaleOnlyAfterGrowth' /\ LoopInv' /\ DeadInv'
    BY <1>1, <2>1 DEF IInv, StaleOnlyAfterGrowth, LoopInv, DeadInv, InLoop
  <2>4. \A n \in 1 .. PendingLen', b \in Blocks :
           Owns(n, b)' => n \in 1 .. PendingLen /\ Owns(n, b)
    <3> SUFFICES ASSUME NEW n \in 1 .. PendingLen', NEW b \in Blocks, Owns(n, b)'
                 PROVE  n \in 1 .. PendingLen /\ Owns(n, b)
      OBVIOUS
    <3>1. n # PendingLen + 1
      BY <2>0, <2>1, DeferredFacts DEF Owns
    <3> QED BY <2>1, <3>1 DEF Owns
  <2>5. PendingFreesAreValid'
    BY <1>1, <2>4 DEF IInv, PendingFreesAreValid, memory
  <2>6. \A r : WillRelease(r) => WillRelease(r)'
    BY <1>1, <2>1 DEF WillRelease, memory
  <2>7. NoLeak'
    BY <1>1, <2>6 DEF IInv, NoLeak, memory
  <2>8. DroppedInv'
    <3> SUFFICES ASSUME NEW r \in dropped
                 PROVE  /\ r.data \in heap
                        /\ \A n \in 1 .. PendingLen' : ~Owns(n, r.data)'
      BY <1>1 DEF DroppedInv, memory
    <3>1. r.data \in Blocks
      BY DeferredFacts DEF IInv, TypeOK
    <3> QED BY <2>4, <3>1 DEF IInv, DroppedInv
  <2> QED BY <2>1, <2>2, <2>3, <2>5, <2>7, <2>8 DEF IInv, ArrayInv
<1>3. CASE InLoop /\ ArrayAppend(Hook(h))
  <2>1. /\ ArrayInv' /\ InLoop' /\ base' # NULL
        /\ PendingLen' = PendingLen
        /\ \A n \in 1 .. PendingLen : items'[n] = items[n]
        /\ StaleOnlyAfterGrowth'
    BY <1>1, <1>3, DeferredFacts, AppendInLoop
  <2>2. TypeOK'
    BY <1>1, <2>1 DEF IInv, TypeOK, ArrayInv, memory
  <2>3. LoopInv' /\ DeadInv'
    BY <1>1, <2>1 DEF IInv, LoopInv, DeadInv, InLoop
  <2>4. PendingFreesAreValid' /\ NoLeak' /\ DroppedInv'
    BY <1>1, <2>1, SameCalls DEF memory
  <2> QED BY <2>1, <2>2, <2>3, <2>4 DEF IInv, ArrayInv
<1>4. CASE ArrayAppendFails
  <2>1. UNCHANGED arrayVars
    BY <1>4 DEF ArrayAppendFails
  <2> QED BY <1>1, <2>1
          DEF IInv, TypeOK, ArrayTypeOK, ElementsAllocated, Capacity, arrayVars, memory,
              StaleOnlyAfterGrowth, LoopInv, DeadInv, PendingFreesAreValid, NoLeak,
              DroppedInv, PendingLen, InLoop, Owns, WillRelease
<1> QED BY <1>2, <1>3, <1>4 DEF CoroDefer

LEMMA CoroMallocFullIInv ==
    ASSUME IInv, NEW b \in Blocks, NEW destroy \in Funcs, CoroMallocFull(b, destroy)
    PROVE  IInv'
<1> DEFINE x == Release(destroy, b)
<1>0. x \in Items /\ x \in Releases /\ x.data = b
  BY DeferredFacts
<1>1. /\ alive /\ ~wild /\ b \notin heap /\ heap' = heap \cup {b}
      /\ UNCHANGED <<alive, loop, inner, last, wild>>
  BY DEF CoroMallocFull, ClientRuns
<1>2. \A n \in 1 .. PendingLen : ~Owns(n, b)
  BY <1>1 DEF IInv, PendingFreesAreValid
<1>3. \A r \in dropped : r.data # b /\ r.data \in Blocks
  BY <1>1, DeferredFacts DEF IInv, TypeOK, DroppedInv
<1>4. CASE ~InLoop /\ ArrayAppend(x) /\ UNCHANGED dropped
  <2>1. /\ ArrayInv' /\ ~InLoop' /\ base' # NULL /\ PendingLen \in Nat
        /\ PendingLen' = PendingLen + 1
        /\ items'[PendingLen + 1] = x
        /\ \A n \in 1 .. PendingLen : items'[n] = items[n]
    BY <1>0, <1>1, <1>4, AppendPending
  <2>2. TypeOK'
    BY <1>1, <1>4, <2>1 DEF IInv, TypeOK, ArrayInv
  <2>3. StaleOnlyAfterGrowth' /\ LoopInv' /\ DeadInv'
    BY <1>1, <2>1 DEF IInv, StaleOnlyAfterGrowth, LoopInv, DeadInv, InLoop
  <2>4. \A n \in 1 .. PendingLen', c \in Blocks :
           Owns(n, c)' => IF n = PendingLen + 1 THEN c = b
                          ELSE n \in 1 .. PendingLen /\ Owns(n, c)
    <3> SUFFICES ASSUME NEW n \in 1 .. PendingLen', NEW c \in Blocks, Owns(n, c)'
                 PROVE  IF n = PendingLen + 1 THEN c = b
                        ELSE n \in 1 .. PendingLen /\ Owns(n, c)
      OBVIOUS
    <3>1. CASE n = PendingLen + 1
      <4>1. PICK func \in Funcs : x = Release(func, c)
        BY <2>1, <3>1 DEF Owns
      <4>2. x.data = c
        BY <4>1, DeferredFacts
      <4> QED BY <1>0, <3>1, <4>2
    <3>2. CASE n # PendingLen + 1
      BY <2>1, <3>2 DEF Owns
    <3> QED BY <3>1, <3>2
  <2>5. PendingFreesAreValid'
    <3> SUFFICES ASSUME NEW n \in 1 .. PendingLen', NEW c \in Blocks, Owns(n, c)'
                 PROVE  /\ c \in heap'
                        /\ \A m \in 1 .. PendingLen' : Owns(m, c)' => n = m
      BY DEF PendingFreesAreValid
    <3> QED BY <1>1, <1>2, <2>4 DEF IInv, PendingFreesAreValid
  <2>6. \A r : WillRelease(r) => WillRelease(r)'
    BY <1>4, <2>1 DEF WillRelease
  <2>7. WillRelease(x)'
    <3>1. PendingLen + 1 \in 1 .. PendingLen'
      BY <2>1
    <3> QED BY <2>1, <3>1 DEF WillRelease
  <2>8. NoLeak'
    BY <1>1, <2>6, <2>7 DEF IInv, NoLeak
  <2>9. DroppedInv'
    <3> SUFFICES ASSUME NEW r \in dropped
                 PROVE  /\ r.data \in heap'
                        /\ \A n \in 1 .. PendingLen' : ~Owns(n, r.data)'
      BY <1>4 DEF DroppedInv
    <3>1. r.data \in heap /\ \A n \in 1 .. PendingLen : ~Owns(n, r.data)
      BY DEF IInv, DroppedInv
    <3> QED BY <1>1, <1>3, <2>4, <3>1
  <2> QED BY <2>1, <2>2, <2>3, <2>5, <2>8, <2>9 DEF IInv, ArrayInv
<1>5. CASE InLoop /\ ArrayAppend(x) /\ dropped' = dropped \cup {x}
  <2>1. /\ ArrayInv' /\ InLoop' /\ base' # NULL
        /\ PendingLen' = PendingLen
        /\ \A n \in 1 .. PendingLen : items'[n] = items[n]
        /\ StaleOnlyAfterGrowth'
    BY <1>0, <1>1, <1>5, AppendInLoop
  <2>2. TypeOK'
    BY <1>0, <1>1, <1>5, <2>1 DEF IInv, TypeOK, ArrayInv
  <2>3. LoopInv' /\ DeadInv'
    BY <1>1, <2>1 DEF IInv, LoopInv, DeadInv, InLoop
  <2>4. PendingFreesAreValid' /\ NoLeak' /\ DroppedInv'
    BY <1>1, <1>5, <2>1, LostRelease
  <2> QED BY <2>1, <2>2, <2>3, <2>4 DEF IInv, ArrayInv
<1>6. CASE ArrayAppendFails /\ dropped' = dropped \cup {x}
  <2>1. UNCHANGED arrayVars
    BY <1>6 DEF ArrayAppendFails
  <2>2. TypeOK' /\ ElementsAllocated'
    BY <1>0, <1>1, <1>6, <2>1
       DEF IInv, TypeOK, ArrayTypeOK, ElementsAllocated, Capacity, arrayVars
  <2>3. StaleOnlyAfterGrowth' /\ LoopInv' /\ DeadInv'
    BY <1>1, <2>1 DEF IInv, StaleOnlyAfterGrowth, LoopInv, DeadInv, InLoop, arrayVars
  <2>4. PendingLen' = PendingLen /\ items' = items
    BY <1>1, <2>1 DEF PendingLen, InLoop, arrayVars
  <2>5. PendingFreesAreValid' /\ NoLeak' /\ DroppedInv'
    BY <1>1, <1>6, <2>4, LostRelease
  <2> QED BY <2>2, <2>3, <2>5 DEF IInv
<1> QED BY <1>4, <1>5, <1>6 DEF CoroMallocFull

LEMMA InnerAppendIInv ==
    ASSUME IInv, NEW b \in Blocks, InnerAppend(b)
    PROVE  IInv'
<1> DEFINE x == Release("coro_lwan_array_free", b)
<1>1. /\ inner' = inner \cup {b}
      /\ UNCHANGED <<arrayVars, alive, loop, heap, dropped, last, wild>>
  BY DEF InnerAppend
<1>2. WillRelease(x)
  BY DEF InnerAppend
<1>3. PendingLen' = PendingLen /\ \A n, c : Owns(n, c)' <=> Owns(n, c)
  BY <1>1 DEF PendingLen, InLoop, Owns, arrayVars
<1>4. \A r : WillRelease(r)' <=> WillRelease(r)
  BY <1>1, <1>3 DEF WillRelease, arrayVars
<1>5. NoLeak'
  BY <1>1, <1>2, <1>4 DEF IInv, NoLeak, arrayVars
<1>6. PendingFreesAreValid' /\ DroppedInv'
  BY <1>1, <1>3 DEF IInv, PendingFreesAreValid, DroppedInv
<1>7. TypeOK' /\ ElementsAllocated'
  BY <1>1 DEF IInv, TypeOK, ArrayTypeOK, ElementsAllocated, Capacity, arrayVars
<1>8. StaleOnlyAfterGrowth' /\ LoopInv' /\ DeadInv'
  BY <1>1 DEF IInv, StaleOnlyAfterGrowth, LoopInv, DeadInv, InLoop, arrayVars
<1> QED BY <1>5, <1>6, <1>7, <1>8 DEF IInv

LEMMA EnterIInv ==
    ASSUME IInv, NEW g \in 0 .. Len(items), NEW then \in Thens,
           then # "return" => g = 0, Enter(g, then)
    PROVE  IInv'
<1>1. /\ alive /\ ~InLoop
      /\ loop' = [i |-> Len(items), generation |-> g, start |-> Len(items),
                  defers |-> base, inHook |-> FALSE, then |-> then]
      /\ UNCHANGED <<arrayVars, alive, memory, last, wild>>
  BY DEF Enter
<1>2. Len(items) \in Nat
  BY PendingFacts DEF IInv
<1>3. InLoop' /\ PendingLen' = PendingLen
  BY <1>1 DEF InLoop, PendingLen, Thens
<1>4. PendingFreesAreValid' /\ NoLeak' /\ DroppedInv'
  BY <1>1, <1>3, SameCalls DEF arrayVars, memory
<1>5. TypeOK' /\ ElementsAllocated'
  BY <1>1, <1>2
     DEF IInv, TypeOK, ArrayTypeOK, ElementsAllocated, Capacity, arrayVars, memory
<1>6. StaleOnlyAfterGrowth' /\ LoopInv' /\ DeadInv'
  BY <1>1, <1>2, <1>3 DEF IInv, StaleOnlyAfterGrowth, LoopInv, DeadInv, arrayVars
<1> QED BY <1>4, <1>5, <1>6 DEF IInv

LEMMA DeferredCallIInv == ASSUME IInv, DeferredCall PROVE IInv'
<1> DEFINE n0 == loop.i
           x == items[n0]
<1>1. /\ InLoop /\ n0 # loop.generation /\ loop.defers = base
      /\ heap' = IF x.func \in Funcs THEN heap \ {x.data} ELSE heap
      /\ inner' = IF x.func = "coro_lwan_array_free" THEN inner \ {x.data} ELSE inner
      /\ last' = x
      /\ loop' = [loop EXCEPT !.i = @ - 1, !.inHook = (x.func = "hook")]
      /\ UNCHANGED <<arrayVars, alive, dropped, wild>>
  BY DEF DeferredCall
<1>2. /\ n0 \in Nat /\ loop.generation \in Nat /\ loop.generation < n0
      /\ PendingLen = n0 /\ n0 \in 1 .. PendingLen /\ x \in Items
  BY <1>1, PendingFacts DEF IInv, TypeOK, StaleOnlyAfterGrowth, PendingLen
<1>3. /\ loop'.i = n0 - 1 /\ loop'.generation = loop.generation
      /\ loop'.then = loop.then /\ loop'.defers = loop.defers /\ loop'.start = loop.start
      /\ loop' \in [i : Nat, generation : Nat, start : Nat, defers : Addrs \cup {NULL},
                    inHook : BOOLEAN, then : Thens \cup {"none"}]
  <2>1. loop' = [loop EXCEPT !.i = n0 - 1, !.inHook = (x.func = "hook")] /\ n0 - 1 \in Nat
    BY <1>1, <1>2
  <2>2. loop \in [i : Nat, generation : Nat, start : Nat, defers : Addrs \cup {NULL},
                  inHook : BOOLEAN, then : Thens \cup {"none"}]
    BY DEF IInv, TypeOK
  <2> DEFINE hook == x.func = "hook"
  <2>3. hook \in BOOLEAN
    OBVIOUS
  <2> HIDE DEF x, n0, hook
  <2> QED BY <2>1, <2>2, <2>3 DEF hook
<1>4. InLoop' /\ PendingLen' = n0 - 1
  BY <1>1, <1>3 DEF InLoop, PendingLen
<1>5. TypeOK' /\ ElementsAllocated'
  BY <1>1, <1>2, <1>3, DeferAssumption
     DEF IInv, TypeOK, ArrayTypeOK, ElementsAllocated, Capacity, arrayVars
<1>6. StaleOnlyAfterGrowth' /\ LoopInv' /\ DeadInv'
  <2>1. /\ n0 <= loop.start /\ loop.start \in Nat /\ loop.start <= Len(items)
    BY <1>1 DEF IInv, TypeOK, StaleOnlyAfterGrowth
  <2>2. base' = base /\ items' = items /\ alive' = alive /\ wild' = wild
    BY <1>1 DEF arrayVars
  <2>3. n0 - 1 <= loop.start /\ loop.generation <= n0 - 1
    BY <1>2, <2>1
  <2>4. StaleOnlyAfterGrowth'
    BY <1>1, <1>3, <2>1, <2>2, <2>3 DEF StaleOnlyAfterGrowth
  <2>5. alive /\ (loop.then # "return" => loop.generation = 0) /\ ~wild
    BY <1>1 DEF IInv, LoopInv
  <2>6. LoopInv'
    BY <1>3, <1>4, <2>2, <2>5 DEF LoopInv
  <2> QED BY <2>2, <2>4, <2>5, <2>6 DEF DeadInv
<1>7. \A n \in 1 .. PendingLen' : /\ n \in 1 .. PendingLen /\ n # n0
                                 /\ \A b : Owns(n, b)' <=> Owns(n, b)
  BY <1>1, <1>2, <1>4 DEF Owns, arrayVars
<1>8. \A b \in Blocks, func \in Funcs :
         x = Release(func, b) => x.func = func /\ x.data = b /\ Owns(n0, b)
  BY DeferredFacts DEF Owns
<1>9. x.func \in Funcs => x.data \in Blocks /\ x = Release(x.func, x.data) /\ Owns(n0, x.data)
  BY <1>2, DeferredFacts DEF Owns, Funcs
<1>10. \A r : WillRelease(r) /\ r # x => WillRelease(r)'
  BY <1>1, <1>2, <1>4 DEF WillRelease, arrayVars
<1>11. PendingFreesAreValid'
  <2> SUFFICES ASSUME NEW n \in 1 .. PendingLen', NEW b \in Blocks, Owns(n, b)'
               PROVE  /\ b \in heap'
                      /\ \A m \in 1 .. PendingLen' : Owns(m, b)' => n = m
    BY DEF PendingFreesAreValid
  <2>1. /\ Owns(n, b) /\ n \in 1 .. PendingLen /\ n # n0 /\ b \in heap
        /\ \A m \in 1 .. PendingLen : Owns(m, b) => n = m
    BY <1>7 DEF IInv, PendingFreesAreValid
  <2>2. b \in heap'
    BY <1>1, <1>2, <1>9, <2>1
  <2> QED BY <1>7, <2>1, <2>2
<1>12. NoLeak'
  <2>1. ASSUME NEW b \in heap' PROVE \E func \in Funcs : WillRelease(Release(func, b))'
    <3>1. b \in heap /\ b \in Blocks
      BY <1>1 DEF IInv, TypeOK
    <3>2. PICK func \in Funcs : WillRelease(Release(func, b))
      BY <3>1 DEF IInv, NoLeak
    <3>3. Release(func, b) # x
      BY <1>1, <1>8, <2>1, <3>1
    <3> QED BY <1>10, <3>2, <3>3
  <2>2. ASSUME NEW b \in inner' PROVE WillRelease(Release("coro_lwan_array_free", b))'
    <3>1. b \in inner /\ b \in Blocks
      BY <1>1 DEF IInv, TypeOK
    <3>2. WillRelease(Release("coro_lwan_array_free", b))
      BY <3>1 DEF IInv, NoLeak
    <3>3. Release("coro_lwan_array_free", b) # x
      BY <1>1, <1>8, <2>2, <3>1 DEF Funcs
    <3> QED BY <1>10, <3>2, <3>3
  <2>3. (~alive => base = NULL)'
    BY <1>1 DEF IInv, NoLeak, arrayVars
  <2> QED BY <2>1, <2>2, <2>3 DEF NoLeak
<1>13. DroppedInv'
  <2> SUFFICES ASSUME NEW r \in dropped
               PROVE  /\ r.data \in heap'
                      /\ \A n \in 1 .. PendingLen' : ~Owns(n, r.data)'
    BY <1>1 DEF DroppedInv
  <2>1. r.data \in heap /\ \A n \in 1 .. PendingLen : ~Owns(n, r.data)
    BY DEF IInv, DroppedInv
  <2>2. r.data \in heap'
    BY <1>1, <1>2, <1>9, <2>1
  <2> QED BY <1>7, <2>1, <2>2
<1> QED BY <1>5, <1>6, <1>11, <1>12, <1>13 DEF IInv

LEMMA ReadStaleIInv == ASSUME IInv, ReadStale PROVE IInv'
<1>1. /\ InLoop /\ loop.i # loop.generation /\ loop.defers # base /\ wild' = TRUE
      /\ UNCHANGED <<arrayVars, alive, loop, memory, last>>
  BY DEF ReadStale
<1>2. InLoop' /\ PendingLen' = PendingLen /\ items' = items /\ alive'
  BY <1>1 DEF InLoop, PendingLen, arrayVars, IInv, LoopInv
<1>3. PendingFreesAreValid' /\ NoLeak' /\ DroppedInv'
  BY <1>1, <1>2, SameCalls DEF memory
<1>4. TypeOK' /\ ElementsAllocated'
  BY <1>1 DEF IInv, TypeOK, ArrayTypeOK, ElementsAllocated, Capacity, arrayVars, memory
<1>5. StaleOnlyAfterGrowth' /\ LoopInv' /\ DeadInv'
  BY <1>1, <1>2 DEF IInv, StaleOnlyAfterGrowth, LoopInv, DeadInv, arrayVars
<1> QED BY <1>3, <1>4, <1>5 DEF IInv

LEMMA DeferredRunEndIInv == ASSUME IInv, DeferredRunEnd PROVE IInv'
<1> DEFINE g == loop.generation
<1>1. /\ InLoop /\ loop.i = g /\ loop' = NoLoop
      /\ alive' = (loop.then # "free")
      /\ ~wild
      /\ UNCHANGED <<memory, last, wild>>
  BY DEF DeferredRunEnd, IInv, LoopInv
<1>2. ~InLoop' /\ PendingLen' = Len(items')
  BY <1>1 DEF InLoop, NoLoop, PendingLen
<1>3. PendingLen = g /\ g \in 0 .. Len(items) /\ ArrayInv
  BY <1>1, PendingFacts DEF IInv, PendingLen, TypeOK, ArrayInv
<1>4. CASE loop.then = "return"
  <2>1. items' = SubSeq(items, 1, g) /\ UNCHANGED <<base, bytes>> /\ alive'
    BY <1>1, <1>4 DEF DeferredRunEnd
  <2>2. ArrayInv' /\ PendingLen' = PendingLen
    BY <1>2, <1>3, <2>1, TruncateArrayInv
  <2>3. \A n \in 1 .. PendingLen : items'[n] = items[n]
    BY <1>3, <2>1, LenProperties DEF ArrayInv, ArrayTypeOK
  <2>4. PendingFreesAreValid' /\ NoLeak' /\ DroppedInv'
    BY <1>1, <2>1, <2>2, <2>3, SameCalls DEF memory
  <2>5. TypeOK' /\ ElementsAllocated'
    BY <1>1, <2>1, <2>2 DEF IInv, TypeOK, ArrayInv, NoLoop, memory
  <2>6. StaleOnlyAfterGrowth' /\ LoopInv' /\ DeadInv'
    BY <1>1, <1>2, <2>1 DEF StaleOnlyAfterGrowth, LoopInv, DeadInv
  <2> QED BY <2>4, <2>5, <2>6 DEF IInv
<1>5. CASE loop.then # "return"
  <2>1. base' = NULL /\ bytes' = 0 /\ items' = << >>
    BY <1>5 DEF DeferredRunEnd, ArrayReset
  <2>2. g = 0
    BY <1>1, <1>5 DEF IInv, LoopInv
  <2>3. PendingLen' = PendingLen /\ PendingLen = 0
    BY <1>2, <1>3, <2>1, <2>2
  <2>4. ArrayInv'
    <3>1. (base = NULL /\ bytes = 0 /\ items = << >> => ArrayInv)'
      BY EmptyArrayInv, PTL
    <3> QED BY <2>1, <3>1
  <2>5. PendingFreesAreValid' /\ NoLeak' /\ DroppedInv'
    BY <1>1, <2>1, <2>3, SameCalls DEF memory
  <2>6. TypeOK' /\ ElementsAllocated'
    BY <1>1, <2>4 DEF IInv, TypeOK, ArrayInv, NoLoop, memory
  <2>7. StaleOnlyAfterGrowth' /\ LoopInv' /\ DeadInv'
    BY <1>1, <1>2, <2>1 DEF StaleOnlyAfterGrowth, LoopInv, DeadInv
  <2> QED BY <2>5, <2>6, <2>7 DEF IInv
<1> QED BY <1>4, <1>5

LEMMA StepIInv == IInv /\ [Next]_vars => IInv'
<1> SUFFICES ASSUME IInv, [Next]_vars PROVE IInv'
  OBVIOUS
<1>0. 0 \in 0 .. Len(items)
  BY PendingFacts DEF IInv
<1>1. CASE CoroNew
  BY <1>1, CoroNewIInv
<1>2. ASSUME NEW h \in Hooks, CoroDefer(h) PROVE IInv'
  BY <1>2, CoroDeferIInv
<1>3. ASSUME NEW b \in Blocks, NEW destroy \in Funcs, CoroMallocFull(b, destroy) PROVE IInv'
  BY <1>3, CoroMallocFullIInv
<1>4. ASSUME NEW b \in Blocks, InnerAppend(b) PROVE IInv'
  BY <1>4, InnerAppendIInv
<1>5. ASSUME NEW g \in 0 .. Len(items), CoroDeferredRun(g) PROVE IInv'
  BY <1>5, EnterIInv DEF CoroDeferredRun, Thens
<1>6. CASE CoroReset
  BY <1>0, <1>6, EnterIInv DEF CoroReset, Thens
<1>7. CASE CoroFree
  BY <1>0, <1>7, EnterIInv DEF CoroFree, Thens
<1>8. CASE Loop
  BY <1>8, DeferredCallIInv, ReadStaleIInv, DeferredRunEndIInv DEF Loop
<1>9. CASE UNCHANGED vars
  <2>1. UNCHANGED <<arrayVars, alive, loop, memory, last, wild>>
    BY <1>9 DEF vars
  <2>2. PendingFreesAreValid' /\ NoLeak' /\ DroppedInv'
    BY <2>1 DEF IInv, PendingFreesAreValid, NoLeak, DroppedInv, WillRelease, Owns,
                PendingLen, InLoop, memory, arrayVars
  <2>3. TypeOK' /\ ElementsAllocated' /\ StaleOnlyAfterGrowth' /\ LoopInv' /\ DeadInv'
    BY <2>1 DEF IInv, TypeOK, ArrayTypeOK, ElementsAllocated, Capacity, StaleOnlyAfterGrowth,
                LoopInv, DeadInv, InLoop, memory, arrayVars
  <2> QED BY <2>2, <2>3 DEF IInv
<1> QED BY <1>1, <1>2, <1>3, <1>4, <1>5, <1>6, <1>7, <1>8, <1>9 DEF Next, Undefined

\* The inductive invariant holds.
THEOREM Invariance == Spec => []IInv
BY InitIInv, StepIInv, PTL DEF Spec

\* The variables keep their types.
THEOREM TypeCorrect == Spec => []TypeOK
BY Invariance, PTL DEF IInv

\* No element of the deferred array, and no slot an append may fill without
\* growing it, lies outside its allocation.
THEOREM ArrayStaysInBounds == Spec => []ElementsAllocated
BY Invariance, PTL DEF IInv

\* The pointer of a running coro_deferred_run() is the array unless a hook it
\* called has made the array grow.
THEOREM LoopPointerIsCurrentUntilGrowth == Spec => []StaleOnlyAfterGrowth
BY Invariance, PTL DEF IInv

\* No deferred function frees memory that is free already.
THEOREM NoDoubleFree == Spec => []PendingFreesAreValid
BY Invariance, PTL DEF IInv

\* What was handed out is pending, dropped or released.
THEOREM NothingLeaks == Spec => []NoLeak
BY Invariance, PTL DEF IInv

\* A coroutine that coro_free() has freed has taken with it every block it
\* handed out and the elements of every array it made, but for those whose
\* release coro_defer_any() had dropped.
FreedHoldsNothing ==
    ~alive => heap = {r.data : r \in dropped} /\ inner \subseteq heap

\* Whatever was deferred, rolled back and reset before.
THEOREM FreeTakesEverything == Spec => []FreedHoldsNothing
<1>1. IInv => FreedHoldsNothing
  <2> SUFFICES ASSUME IInv, ~alive
               PROVE  heap = {r.data : r \in dropped} /\ inner \subseteq heap
    BY DEF FreedHoldsNothing
  <2>1. PendingLen = 0
    BY DEF IInv, LoopInv, DeadInv, PendingLen
  <2>2. \A release : WillRelease(release) => release \in dropped
    BY <2>1 DEF WillRelease
  <2>3. \A func, b : Release(func, b).data = b
    BY DEF Release
  <2>4. \A r \in dropped : r.data \in heap
    BY DEF IInv, DroppedInv
  <2>5. \A b \in heap : b \in {r.data : r \in dropped}
    BY <2>2, <2>3 DEF IInv, NoLeak
  <2>6. \A b \in inner : b \in heap
    BY <2>2, <2>3, <2>4 DEF IInv, NoLeak
  <2> QED BY <2>4, <2>5, <2>6
<1> QED BY <1>1, Invariance, PTL

\* A run of deferred functions is not cut short and does not go on for ever:
\* a step of the coroutine while it runs is one of a hook it has called, or a
\* read of an array that moved, or makes one call less, down to the
\* generation and not below it, or ends the run; that of coro_free() ends
\* with the coroutine gone.
RunStep ==
    \/ loop' = loop /\ (loop.inHook \/ wild')
    \/ /\ InLoop'
       /\ loop'.i = loop.i - 1 /\ loop'.i >= loop.generation
       /\ loop'.generation = loop.generation /\ loop'.then = loop.then
    \/ /\ ~InLoop'
       /\ loop.i = loop.generation
       /\ loop.then = "free" => ~alive'

RunsComeToTheirEnd == [][InLoop => RunStep]_vars

\* With FreeTakesEverything, the safety half of FreeReleasesAll.
THEOREM RunsEnd == Spec => RunsComeToTheirEnd
<1>1. ASSUME IInv, [Next]_vars, InLoop, vars' # vars
      PROVE  RunStep
  <2>1. /\ loop \in [i : Nat, generation : Nat, start : Nat, defers : Addrs \cup {NULL},
                     inHook : BOOLEAN, then : Thens \cup {"none"}]
        /\ loop.generation <= loop.i
    BY <1>1 DEF IInv, TypeOK, StaleOnlyAfterGrowth
  <2>2. alive
    BY <1>1 DEF IInv, LoopInv
  <2>3. \/ Loop
        \/ ClientRuns /\ loop' = loop
    BY <1>1, <2>2 DEF Next, CoroNew, CoroDefer, CoroMallocFull, InnerAppend,
                      CoroDeferredRun, CoroReset, CoroFree, Enter, Undefined
  <2>4. CASE DeferredCall
    <3>1. /\ loop.i # loop.generation
          /\ loop' = [loop EXCEPT !.i = loop.i - 1, !.inHook = (items[loop.i].func = "hook")]
      BY <2>4 DEF DeferredCall
    <3>2. /\ loop'.i = loop.i - 1 /\ loop'.then = loop.then
          /\ loop'.generation = loop.generation
      BY <2>1, <3>1
    <3>3. loop'.i >= loop.generation
      BY <2>1, <3>1, <3>2
    <3>4. InLoop'
      BY <1>1, <3>2 DEF InLoop
    <3> QED BY <3>2, <3>3, <3>4 DEF RunStep
  <2>5. CASE ReadStale
    BY <2>5 DEF ReadStale, RunStep
  <2>6. CASE DeferredRunEnd
    BY <2>6 DEF DeferredRunEnd, InLoop, NoLoop, RunStep
  <2>7. CASE ClientRuns /\ loop' = loop
    BY <1>1, <2>7 DEF ClientRuns, RunStep
  <2> QED BY <2>3, <2>4, <2>5, <2>6, <2>7 DEF Loop
<1>2. ASSUME IInv, [Next]_vars
      PROVE  [InLoop => RunStep]_vars
  BY <1>1, <1>2
<1> QED BY <1>2, Invariance, PTL DEF Spec, RunsComeToTheirEnd

-----------------------------------------------------------------------------
(* Refinement of DeferStack                                                *)

pendingBar == SubSeq(items, 1, PendingLen)

targetBar == IF InLoop THEN loop.generation ELSE NULL

barVars == <<pendingBar, targetBar, last>>

\* The pending calls are a prefix of the array.
LEMMA PendingBarFacts ==
    ASSUME TypeOK, StaleOnlyAfterGrowth
    PROVE  /\ pendingBar \in Seq(Items) /\ Len(pendingBar) = PendingLen
           /\ PendingLen \in Nat
           /\ \A n \in 1 .. PendingLen : pendingBar[n] = items[n]
<1>1. PendingLen \in Nat /\ \A n \in 1 .. PendingLen : items[n] \in Items
  BY PendingFacts
<1> HIDE DEF PendingLen
<1>2. /\ SubSeq(items, 1, PendingLen) \in Seq(Items)
      /\ Len(SubSeq(items, 1, PendingLen)) = IF 1 <= PendingLen THEN PendingLen - 1 + 1 ELSE 0
      /\ \A n \in 1 .. PendingLen - 1 + 1 : SubSeq(items, 1, PendingLen)[n] = items[1 + n - 1]
  BY <1>1, SubSeqProperties
<1>3. \A n \in 1 .. PendingLen : n \in 1 .. PendingLen - 1 + 1 /\ 1 + n - 1 = n
  BY <1>1
<1> QED BY <1>1, <1>2, <1>3 DEF pendingBar

LEMMA PendingBarInv ==
    IInv => /\ pendingBar \in Seq(Items) /\ Len(pendingBar) = PendingLen
            /\ PendingLen \in Nat
            /\ \A n \in 1 .. PendingLen : pendingBar[n] = items[n]
BY PendingBarFacts DEF IInv

\* The same facts after a step.
LEMMA PendingBarFactsNext ==
    ASSUME IInv'
    PROVE  /\ pendingBar' \in Seq(Items) /\ Len(pendingBar') = PendingLen'
           /\ PendingLen' \in Nat
           /\ \A n \in 1 .. PendingLen' : pendingBar'[n] = items'[n]
<1>1. (IInv => /\ pendingBar \in Seq(Items) /\ Len(pendingBar) = PendingLen
               /\ PendingLen \in Nat
               /\ \A n \in 1 .. PendingLen : pendingBar[n] = items[n])'
  BY PendingBarInv, PTL
<1> QED BY <1>1

\* If the pending calls are the same, so is what DeferStack sees of them.
LEMMA SamePending ==
    ASSUME IInv, IInv', PendingLen' = PendingLen,
           \A n \in 1 .. PendingLen : items'[n] = items[n]
    PROVE  pendingBar' = pendingBar
<1>1. /\ pendingBar \in Seq(Items) /\ Len(pendingBar) = PendingLen
      /\ PendingLen \in Nat
      /\ \A n \in 1 .. PendingLen : pendingBar[n] = items[n]
  BY PendingBarFacts DEF IInv
<1>2. /\ pendingBar' \in Seq(Items) /\ Len(pendingBar') = PendingLen'
      /\ \A n \in 1 .. PendingLen' : pendingBar'[n] = items'[n]
  BY PendingBarFactsNext
<1> QED BY <1>1, <1>2, SeqEqual

LEMMA AppendRefines ==
    ASSUME IInv, IInv', ~InLoop, UNCHANGED <<loop, last>>, NEW x \in Items, ArrayAppend(x)
    PROVE  [Stack!Next]_barVars
<1>1. /\ ~InLoop' /\ PendingLen \in Nat /\ PendingLen' = PendingLen + 1
      /\ items'[PendingLen + 1] = x
      /\ \A n \in 1 .. PendingLen : items'[n] = items[n]
  BY AppendPending
<1>2. /\ pendingBar \in Seq(Items) /\ Len(pendingBar) = PendingLen
      /\ \A n \in 1 .. PendingLen : pendingBar[n] = items[n]
  BY PendingBarFacts DEF IInv
<1>3. /\ pendingBar' \in Seq(Items) /\ Len(pendingBar') = PendingLen'
      /\ \A n \in 1 .. PendingLen' : pendingBar'[n] = items'[n]
  BY PendingBarFactsNext
<1>4. pendingBar' = Append(pendingBar, x)
  <2> DEFINE t == Append(pendingBar, x)
  <2>1. t \in Seq(Items) /\ Len(t) = PendingLen + 1
    BY <1>2
  <2>2. ASSUME NEW n \in 1 .. PendingLen + 1 PROVE pendingBar'[n] = t[n]
    <3>1. CASE n = PendingLen + 1
      BY <1>1, <1>2, <1>3, <3>1
    <3>2. CASE n # PendingLen + 1
      <4>1. n \in 1 .. PendingLen
        BY <1>1, <3>2
      <4> QED BY <1>1, <1>2, <1>3, <4>1
    <3> QED BY <3>1, <3>2
  <2> HIDE DEF t
  <2>3. pendingBar' = t
    BY <1>1, <1>3, <2>1, <2>2, SeqEqual
  <2> QED BY <2>3 DEF t
<1>5. targetBar = NULL /\ targetBar' = NULL
  BY <1>1 DEF targetBar
<1>6. Stack!Push(x)
  BY <1>4, <1>5 DEF Stack!Push, pendingBar, targetBar
<1> QED BY <1>6 DEF Stack!Next

LEMMA LoopAppendRefines ==
    ASSUME IInv, IInv', InLoop, UNCHANGED <<loop, last>>, NEW x \in Items, ArrayAppend(x)
    PROVE  UNCHANGED barVars
<1>1. /\ InLoop' /\ PendingLen' = PendingLen
      /\ \A n \in 1 .. PendingLen : items'[n] = items[n]
  BY AppendInLoop
<1>2. pendingBar' = pendingBar
  BY <1>1, SamePending
<1>3. targetBar' = targetBar
  BY <1>1 DEF targetBar
<1> QED BY <1>2, <1>3 DEF barVars

LEMMA FailsRefines ==
    ASSUME IInv, IInv', UNCHANGED <<arrayVars, loop, last>>
    PROVE  UNCHANGED barVars
<1>1. PendingLen' = PendingLen /\ items' = items /\ targetBar' = targetBar
  BY DEF PendingLen, InLoop, arrayVars, targetBar
<1> QED BY <1>1, SamePending DEF barVars

LEMMA EnterRefines ==
    ASSUME IInv, IInv', NEW g \in 0 .. Len(items), NEW then \in Thens, Enter(g, then)
    PROVE  [Stack!Next]_barVars
<1>1. /\ ~InLoop
      /\ loop' = [i |-> Len(items), generation |-> g, start |-> Len(items),
                  defers |-> base, inHook |-> FALSE, then |-> then]
      /\ items' = items /\ last' = last
  BY DEF Enter, arrayVars
<1>2. InLoop' /\ PendingLen' = PendingLen /\ PendingLen = Len(items)
  BY <1>1 DEF InLoop, PendingLen, Thens
<1>3. pendingBar' = pendingBar /\ Len(pendingBar) = Len(items)
  BY <1>1, <1>2, SamePending, PendingBarFacts DEF IInv
<1>4. targetBar = NULL /\ targetBar' = g
  BY <1>1, <1>2 DEF targetBar
<1>5. Stack!Begin(g) /\ g \in 0 .. Len(pendingBar)
  BY <1>1, <1>3, <1>4 DEF Stack!Begin, pendingBar, targetBar
<1> QED BY <1>5 DEF Stack!Next, pendingBar

LEMMA DeferredCallRefines ==
    ASSUME IInv, IInv', DeferredCall
    PROVE  [Stack!Next]_barVars
<1> DEFINE n0 == loop.i
<1>1. /\ InLoop /\ n0 # loop.generation /\ last' = items[n0]
      /\ loop' = [loop EXCEPT !.i = @ - 1, !.inHook = (items[n0].func = "hook")]
      /\ items' = items
  BY DEF DeferredCall, arrayVars
<1>2. /\ n0 \in Nat /\ loop.generation \in Nat /\ loop.generation < n0
      /\ PendingLen = n0
  BY <1>1 DEF IInv, TypeOK, StaleOnlyAfterGrowth, PendingLen
<1>3. loop'.i = n0 - 1 /\ loop'.generation = loop.generation /\ loop'.then = loop.then
  BY <1>1 DEF IInv, TypeOK
<1>4. InLoop' /\ PendingLen' = n0 - 1
  BY <1>1, <1>3 DEF InLoop, PendingLen
<1>5. /\ pendingBar \in Seq(Items) /\ Len(pendingBar) = n0
      /\ \A n \in 1 .. n0 : pendingBar[n] = items[n]
  BY <1>2, PendingBarFacts DEF IInv
<1>6. /\ pendingBar' \in Seq(Items) /\ Len(pendingBar') = n0 - 1
      /\ \A n \in 1 .. n0 - 1 : pendingBar'[n] = items[n]
  BY <1>1, <1>4, PendingBarFactsNext
<1> HIDE DEF n0
<1>7. pendingBar' = SubSeq(pendingBar, 1, n0 - 1)
  <2> DEFINE t == SubSeq(pendingBar, 1, n0 - 1)
  <2>1. /\ t \in Seq(Items) /\ Len(t) = n0 - 1
        /\ \A n \in 1 .. n0 - 1 : t[n] = pendingBar[n]
    BY <1>2, <1>5
  <2> HIDE DEF t
  <2>2. pendingBar' = t
    BY <1>2, <1>5, <1>6, <2>1, SeqEqual
  <2> QED BY <2>2 DEF t
<1>8. last' = pendingBar[Len(pendingBar)]
  BY <1>1, <1>2, <1>5 DEF n0
<1>9. targetBar = loop.generation /\ targetBar' = targetBar /\ targetBar # NULL
  BY <1>1, <1>2, <1>3, <1>4, DeferAssumption DEF targetBar
<1>10. Stack!Call
  BY <1>2, <1>5, <1>7, <1>8, <1>9 DEF Stack!Call, pendingBar, targetBar
<1> QED BY <1>10 DEF Stack!Next

LEMMA DeferredRunEndRefines ==
    ASSUME IInv, IInv', DeferredRunEnd
    PROVE  [Stack!Next]_barVars
<1> DEFINE g == loop.generation
<1>1. InLoop /\ loop.i = g /\ loop' = NoLoop /\ last' = last
  BY DEF DeferredRunEnd
<1>2. /\ ~InLoop' /\ PendingLen' = Len(items')
      /\ PendingLen = g /\ g \in Nat /\ g \in 0 .. Len(items) /\ ArrayInv
  BY <1>1, PendingFacts DEF InLoop, NoLoop, PendingLen, IInv, TypeOK, ArrayInv
<1>3. PendingLen' = PendingLen /\ \A n \in 1 .. PendingLen : items'[n] = items[n]
  <2>1. CASE loop.then = "return"
    <3>1. items' = SubSeq(items, 1, g) /\ UNCHANGED <<base, bytes>>
      BY <2>1 DEF DeferredRunEnd
    <3>2. Len(items') = g
      BY <1>2, <3>1, TruncateArrayInv
    <3>3. \A n \in 1 .. g : items'[n] = items[n]
      BY <1>2, <3>1, LenProperties DEF ArrayInv, ArrayTypeOK
    <3> QED BY <1>2, <3>2, <3>3
  <2>2. CASE loop.then # "return"
    <3>1. items' = << >> /\ g = 0
      BY <1>1, <2>2 DEF DeferredRunEnd, ArrayReset, IInv, LoopInv
    <3> QED BY <1>2, <3>1
  <2> QED BY <2>1, <2>2
<1>4. pendingBar' = pendingBar /\ Len(pendingBar) = g
  BY <1>2, <1>3, SamePending, PendingBarFacts DEF IInv
<1>5. targetBar = g /\ targetBar' = NULL /\ targetBar # NULL
  BY <1>1, <1>2, DeferAssumption DEF targetBar
<1>6. Stack!End
  BY <1>1, <1>4, <1>5 DEF Stack!End, pendingBar, targetBar
<1> QED BY <1>6 DEF Stack!Next

LEMMA CoroNewRefines ==
    ASSUME IInv, IInv', CoroNew
    PROVE  UNCHANGED barVars
<1>1. /\ items = << >> /\ items' = << >> /\ loop' = loop /\ last' = last
  BY DEF CoroNew, IInv, DeadInv
<1>2. ~InLoop
  BY DEF CoroNew, IInv, LoopInv
<1>3. PendingLen' = PendingLen /\ targetBar' = targetBar
  BY <1>1, <1>2 DEF PendingLen, InLoop, targetBar
<1>4. pendingBar' = pendingBar
  BY <1>1, <1>3, SamePending
<1> QED BY <1>1, <1>3, <1>4 DEF barVars

LEMMA InitRefines == Init => Stack!Init
<1> SUFFICES ASSUME Init PROVE Stack!Init
  OBVIOUS
<1>1. items = << >> /\ ~InLoop /\ last = NULL
  BY DEF Init, ArrayInit, InLoop, NoLoop
<1>2. PendingLen = 0
  BY <1>1 DEF PendingLen
<1>3. SubSeq(items, 1, PendingLen) = << >>
  BY <1>1, <1>2
<1> QED BY <1>1, <1>3 DEF Stack!Init

LEMMA StepRefines == IInv /\ IInv' /\ [Next]_vars => [Stack!Next]_barVars
<1> SUFFICES ASSUME IInv, IInv', [Next]_vars PROVE [Stack!Next]_barVars
  OBVIOUS
<1>0. 0 \in 0 .. Len(items)
  BY PendingFacts DEF IInv
<1>1. CASE CoroNew
  BY <1>1, CoroNewRefines
<1>2. ASSUME NEW h \in Hooks, CoroDefer(h) PROVE [Stack!Next]_barVars
  <2>1. Hook(h) \in Items /\ UNCHANGED <<loop, last>>
    BY <1>2, DeferredFacts DEF CoroDefer
  <2> QED BY <1>2, <2>1, AppendRefines, LoopAppendRefines, FailsRefines
          DEF CoroDefer, ArrayAppendFails
<1>3. ASSUME NEW b \in Blocks, NEW destroy \in Funcs, CoroMallocFull(b, destroy)
      PROVE  [Stack!Next]_barVars
  <2>1. Release(destroy, b) \in Items /\ UNCHANGED <<loop, last>>
    BY <1>3, DeferredFacts DEF CoroMallocFull
  <2> QED BY <1>3, <2>1, AppendRefines, LoopAppendRefines, FailsRefines
          DEF CoroMallocFull, ArrayAppendFails
<1>4. ASSUME NEW b \in Blocks, InnerAppend(b) PROVE [Stack!Next]_barVars
  BY <1>4, FailsRefines DEF InnerAppend
<1>5. ASSUME NEW g \in 0 .. Len(items), CoroDeferredRun(g) PROVE [Stack!Next]_barVars
  BY <1>5, EnterRefines DEF CoroDeferredRun, Thens
<1>6. CASE CoroReset
  BY <1>0, <1>6, EnterRefines DEF CoroReset, Thens
<1>7. CASE CoroFree
  BY <1>0, <1>7, EnterRefines DEF CoroFree, Thens
<1>8. CASE Loop
  <2>1. ReadStale => UNCHANGED <<arrayVars, loop, last>>
    BY DEF ReadStale
  <2> QED BY <1>8, <2>1, DeferredCallRefines, FailsRefines, DeferredRunEndRefines DEF Loop
<1>9. CASE UNCHANGED vars
  BY <1>9, FailsRefines DEF vars
<1> QED BY <1>1, <1>2, <1>3, <1>4, <1>5, <1>6, <1>7, <1>8, <1>9 DEF Next, Undefined

\* coro_deferred_run(), coro_reset() and coro_free() implement a stack of
\* calls.
THEOREM DeferredCallsFormAStack == Spec => ImplementsDeferStack
<1>1. [Stack!Next]_barVars => [Stack!Next]_Stack!svars
  BY DEF barVars, pendingBar, targetBar, Stack!svars
<1> QED BY <1>1, InitRefines, StepRefines, Invariance, PTL
        DEF Spec, ImplementsDeferStack, Stack!Spec

=============================================================================
