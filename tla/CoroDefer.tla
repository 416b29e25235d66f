------------------------------ MODULE CoroDefer ------------------------------
(***************************************************************************)
(* lwan-coro.c: the deferred functions of one coroutine and the memory     *)
(* they own.  coro->defer is the array of LwanArray; coro_malloc(),        *)
(* coro_strndup(), coro_printf() and coro_lwan_array_new() hand out blocks *)
(* whose release is deferred.                                              *)
(*                                                                         *)
(* Deferred functions are free(), coro_lwan_array_free() and the client's  *)
(* own ("hook").  A hook may itself defer: coro_deferred_run() keeps the   *)
(* pointer it took from the array while it calls, goes on with an index    *)
(* that only decreases, and cuts the array back when it is done.  So what  *)
(* a hook defers is never called, and once it has made the array grow the  *)
(* loop may be reading memory that realloc() has freed; from there on      *)
(* nothing is known (wild).                                                *)
(* That a hook neither runs the deferred functions of the coroutine it is  *)
(* deferred on, nor resets, frees or leaves it, is assumed of callers: the *)
(* code checks nothing.                                                    *)
(***************************************************************************)
EXTENDS LwanArray

CONSTANTS Blocks,   \* blocks of memory malloc() can return
          Hooks     \* calls a client defers itself

Funcs == {"free", "coro_lwan_array_free"}

Release(func, b) == [func |-> func, data |-> b]

Hook(h) == [func |-> "hook", data |-> h]

Releases == {Release(func, b) : func \in Funcs, b \in Blocks}

Deferred == Releases \cup {Hook(h) : h \in Hooks}

ASSUME DeferAssumption == Items = Deferred /\ NULL \notin Nat

VARIABLES
    alive,      \* the coroutine exists
    loop,       \* the coro_deferred_run() in progress
    heap,       \* blocks allocated and not freed
    inner,      \* coro_lwan_array blocks whose own base is allocated
    dropped,    \* the releases that no run will make
    last,       \* the deferred call made last
    wild        \* the loop has read an array that was freed

memory == <<heap, inner, dropped>>
vars == <<arrayVars, alive, loop, memory, last, wild>>

\* What the caller of coro_deferred_run() does next.
Thens == {"return", "reset", "free"}

\* start is array->elements when the loop begins, inHook that the call it
\* made last is a hook, which is running until the loop goes on.
NoLoop == [i |-> 0, generation |-> 0, start |-> 0, defers |-> NULL,
           inHook |-> FALSE, then |-> "none"]

InLoop == loop.then # "none"

\* The calls that are still to be made.
PendingLen == IF InLoop THEN loop.i ELSE Len(items)

WillRelease(release) ==
    release \in dropped \/ \E n \in 1 .. PendingLen : items[n] = release

\* The client runs on the coroutine: its own code, or a hook of the loop.
ClientRuns == alive /\ ~wild /\ (InLoop => loop.inHook)

Init ==
    /\ ArrayInit
    /\ alive = FALSE
    /\ loop = NoLoop
    /\ heap = {}
    /\ inner = {}
    /\ dropped = {}
    /\ last = NULL
    /\ wild = FALSE

-----------------------------------------------------------------------------

\* coro_new(): its coro_reset() finds nothing deferred.
CoroNew ==
    /\ ~alive
    /\ alive' = TRUE
    /\ base' = NULL /\ bytes' = 0 /\ items' = << >>
    /\ UNCHANGED <<loop, memory, last, wild>>

\* coro_defer() and coro_defer2() through coro_defer_any(): when the array
\* cannot grow, the call is dropped and the caller is not told.
CoroDefer(h) ==
    /\ ClientRuns
    /\ \/ ArrayAppend(Hook(h))
       \/ ArrayAppendFails
    /\ UNCHANGED <<alive, loop, memory, last, wild>>

\* coro_malloc_full() when malloc() succeeds, and coro_printf() with free():
\* the block is returned even if its release could not be deferred.  A hook
\* gets a block whose release is lost at once: it lies above the loop.
CoroMallocFull(b, destroy) ==
    /\ ClientRuns
    /\ b \notin heap
    /\ heap' = heap \cup {b}
    /\ \/ /\ ArrayAppend(Release(destroy, b))
          /\ dropped' = IF InLoop THEN dropped \cup {Release(destroy, b)} ELSE dropped
       \/ /\ ArrayAppendFails
          /\ dropped' = dropped \cup {Release(destroy, b)}
    /\ UNCHANGED <<alive, loop, inner, last, wild>>

\* The first lwan_array_append() to an array from coro_lwan_array_new(),
\* which is in use until it is released, if it ever is.
InnerAppend(b) ==
    /\ ClientRuns
    /\ WillRelease(Release("coro_lwan_array_free", b))
    /\ inner' = inner \cup {b}
    /\ UNCHANGED <<arrayVars, alive, loop, heap, dropped, last, wild>>

\* Wrong: the loop starts one call too low.
EnterBelow(g, then) ==
    /\ alive /\ ~InLoop
    /\ loop' = [i |-> Len(items) - 1, generation |-> g, start |-> Len(items),
                defers |-> base, inHook |-> FALSE, then |-> then]
    /\ UNCHANGED <<arrayVars, alive, memory, last, wild>>

\* coro_deferred_run() entered with the generation g, not from a hook.
Enter(g, then) ==
    /\ alive /\ ~InLoop
    /\ loop' = [i |-> Len(items), generation |-> g, start |-> Len(items),
                defers |-> base, inHook |-> FALSE, then |-> then]
    /\ UNCHANGED <<arrayVars, alive, memory, last, wild>>

\* g is a result of coro_deferred_get_generation() that is still valid.
CoroDeferredRun(g) == Enter(g, "return")

CoroReset == Enter(0, "reset")

\* Wrong: the coroutine is freed without running what it deferred.
CoroFreeRunsNothing == Enter(Len(items), "free")

CoroFree == Enter(0, "free")

\* Wrong: coro_lwan_array_free() without lwan_array_reset().
DeferredCallKeepsBase ==
    LET defer == items[loop.i]
    IN  /\ InLoop /\ loop.i # loop.generation /\ loop.defers = base
        /\ heap' = IF defer.func \in Funcs THEN heap \ {defer.data} ELSE heap
        /\ last' = defer
        /\ loop' = [loop EXCEPT !.i = @ - 1, !.inHook = (defer.func = "hook")]
        /\ UNCHANGED <<arrayVars, alive, inner, dropped, wild>>

\* Wrong: the calls are made in the order they were deferred in.
DeferredCallOldestFirst ==
    LET defer == items[Len(items) + 1 - loop.i + loop.generation]
    IN  /\ InLoop /\ loop.i # loop.generation /\ loop.defers = base
        /\ heap' = IF defer.func \in Funcs THEN heap \ {defer.data} ELSE heap
        /\ inner' = IF defer.func = "coro_lwan_array_free"
                    THEN inner \ {defer.data} ELSE inner
        /\ last' = defer
        /\ loop' = [loop EXCEPT !.i = @ - 1, !.inHook = (defer.func = "hook")]
        /\ UNCHANGED <<arrayVars, alive, dropped, wild>>

\* One iteration of the loop: the call deferred at i - 1.
DeferredCall ==
    LET defer == items[loop.i]
    IN  /\ InLoop /\ loop.i # loop.generation /\ loop.defers = base
        /\ heap' = IF defer.func \in Funcs THEN heap \ {defer.data} ELSE heap
        /\ inner' = IF defer.func = "coro_lwan_array_free"
                    THEN inner \ {defer.data} ELSE inner
        /\ last' = defer
        /\ loop' = [loop EXCEPT !.i = @ - 1, !.inHook = (defer.func = "hook")]
        /\ UNCHANGED <<arrayVars, alive, dropped, wild>>

\* The iteration that finds the array moved by the call before it.
ReadStale ==
    /\ InLoop /\ loop.i # loop.generation /\ loop.defers # base
    /\ ~wild
    /\ wild' = TRUE
    /\ UNCHANGED <<arrayVars, alive, loop, memory, last>>

\* Wrong: array->elements is left as it was.
DeferredRunEndKeepsElements ==
    /\ InLoop /\ loop.i = loop.generation
    /\ IF loop.then = "return" THEN UNCHANGED arrayVars ELSE ArrayReset
    /\ alive' = (loop.then # "free")
    /\ loop' = NoLoop
    /\ UNCHANGED <<memory, last, wild>>

\* The end of the loop, where array->elements becomes the generation, and
\* the rest of the caller: coro_reset() and coro_free() empty the array,
\* coro_free() frees the coroutine.
DeferredRunEnd ==
    /\ InLoop /\ loop.i = loop.generation
    /\ IF loop.then = "return"
       THEN items' = SubSeq(items, 1, loop.generation) /\ UNCHANGED <<base, bytes>>
       ELSE ArrayReset
    /\ alive' = (loop.then # "free")
    /\ loop' = NoLoop
    /\ UNCHANGED <<memory, last, wild>>

Loop == DeferredCall \/ ReadStale \/ DeferredRunEnd

\* What follows a read of freed memory is not modelled.
Undefined == wild /\ UNCHANGED vars

Next ==
    \/ CoroNew
    \/ \E h \in Hooks : CoroDefer(h)
    \/ \E b \in Blocks, destroy \in Funcs : CoroMallocFull(b, destroy)
    \/ \E b \in Blocks : InnerAppend(b)
    \/ \E g \in 0 .. Len(items) : CoroDeferredRun(g)
    \/ CoroReset
    \/ CoroFree
    \/ Loop
    \/ Undefined

Spec == Init /\ [][Next]_vars

\* The loop is straight-line code of the thread: it goes on once entered.
FairSpec == Spec /\ WF_vars(Loop)

-----------------------------------------------------------------------------
(* Properties                                                              *)

TypeOK ==
    /\ ArrayTypeOK
    /\ alive \in BOOLEAN
    /\ loop \in [i : Nat, generation : Nat, start : Nat, defers : Addrs \cup {NULL},
                 inHook : BOOLEAN, then : Thens \cup {"none"}]
    /\ heap \subseteq Blocks
    /\ inner \subseteq Blocks
    /\ dropped \subseteq Releases
    /\ last \in Deferred \cup {NULL}
    /\ wild \in BOOLEAN

Owns(n, b) == \E func \in Funcs : items[n] = Release(func, b)

\* A block whose release is pending is allocated, and its release is pending
\* once: no deferred free() is ever called on memory that is already free.
PendingFreesAreValid ==
    \A n \in 1 .. PendingLen, b \in Blocks :
        Owns(n, b) =>
            /\ b \in heap
            /\ \A m \in 1 .. PendingLen : Owns(m, b) => n = m

\* What is allocated is released by a pending call or had its release
\* dropped when it was handed out, because the array could not grow or
\* because a hook of the running loop asked for it, and so has the memory of
\* the elements of an array: rolling back to a generation, resetting and
\* freeing lose nothing else.
NoLeak ==
    /\ \A b \in heap : \E func \in Funcs : WillRelease(Release(func, b))
    /\ \A b \in inner : WillRelease(Release("coro_lwan_array_free", b))
    /\ ~alive => base = NULL

\* How much a deferred function may defer: while the calls it adds fit into
\* what is allocated, the pointer the loop took from array->base remains the
\* array; it is stale only when array->elements has passed a multiple of
\* INCREMENT since the loop began.  The index never leaves the calls that
\* were there then.
StaleOnlyAfterGrowth ==
    InLoop =>
        /\ loop.generation <= loop.i
        /\ loop.i <= loop.start
        /\ loop.start <= Len(items)
        /\ loop.defers # base =>
               \E n \in loop.start .. Len(items) - 1 : n % Increment = 0

\* Once coro_free() is called, the coroutine goes away and every block it
\* still owned is released, unless a hook has made the array move under the
\* loop.
FreeReleasesAll ==
    loop.then = "free" ~>
        \/ wild
        \/ /\ ~alive
           /\ heap = {r.data : r \in dropped}
           /\ inner \subseteq heap

Stack == INSTANCE DeferStack WITH
    pending <- SubSeq(items, 1, PendingLen),
    target <- IF InLoop THEN loop.generation ELSE NULL

\* coro_deferred_run(), coro_reset() and coro_free() run the deferred calls
\* last in, first out, each exactly once, down to the generation and no
\* further, however often the array grew, moved or failed to grow; what is
\* deferred while they run is not among them.
ImplementsDeferStack == Stack!Spec

=============================================================================
