# lwan-coro: a verification project

The repository extracts the coroutines of lwan, with an arena of deferred
functions, and surrounds them with the beginnings of a Python binding and of an
HTTP server. This directory holds TLA+ models of that code, the TLC
configurations that check them, and TLAPS proofs. Paths below are relative to
the repository.

## 1. The system

| Part | Source | State | Operations |
|---|---|---|---|
| control transfer | `src/coroutine/lwan-coro.c` | `coro->context`, `->yield_value`, `->ended`, `->switcher`; `switcher->caller`, `->callee`; the stacks | `coro_new`, `coro_reset`, `coro_update`, `coro_resume`, `coro_resume_value`, `coro_yield`, `coro_entry_point`, `coro_free` |
| deferred functions and owned memory | `lwan-coro.c`, `lwan-array.c` | `coro->defer`, the heap | `coro_defer`, `coro_defer2`, `coro_malloc_full` (`coro_malloc`, `coro_strndup`, `coro_strdup`), `coro_printf`, `coro_lwan_array_new`, `coro_deferred_get_generation`, `coro_deferred_run` |
| growable array | `src/coroutine/lwan-array.c` | `base`, `elements` (no capacity) | init, append, reset, sort |
| Python binding | `src/coroutine/coro.pyx` | `bridge`, `switcher`, `coroutine`, reference counts | `__cinit__`, `_coro_reset`, `coro_resume`, `coro_yield`, `_response`, `__dealloc__`, `callback_wrap` |
| pre-fork agent | `src/server/agent.c` | shared mutexes, a barrier, `MAX_PROC` children | fork loop, `test_worker`, wait, destroy |
| poll server | `src/server/pool.c` | `fds[5]`, `nfds`, `close_conn`, `compress_array` | poll loop, accept loop, recv/send, compression |
| socket set-up | `src/utilities/socket.c` | a file descriptor | `create_socket`, `set_socket_options`, `set_non_blocking` |
| request parser | `src/parsers/headers.c` | position in the request | `get_method`, `get_headers` |
| stubs, xxHash | `dict.*`, `json.*`, `external/xxhash.*` | none | none used |

How they interact. A coroutine's function runs on its own stack; control moves
only in `coro_swapcontext()`, between the two contexts of a `coro_switcher` that
several coroutines may share. The deferred functions of a coroutine are elements
of a `lwan_array`; `coro_reset()` and `coro_free()` run all of them, a rollback
to a generation runs the latest. The binding gives every Python `Coroutine` a
switcher of its own, unless `_coro_update()` replaces it. The server files and
the parser do not call the coroutines yet, and some headers they include
(`helper.h`, `socket_helpers.h`, `parse_helpers.h`) are not in the repository.

What is hard, and what makes each part correct:

* *Control transfer.* A context is good for one jump. Nested and interleaved
  resumes over shared switchers overwrite `caller` and `callee`; on x86 nothing
  restores them, elsewhere `prev_caller` does, except when the inner coroutine
  has ended. Correct: no jump through a dead context, every resumable coroutine
  has its own context, control and value return to the flow that resumed.
* *Deferred functions.* The loop reads `array->base` once; an append can fail
  and is then silently dropped; rollbacks lower `elements`; a deferred function may
  defer, in the array the loop reads. Correct: a stack of calls, each made once,
  never on freed memory, nothing lost but what an append refused, the loop reading
  the array there is (which is so until a deferred function makes it grow).
* *Array.* The capacity is recomputed from `elements`; the arithmetic must not
  wrap. Correct: all elements, and the next slot, lie inside the allocation.
* *Agent.* Twenty-five processes take twenty-five mutexes each; `fork()` may
  fail; the parent waits for one child and destroys everything. Correct: mutual
  exclusion, no circular waiting, nothing destroyed while in use.
* *Binding.* Callbacks yield, raise, are cut short by a reset or by
  `__dealloc__()`, and resume, reset or free other Coroutines; the references of
  bridges and locals are counted by hand. Correct: a callback works on the bridge
  of its own Coroutine, the counts cover every holder, an answer is written once
  and before that nothing is found in its place, no call reaches an assertion. The
  last is not so, see the findings; nor are the counts and the place of the answer
  in order before a callback has returned, since `malloc()` decides what they are.
* *Poll server.* `revents` is stale when it is used, a connection may be reset
  between `poll()`, `recv()` and `send()`, the array of five is filled without a
  look at its size and compressed in place, `send()` waits for clients that do not
  read. Correct: the polled entries are the open descriptors, every descriptor is
  closed once, the server ends unless it waits in `send()` for ever.
* *Socket set-up.* Each of six system calls may fail, the helpers close the
  descriptor before they report it, and other threads are given its number at
  once. Correct: nobody's descriptor is lost or closed by another, what is handed
  out is ready.
* *Parser.* The index skips bytes unseen and runs to, and over, the end of the
  request. Correct: complete requests are taken apart exactly, headers are
  adjacent pieces of the request, slots suffice, the overread is bounded.

The full list of hazards, with lines, is in `PROJECT.json`.

## 2. Modules

An arrow points from a refinement, or from a module that extends, to what it
refines or extends.

    ResumeChain  what coroutines promise        DeferStack  what deferring promises
       ^ refined by      ^ built on                ^ refined by
    Coro              PyCoroutine               CoroDefer
                         | refines                 | extends
                      Futures                   LwanArray  <- SortedArray
                                                   | extends
    Meeting      Listeners                      SizeArith
       ^ refined by      ^ refined by
    Agent             Socket                    Pool      Headers

| Component | Checked through | Proofs |
|---|---|---|
| Coro | MCCoro | CoroProofs |
| CoroDefer, LwanArray | MCCoroDefer | CoroDeferProofs |
| SizeArith | MCSizeArith | SizeArithProofs |
| SortedArray | MCSortedArray | none |
| PyCoroutine | MCPyCoroutine | PyCoroutineProofs |
| Agent | Agent | AgentProofs |
| Pool | Pool | PoolProofs |
| Headers | MCHeaders | HeadersProofs |
| Socket | Socket | SocketProofs |

**Coro** models one thread. `running` is the flow (a coroutine, or `Main`) the
processor executes. A context in memory holds the flow it would resume, or
`Stale`: `coro_swapcontext()` is `JumpTo`, and when a flow is switched to, every
slot that names it becomes `Stale`, because those registers describe a stack
that moves on. Resetting or freeing a coroutine makes its contexts stale, too.
A jump through `Stale` gives `running = Wild`. `coro_resume()` has two actions,
before the swap (`SwapIn`) and after it (`ResumeReturn`), since anything can run
between; so has `coro_yield()`. `SavesCaller` chooses the build: `FALSE` is the
x86 code, `TRUE` the code with `prev_caller`. An ended coroutine rests at
`"ended"`: its entry point has swapped out for good.

What the code expects from its callers and does not check is written as the
operators `Idle`, `SwitcherFree`, `MayResume` and `MayReturn`: only a coroutine
that is not running is reset, freed, updated or resumed; a coroutine is resumed
while another one of the same switcher is active only where `NestShared` allows
it (which needs `SavesCaller`), and even then the inner one may yield out but
must not end while the outer one is active, because `prev_caller` is restored
only if the inner one has not ended. Without these conditions TLC finds wild
jumps at once. Deferred functions are left to CoroDefer.

**ResumeChain** is the specification callers rely on: a flow waits for the
coroutine it resumed, and control and one value go back to it and nobody else.
It has no contexts and no switchers. The mapping in `Coro` (`Chain`) takes a
flow whose swap has just returned as having its value already.

**CoroDefer** models the deferred functions of one coroutine. `items` is the
content of the array `coro->defer`, `base` and `bytes` its allocation;
`coro_deferred_run()` is entered by `Enter`, executes one `DeferredCall` per
iteration with the pointer it took (`loop.defers`), and ends in
`DeferredRunEnd`, which also does what its caller does next (return, or reset
the array, or free the coroutine). A block from `coro_malloc_full()` has a
release, `free` or `coro_lwan_array_free`; `dropped` holds the releases that no
call will make. `ArrayAppendFails` covers overflow and `realloc()` failing.
Deferring and allocating are possible whenever client code runs (`ClientRuns`):
outside the loop, and inside it while a hook, a deferred function of the client,
is called (`loop.inHook`). What a hook defers is written behind the elements the
loop works on and is cut off when the loop lowers `elements`, so its release is
dropped. If the append makes the array grow, the next iteration reads memory that
`realloc()` may have given back: `ReadStale`, after which the state is `wild` and only
`Undefined` steps follow. What is assumed of callers is that a hook does not run the
deferred functions of its own coroutine, reset or free it, or leave it.

**LwanArray** is the array, **SizeArith** the arithmetic of its overflow checks
on numbers with an even number of bits (`Half * Half` values). The code asks for
`GrownBytes`, computed with wrap-around; the properties compare it to whole
numbers.

**DeferStack** is the promise: calls are pushed; a run to a generation pops and
executes them one at a time.

**Agent** has one process for the parent and one for each child, one action per
mutex call. `Fork` and `ForkFails` follow the loop: a failure is not looked at,
and after the loop only the result of the last `fork()` decides whether the
parent waits. The barrier is a counter compared with the count it was set up
with. Mutexes are robust in the sense that a child is not killed while it holds
one; the code has no provision for that.

**Meeting** is what the children and the parent are to each other: members join,
are inside alone, leave only when all have been inside, and what they share is
torn down after that. `StageOf` maps a child's program counter to its stage.

**SortedArray** adds `lwan_array_sort()` to the array. `Qsort(count)` sorts the
first `count` elements; the code passes one less than there are.

**PyCoroutine** is the class `Coroutine` of the binding, on top of the actions of
`ResumeChain`, which `Coro` implements: `Chain!Resume`, `Chain!Leave` and so on
stand for the calls of `lwan-coro.c`, and the rest of each action is what
`coro.pyx` does around them. A callback and its arguments are one object, since
they are always held together. `cell[b]` holds the members of bridge `b`, `frame[s]`
the locals of `callback_wrap()` while it runs, `refs` the counts. Nobody writes
`bridge.response` before the callback returns: `malloc()` leaves in it any member of
`Left`, which is NULL, any of the objects (`malloc()` often hands out the bridge that
was freed last, with its old response), or `Garbage`, a pointer to no object.
`_response()` hands an object out as if it were the answer, and `__dealloc__()` lowers
its count; through `Garbage` both write at an address that means nothing, which
ends the run (`broken = "wild"`) or, in `__dealloc__()`, goes unnoticed. `returned` is not
in the code and no guard reads it; it records that the response was written. A call
on a coroutine that has ended fails the assertion of
`lwan-coro.c:282` (`broken = "assert"`). `Caller` says who decides to resume:
`"any"` resumes whatever it likes, `"codes"` goes by the result codes and their
names in `coro.pxd`. Four conditions are the caller's, and none is checked by the
code: a callback yields, by `coro_yield()` or `_coro_yield()`, only on its own
Coroutine and only while it runs (`CoroYield`, `CoroYieldValue`); the x86 rule that a
switcher serves one active coroutine (`SwitcherFree`); a Coroutine is kept while
another uses its switcher, and while a resume of it waits (`Disposable`).
Objects are never freed; what the counts mean to the interpreter is left to it.

**Futures** is what users of the binding may rely on: a call, at most one answer
to it, and no effect of one Coroutine on another. Before the answer, and after a
reset, what is found in its place is any member of `Leftovers`, an answer of an
earlier call included: only `settled` tells an answer from what was left there, and
the binding has nothing that corresponds to it.

**Pool** is `main()` of the poll server, with the clients and the kernel as the
environment. A client connects, writes, closes or resets at any time
(`link[c]`), and reads what it is sent or does not (`clogged`). An accepted socket is
blocking, since `O_NONBLOCK` of the listening one is not inherited: with a client that
does not read, `send()` waits (`Blocked`) until the client reads or resets. `revents` is what `poll()` saw, so that everything may have changed
when it is used. A failed `create_socket()` gives `sd = NoFd`. `accept()` on the
array that is full ends the model at `"overrun"`, since what is behind the array
is unknown; a `send()` to a connection that was reset fails or, as SIGPIPE is not
ignored, kills the process. Bytes received are not kept: nothing depends on
them.

**Headers** has one action for each scan of `get_method()` and `get_headers()`, up
to the separator found. A string that is copied is the range of bytes it is
copied from. `text` goes on behind `request_length`, with any bytes, because the
code reads there; `reach` is the end of what was read. `malloc()` and
`realloc()` succeed, as the code assumes.

**Socket** is `create_socket()` with its helpers, one action for each system call
and for its failure, and one for the way out after a failure (`GiveUp`), in several
threads that share the table of descriptors.
`socket()` returns the lowest free number, as the kernel does, so a descriptor
that is closed twice belongs to another thread at the second `close()`. Getting
and setting the flags in `set_non_blocking()` is one step; either may fail.
**Listeners** is the promise: one indivisible call, no descriptor with two owners.

In each module a definition introduced by "Wrong:" is a mistaken version of the
definition that follows. No specification uses it; it is there to show that a
property can tell the difference, and `PROJECT.json` says which one does.

## 3. What is checked

| Run | Instance | Properties |
|---|---|---|
| `coro_x86` | 3 coroutines, 2 switchers, 2 values, x86 build | `TypeOK`, `NoWildSwap`, `ResumableHasOwnContext`, `RefinesResumeChain` |
| `coro_nested` | 3 coroutines, 2 switchers, 1 value, `prev_caller` build with shared nesting | `RefinesResumeChain` |
| `coro_defer` | 2 blocks, 1 hook, 2 addresses, `size_t` of 4 bits, `INCREMENT` 2, elements of 3 bytes | `TypeOK`, `ElementsAllocated`, `PendingFreesAreValid`, `NoLeak`, `StaleOnlyAfterGrowth`, `ImplementsDeferStack`, `FreeReleasesAll` |
| `sorts_all` | the array of `coro_defer` with elements 1 to 3 | `SortsAll`, violated |
| `size_arith` | all pairs of 8-bit sizes, `INCREMENT` 5 | `UmullIsExact`, `GrowthIsExact` |
| `agent` | 4 children, every `fork()` may fail | `TypeOK`, `OneHolder`, `DestroyedUnused`, `EveryChildPrints`, `Finishes`, `RefinesMeeting` |
| `pool` | 3 clients, 3 entries, 4 rounds | `TypeOK`, `TableIsOpen`, `OverrunOnlyWhenFull`, `MisclosedOnlyAfterFailedSend`, `EndsUnlessBlocked` |
| `pool_send_fails` | 1 client, 5 entries, 4 rounds | `ServedAreClosed`, violated |
| `headers` | requests of 5 chunks (17 bytes at most), cut at every length; 2 slots at first, 2 more each time | `TypeOK`, `HeadersTile`, `SlotsAllocated`, `OverreadIsBounded`, `RequestLineParsed`, `HeadersParsed` |
| `py_coroutine` | 2 Coroutines, 2 objects, 3 bridges, any caller | `TypeOK`, `CallbackUsesItsBridge`, `ShortOnlyByLeftovers`, `LeaksOnlyWhenCutShort`, `RefinesFutures` |
| `py_codes` | the same, a caller that goes by the codes | `AssertionHolds`, violated |
| `socket` | 2 threads, descriptors 0 to 2 | `TypeOK`, `NoDescriptorLost`, `HeldAreReady`, `RefinesListeners` |

Why these bounds are enough to be interesting. Three coroutines and the main
flow nest four deep and use two switchers so that one is shared and one is not;
the third coroutine can run in between two halves of a resume of the first. Two
values tell whose value arrived; the nested run needs only the difference
between a value and none. In `coro_defer` the array grows twice and then cannot
grow because of the overflow check (four elements of three bytes, fifteen bytes
at most), so the deferred calls are bounded by the code's own check and no
artificial bound is needed. Addresses are two so that growth moves the array or
leaves it. `size_arith` is exhaustive. Four children make every prefix of held
mutexes and every mixture of failed forks occur. In `pool` the listening socket
and two connections fill the array, so that the third client overruns it; gaps
at the front, in the middle and at the end are compressed; and four rounds, the
number in the code, leave two after a failed `send()`. The chunks of `headers`
hold a name with its colon and space, a line end, and each separator and another
byte alone: the longest requests have two headers and the blank line, or fill
the slots and grow them, and every cut through a line end occurs. Two Coroutines
resume, move and dispose of each other; three bridges allow one reset after both
are set up. Two threads and three descriptors let a number go from one to the
other in the middle of a call, and let the table be full.

Coroutines, switchers and values are interchangeable, which the symmetry sets of
`MCCoro` use, and so are Coroutines and objects in `MCPyCoroutine`; only safety is
checked there. In `py_coroutine` states are told apart by the view `WithoutCodes`, which
leaves out the values passed (`mail`, `got`, `told`): with `Caller = "any"` no guard
reads them, and of the properties only `TypeOK` names them, whose part about them
rests on the proof.

`NoWildSwap` says that the swaps never use a context that is gone;
`ResumableHasOwnContext` that the copy from the shared `callee` slot is never
another coroutine's; `RefinesResumeChain` that callers cannot see contexts and
switchers at all. In `coro_nested` it stands alone: a wild swap is no step of the
chain, either. `ElementsAllocated` says that the capacity nobody stores is
there; `PendingFreesAreValid` that no deferred free hits freed memory;
`NoLeak` that only dropped releases leak; `StaleOnlyAfterGrowth` that the loop reads
an array that is gone only if a hook has deferred past the capacity the array had
when the loop began, so that hooks that defer less are safe; `ImplementsDeferStack`
the order and the single execution of calls; `FreeReleasesAll` that `coro_free()` gets to the
end, if no hook moved the array under it. `OneHolder` is stronger than mutual exclusion of the prints: nobody holds
any mutex while another holds one. `DestroyedUnused` shows that waiting for one
child is enough, because a child ends only after the barrier; `RefinesMeeting`
adds that nobody passes the barrier before all have printed.

`TableIsOpen` relates the array to the kernel's table through accepts, closes and
compression. `OverrunOnlyWhenFull` says exactly when the known overrun happens,
`MisclosedOnlyAfterFailedSend` exactly when a descriptor is closed twice: never,
but for the listening socket after a failed `send()`, or when there never was one.
`HeadersTile` holds for every request, well-formed or not; `RequestLineParsed` and
`HeadersParsed` say that complete ones are parsed as they are written, without
reading behind them; `OverreadIsBounded` allows `get_method()` one byte behind the
request and `get_headers()` two, which the code does read. `ShortOnlyByLeftovers`
says that a count gets too low in one case only, a Coroutine that is freed before its
callback has returned while `malloc()` had left a pointer to that object in its
bridge; `LeaksOnlyWhenCutShort` that none gets too high but by a reset or by freeing a
Coroutine in the middle of its callback, where the code drops references. Both known
cases occur in the run. `EndsUnlessBlocked` says that `main()` ends or is blocked in `send()`
from some time on. `NoDescriptorLost` is an equality: what is open is what some
thread answers for.

What the code does not do as it says:

* `sorts_all`: `lwan_array_sort()` (`src/coroutine/lwan-array.c:130`) gives `qsort()` one
  element less than there are, and the last one stays where it is.
* `pool_send_fails`: after a failed `send()` the connection that "should be closed"
  (`src/server/pool.c:92`) stays open, since the `break` leaves the scan first.
* `py_codes`: the codes that `coro.pxd` names `MAY_RESUME = 0` and `FINISHED = 1` are
  used the other way round: 0 is returned when the callback has ended, 1 is passed
  by `coro_yield()`. A caller that resumes on `MAY_RESUME` fails the assertion.

Fairness. `coro_defer` assumes that the loop of `coro_deferred_run()`, straight
code of the running thread whose deferred functions return, goes on
(`WF_vars(Loop)`). `agent` assumes that the operating system schedules every
process (`WF_vars(Parent)`, `WF_vars(Child(c))`); mutexes need not be fair, as a
child asks for each only once. `pool` assumes that the server is scheduled
(`WF_vars(Server)`): `poll()` has a timeout, `accept()` does not block on the
listening socket, and `recv()` is called only when `poll()` saw something there. `send()`
may block: while the client it serves does not read, no step of the server is
enabled, and the fairness asks for none. Nothing is assumed of clients, which need
never read, nor elsewhere.

Deadlock checking is off where the system may stop: in `agent`, where the
processes end, or wait at a barrier that cannot fill when a `fork()` failed; in
`pool` and `pool_send_fails`, where the server ends; in the two runs of the
binding, which stop at a failed assertion or undefined behaviour and where bridges
run out. In `headers` a function that has returned stays so (`Returned`), and the
deadlock check shows that the scans get stuck nowhere else.

## 4. What is proved

With TLAPS, for every value of the constants that satisfies the named
assumptions of the modules:

* `CoroProofs`: `TypeCorrect`, `SwapsAreSafe`, `ContextsAreOwn`,
  `WaitersFormALine`, `ImplementsResumeChain`, in both builds and with coroutines
  nested to any depth, over one shared switcher too where the build saves
  `prev_caller` (`BuildAssumption`: `NestShared` needs `SavesCaller`). What the
  callers must respect is the only other condition. The inductive invariant is
  needed because `NoWildSwap` says nothing of the slots the next jumps will use.
  It adds to `TypeOK`: `PcInv`, which program points go with which status;
  `ChainInv`, that each active coroutine is waited for by one flow; `SlotInv`, that
  a coroutine at rest has its own context, that one that has just yielded is in
  the callee slot, and that the switcher of one that has just ended serves no
  other resume; and `NestInv`. This one gives each flow a depth, one more than the
  depth of the flow that waits for it, the running flow being the deepest. The way
  back to a flow is in `switcher->caller` if it was the last to resume through that
  switcher, and in the `prev_caller` of the next one that did otherwise
  (`WaysBack`). A resume pushes a depth, a return pops the deepest one and puts its
  `prev_caller` back, which is the way back to the one below. That no two flows
  wait for one coroutine, nor in a circle, is `OneWayBack`.
* `CoroDeferProofs`: `TypeCorrect`, `ArrayStaysInBounds`, `LoopPointerIsCurrentUntilGrowth`,
  `NoDoubleFree`, `NothingLeaks`, `FreeTakesEverything`, `RunsEnd`,
  `DeferredCallsFormAStack`. The invariant adds
  to the checked ones that a reset or free runs down to generation 0, and that only a
  loop whose array has moved reads what is gone (`LoopInv`), that a coroutine that does not exist has an empty array
  (`DeadInv`), and that a dropped release is of an allocated block no pending
  call releases (`DroppedInv`).
* `SizeArithProofs`: the overflow checks are exact for every
  width of `size_t`, every `INCREMENT` and element size
  (`MultiplicationIsExact`, `GrowthIsRefusedExactly`); `CoroDeferProofs` uses
  them to show that growth asks for the bytes it needs. The theorems are about
  the specification with which `MCSizeArith` goes through the pairs of sizes
  (`EveryPair`), the lemmas about any sizes.
* `AgentProofs`: `TypeCorrect`, `ChildrenAlone`, `AllMeet`,
  `NothingUsedAfterDestruction`, `NobodyIsStuck`, `ChildrenGetOn`,
  `ParentCleansUp`, `ImplementsMeeting` for every `MAX_PROC`. The
  invariant says that a child holds exactly the prefix of the mutexes its place in
  the code implies (`HoldInv`), and that the barrier's count is the number of
  children that reached it (`BarrierInv`). Two children inside would both hold the
  first mutex, which is what the refinement needs. `NobodyIsStuck` rests on it too:
  if the first mutex is free all are, and whoever holds it finds the next one free.
  `EndInv` says what the parent has destroyed at each place, and that after the loop
  the result of the last `fork()` stands for all.
* `PoolProofs`: `TypeCorrect`, `DescriptorsAreKept`, `OverrunNeedsFullArray`,
  `ClosedOnce`, `LoopsEnd`, for any clients, entries and rounds. The invariant says where the
  index may be at each place (`ScanInv`), that the compression has
  left no gap behind it (`GapInv`), which connections wait or are
  open (`QueueInv`), and when `close_conn` can be stale (`CloseInv`). The overrun
  needs a bijection between entries and descriptors (`PolledCounts`). `LoopsEnd` has
  a bound for the steps of `main()` (`StepsLeft`): an accepted connection takes one of
  the free entries, a closed gap one of the used, and a round one of the rounds.
* `HeadersProofs`: `TypeCorrect`, `HeadersAreAdjacent`, `SlotsSuffice`, `OverreadByTwo`,
  `RequestLinesAreParsed`, `HeaderBlocksAreParsed`, for every request of any length,
  every initial number of slots and every growth of two or more. The invariant
  relates the index to the end of the last piece (`ScanInv`) and the slots to the
  index (`SlotInv`): the code grows when the index reaches the length, and each
  header takes several bytes. `MethodInv` and `BlockInv` add, for complete
  requests, what has been parsed so far.
* `PyCoroutineProofs`: `TypeCorrect`, `BridgesAreOwn`, `CountsFallShortOnlyByLeftovers`,
  `LeaksAreKnown`, `ImplementsFutures`, for any finite number of Coroutines, any objects and number of
  bridges. The invariant says which flows are in the chain (`ChainOK`), that every
  bridge has one owner and every frame works on its owner's (`BridgeOK`). For the
  counts, the holders of an object are split into bridges that hold it as call or
  as the response a callback returned, and frames; each step changes these sets by one
  element and the count with them, so that the difference (`Slack`) stays as it is,
  but for a reset and a callback cut short, which raise it, and for a leftover that is
  released, which lowers it. Bridges not made yet hold nothing (`UnmadeInv`).

* `SocketProofs`: `TypeCorrect`, `DescriptorsAreAnsweredFor`, `ReturnedAreReady`,
  `ImplementsListeners`, for any threads and any number of descriptors. The
  invariant says how far an unfinished call has got with the socket it opened
  (`ProgressInv`), and that no descriptor has two owners (`OwnerInv`): without it
  the `close()` of a failed call could take another thread's socket.
  `SocketAssumption` says that `NULL`, an entry of the table that is not in use, is
  no set of options. `LowestFree` is the one fact about numbers: there is a lowest
  free descriptor, as there is a free one.

Every invariant, action property and refinement that the passing runs check is
stated by a theorem. Only model-checked are the four liveness properties,
`FreeReleasesAll`, `EveryChildPrints`, `Finishes` and `EndsUnlessBlocked`, because fairness and
ENABLED are out of the prover's reach. Theorems state the part of them that is
safety: `RunsEnd` and `FreeTakesEverything` (the loop has fewer calls to make after
each step, and what `coro_free()` leaves), `NobodyIsStuck` and `ChildrenGetOn` (some
child on its way to the barrier is not blocked, and each step brings a child
nearer), `ParentCleansUp` (so does each step of the parent, which destroys
everything before it ends), `LoopsEnd`. Induction over data and recursive operators are out of the prover's reach,
too; no module here uses recursion.

## 5. What is not modelled

* *Coroutines*: running out of stack, Valgrind builds, `malloc()` failing in
  `coro_new()` (it returns NULL and changes nothing), the contents of blocks and
  formatted strings, with the lengths `coro_strndup()` computes from `max_len`.
* *Coroutines on i386*: `coro_swapcontext()` stores an eighth word there (offset
  `0x1c`, `lwan-coro.c:123` and `:140`) in a `coro_context` of seven
  (`lwan-coro.h:33`). The model takes a context as one whole, as on x86-64.
* *Deferred functions* that run or leave the loop that calls them, what happens after
  the loop has read an array that is gone, and generations
  taken before a reset and greater than the number of calls since: nothing in the
  code copes with them, and no caller in the repository does it.
* *Agent*: `mmap()` failing, children killed from outside, what is printed.
* *Binding*: the state of the interpreter when a callback yields, what a count of
  zero does (the code changes counts without `Py_DECREF()`), and `malloc()` or
  `coro_new()` failing, which ends the process in the next statement.
* *Poll server*: the bytes received, and what happens after the array is overrun.
* *Socket set-up*: ports, addresses and the wording of errors.
* *Parser*: what a caller does with a result after an error; there is no caller.
* *xxHash* is third-party and unused; the dictionary and JSON files hold no
  behaviour.

## 6. What is left

1. The lengths in `coro_strndup()`, with the width of `size_t`.
2. What `lwan_array_sort()` does sort: all elements but the last, for any length.
