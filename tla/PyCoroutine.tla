---------------------------- MODULE PyCoroutine ----------------------------
(***************************************************************************)
(* coro.pyx: the class Coroutine, over what lwan-coro promises             *)
(* (ResumeChain, which Coro implements).  A Coroutine owns a bridge, which *)
(* holds the callback with its arguments and, later, the response; the     *)
(* reference counts of these objects are written by hand.  A callback and  *)
(* its arguments are one object here: they are always held together.       *)
(*                                                                         *)
(* A call is made by the flow that runs: the main flow or, as a callback   *)
(* may use other Coroutines, one of them.  Nobody writes bridge.response   *)
(* before the callback returns, so that malloc() decides what it holds     *)
(* until then: often the response of the bridge freed last, whose memory   *)
(* it hands out again.                                                     *)
(*                                                                         *)
(* What callers must respect and the code does not check: a callback       *)
(* yields on its own Coroutine only, and only while it runs (CoroYield); a *)
(* switcher serves one active coroutine (SwitcherFree); a Coroutine is     *)
(* kept while its resume waits or its switcher is in use (Disposable).     *)
(***************************************************************************)
EXTENDS Integers, FiniteSets

CONSTANTS Selves,       \* the Coroutine objects
          Main,
          Objects,      \* calls and responses
          NULL,
          Garbage,      \* a pointer that is neither NULL nor an object
          MaxBridges,   \* bound: bridges allocated in a run
          Caller        \* "any", or "codes": resumes if the last code allows it

\* enum coro_yield_value
ABORT == -1
MAY_RESUME == 0
FINISHED == 1
Codes == {ABORT, MAY_RESUME, FINISHED}

Bridges == 1 .. MaxBridges

\* What malloc() may leave in bridge.response.
Left == Objects \cup {NULL, Garbage}

\* returned is not in the code: callback_wrap() has written the response.
Cells == [call : Objects, response : Left, returned : BOOLEAN]
Frames == [bridge : Bridges, call : Objects]

ASSUME PyAssumption ==
    /\ NULL \notin Objects \cup Selves \cup Codes \cup Bridges \cup {Main} \cup Cells \cup Frames
    /\ Garbage \notin Objects \cup {NULL}
    /\ Main \notin Selves
    /\ IsFiniteSet(Selves)
    /\ MaxBridges \in Nat
    /\ Caller \in {"any", "codes"}

VARIABLES
    top, waiting, status, mail, got,    \* the coroutines, see ResumeChain
    switcher,   \* switcher[s]: the Coroutine whose switcher s uses
    bridge,     \* bridge[s]: self.bridge
    data,       \* data[s]: the pointer callback_wrap() will be given
    cell,       \* cell[b]: the members of bridge b, NULL if it is not allocated
    made,       \* the number of bridges allocated so far
    frame,      \* frame[s]: the locals of callback_wrap() while it runs
    refs,       \* refs[o]: the references to o counted by this code
    told,       \* told[s]: the last result of coro_resume() on s
    broken      \* "no", "assert" (it failed) or "wild" (undefined behaviour)

chain == <<top, waiting, status, mail, got>>
vars == <<chain, switcher, bridge, data, cell, made, frame, refs, told, broken>>

Chain == INSTANCE ResumeChain WITH Coros <- Selves, Values <- Codes

Init ==
    /\ Chain!Init
    /\ switcher = [s \in Selves |-> s]
    /\ bridge = [s \in Selves |-> NULL] /\ data = [s \in Selves |-> NULL]
    /\ cell = [b \in Bridges |-> NULL] /\ made = 0
    /\ frame = [s \in Selves |-> NULL]
    /\ refs = [o \in Objects |-> 0]
    /\ told = [s \in Selves |-> NULL]
    /\ broken = "no"

-----------------------------------------------------------------------------
(* Making, setting up and freeing                                          *)

\* A bridge is allocated and filled; what malloc() left in the member
\* response stays there.
NewBridge(s, o, cells) ==
    /\ made < MaxBridges
    /\ made' = made + 1
    /\ \E left \in Left :
          cell' = [cells EXCEPT ![made + 1] =
                      [call |-> o, response |-> left, returned |-> FALSE]]
    /\ bridge' = [bridge EXCEPT ![s] = made + 1]
    /\ refs' = [refs EXCEPT ![o] = @ + 1]

Cinit(s, o) ==
    /\ Chain!Create(s)
    /\ NewBridge(s, o, cell)
    /\ data' = [data EXCEPT ![s] = made + 1]
    /\ switcher' = [switcher EXCEPT ![s] = s]
    /\ told' = [told EXCEPT ![s] = NULL]
    /\ UNCHANGED <<frame, broken>>

\* What coro_reset() does to the coroutine: it will call callback_wrap() with
\* a bridge, and a callback that has not returned never will.
Refit(s, b) ==
    /\ Chain!Restart(s)
    /\ data' = [data EXCEPT ![s] = b]
    /\ frame' = [frame EXCEPT ![s] = NULL]
    /\ told' = [told EXCEPT ![s] = NULL]
    /\ UNCHANGED <<switcher, broken>>

\* Wrong: the coroutine is given the bridge that has been freed.
CoroResetKeepsData(s, o) ==
    Refit(s, bridge[s]) /\ NewBridge(s, o, [cell EXCEPT ![bridge[s]] = NULL])

\* The old bridge is freed; what it held is not given back.
CoroReset(s, o) ==
    Refit(s, made + 1) /\ NewBridge(s, o, [cell EXCEPT ![bridge[s]] = NULL])

\* coro_update() asserts that the coroutine has not ended.
CoroUpdate(s, t) ==
    /\ status[s] \in {"fresh", "suspended"}
    /\ status[t] # "none"
    /\ switcher' = [switcher EXCEPT ![s] = t]
    /\ UNCHANGED <<chain, bridge, data, cell, made, frame, refs, told, broken>>

\* Python keeps a Coroutine while a call of its coro_resume() waits.
Disposable(s) ==
    /\ status[s] \in {"fresh", "suspended", "ended"}
    /\ \A t \in Selves \ {s} : status[t] # "none" => switcher[t] # s

One(p) == IF p THEN 1 ELSE 0

\* The counts without the two references of a bridge.
Release(call, response) ==
    [o \in Objects |-> refs[o] - One(o = call) - One(o = response)]

Dispose(s) ==
    /\ Disposable(s)
    /\ Chain!Destroy(s)
    /\ cell' = [cell EXCEPT ![bridge[s]] = NULL]
    /\ bridge' = [bridge EXCEPT ![s] = NULL] /\ data' = [data EXCEPT ![s] = NULL]
    /\ frame' = [frame EXCEPT ![s] = NULL]
    /\ UNCHANGED <<switcher, made, told>>

\* Wrong: the reference callback_wrap() took on the response is kept.
DeallocKeepsResponse(s) ==
    /\ Dispose(s)
    /\ refs' = Release(cell[bridge[s]].call, NULL)
    /\ UNCHANGED broken

\* A response that was never written is released like any other: the count
\* of an object nobody held here, no count if it is NULL, or some bytes at an
\* address that means nothing, which goes unnoticed or does not.
Dealloc(s) ==
    /\ Dispose(s)
    /\ refs' = Release(cell[bridge[s]].call, cell[bridge[s]].response)
    /\ \/ UNCHANGED broken
       \/ cell[bridge[s]].response = Garbage /\ broken' = "wild"

\* _response() hands out what is in the bridge; where it is no object, it
\* counts a reference at an address that means nothing.
Response(s) ==
    /\ status[s] # "none"
    /\ cell[bridge[s]].response = Garbage
    /\ broken' = "wild"
    /\ UNCHANGED <<chain, switcher, bridge, data, cell, made, frame, refs, told>>

-----------------------------------------------------------------------------
(* Running                                                                 *)

\* Assumed of callers: as on x86 the one caller slot of a switcher serves one
\* active coroutine, nobody resumes another one through it.
SwitcherFree(s) ==
    \A t \in Selves \ {s} : status[t] = "active" => switcher[t] # switcher[s]

\* Wrong: the callback is taken from the place of the response.
BeginFromResponse(s) ==
    IF status[s] = "fresh"
    THEN /\ frame' = [frame EXCEPT ![s] = [bridge |-> data[s], call |-> cell[data[s]].response]]
         /\ UNCHANGED refs
    ELSE UNCHANGED <<frame, refs>>

\* callback_wrap() takes its locals from the bridge it is given, when the
\* coroutine runs for the first time.
Begin(s) ==
    IF status[s] = "fresh"
    THEN LET o == cell[data[s]].call
         IN  /\ frame' = [frame EXCEPT ![s] = [bridge |-> data[s], call |-> o]]
             /\ refs' = [refs EXCEPT ![o] = @ + 1]
    ELSE UNCHANGED <<frame, refs>>

CoroResume(f, s) ==
    /\ Chain!Resume(f, s)
    /\ Begin(s)
    /\ UNCHANGED <<switcher, bridge, data, cell, made, told, broken>>

CoroResumeValue(f, s) ==
    /\ Chain!ResumeValue(f, s)
    /\ Begin(s)
    /\ UNCHANGED <<switcher, bridge, data, cell, made, told, broken>>

\* assert(coro->ended == false) fails.
CoroResumeEnded(f, s) ==
    /\ top = f
    /\ status[s] = "ended"
    /\ broken' = "assert"
    /\ UNCHANGED <<chain, switcher, bridge, data, cell, made, frame, refs, told>>

\* coro_resume() on s returns v.
LeaveWith(s, v, left) == Chain!Leave(s, v, left) /\ told' = [told EXCEPT ![s] = v]

\* coro_yield() of Python, by the callback that runs, on its own Coroutine.
CoroYield(s) ==
    /\ LeaveWith(s, FINISHED, "suspended")
    /\ UNCHANGED <<switcher, bridge, data, cell, made, frame, refs, broken>>

\* _coro_yield(), for Cython code only.
CoroYieldValue(s, v) ==
    /\ LeaveWith(s, v, "suspended")
    /\ UNCHANGED <<switcher, bridge, data, cell, made, frame, refs, broken>>

\* callback_wrap() returns 0, and gives back what its locals held.
Ends(s) ==
    /\ LeaveWith(s, 0, "ended")
    /\ frame' = [frame EXCEPT ![s] = NULL]
    /\ UNCHANGED <<switcher, bridge, data, made, broken>>

\* The response r is written to the bridge callback_wrap() works on.
Answered(s, r) ==
    cell' = [cell EXCEPT ![frame[s].bridge] = [@ EXCEPT !.response = r, !.returned = TRUE]]

\* Wrong: the response is stored without a reference of its own.
CallbackReturnsBorrowed(s, r) ==
    /\ Ends(s)
    /\ Answered(s, r)
    /\ refs' = [refs EXCEPT ![frame[s].call] = @ - 1]

\* Wrong: the response is counted and not stored.
CallbackReturnsUnstored(s, r) ==
    /\ Ends(s)
    /\ cell' = [cell EXCEPT ![frame[s].bridge].returned = TRUE]
    /\ refs' = [o \in Objects |-> refs[o] + One(o = r) - One(o = frame[s].call)]

\* The callback returns r, which gets a reference of its own.
CallbackReturns(s, r) ==
    /\ Ends(s)
    /\ Answered(s, r)
    /\ refs' = [o \in Objects |-> refs[o] + One(o = r) - One(o = frame[s].call)]

\* The exception is reported and dropped; the response is not written.
CallbackRaises(s) ==
    /\ Ends(s)
    /\ refs' = [refs EXCEPT ![frame[s].call] = @ - 1]
    /\ UNCHANGED cell

-----------------------------------------------------------------------------

\* What decides that a Coroutine is resumed: whether its callback has
\* returned, or what the names of the result codes say.
Resumes(s) ==
    /\ SwitcherFree(s)
    /\ Caller = "codes" => told[s] \in {NULL, MAY_RESUME}

Manage(s) ==
    \/ \E o \in Objects : Cinit(s, o) \/ CoroReset(s, o)
    \/ \E t \in Selves : CoroUpdate(s, t)
    \/ Dealloc(s)
    \/ Response(s)

Callback(s) ==
    \/ CoroYield(s)
    \/ \E v \in Codes : CoroYieldValue(s, v)
    \/ \E r \in Objects : CallbackReturns(s, r)
    \/ CallbackRaises(s)

Next ==
    /\ broken = "no"
    /\ \E s \in Selves :
          \/ Manage(s)
          \/ Callback(s)
          \/ /\ Resumes(s)
             /\ \E f \in Chain!Flows :
                   CoroResume(f, s) \/ CoroResumeValue(f, s) \/ CoroResumeEnded(f, s)

Spec == Init /\ [][Next]_vars

-----------------------------------------------------------------------------
(* Properties                                                              *)

TypeOK ==
    /\ top \in Chain!Flows
    /\ waiting \in [Chain!Flows -> Selves \cup {NULL}]
    /\ status \in [Selves -> Chain!Status]
    /\ mail \in [Selves -> Codes \cup {NULL}]
    /\ got \in [Chain!Flows -> Codes \cup {NULL}]
    /\ switcher \in [Selves -> Selves]
    /\ bridge \in [Selves -> Bridges \cup {NULL}]
    /\ data \in [Selves -> Bridges \cup {NULL}]
    /\ cell \in [Bridges -> Cells \cup {NULL}]
    /\ made \in 0 .. MaxBridges
    /\ frame \in [Selves -> Frames \cup {NULL}]
    /\ refs \in [Objects -> Int]
    /\ told \in [Selves -> Codes \cup {NULL}]
    /\ broken \in {"no", "assert", "wild"}

\* callback_wrap() never reads or writes a bridge that is freed or is
\* another Coroutine's: however it was reset, moved to another switcher or
\* interrupted before, the bridge it will be given, or was given, is the one
\* its Coroutine holds now, and the call it makes is the one held there.
CallbackUsesItsBridge ==
    \A s \in Selves :
        /\ status[s] = "fresh" => data[s] = bridge[s] /\ cell[bridge[s]] # NULL
        /\ frame[s] # NULL =>
              /\ frame[s].bridge = bridge[s]
              /\ cell[bridge[s]] # NULL
              /\ frame[s].call = cell[bridge[s]].call
        /\ status[s] \in {"active", "suspended"} <=> frame[s] # NULL
        /\ \A t \in Selves \ {s} : bridge[s] # NULL => bridge[s] # bridge[t]

\* The places that hold a reference to o: as call, as response a callback
\* has returned, as a local of callback_wrap().
HeldBy(o) ==
    Cardinality({b \in Bridges : cell[b] # NULL /\ cell[b].call = o})
    + Cardinality({b \in Bridges : cell[b] # NULL /\ cell[b].returned /\ cell[b].response = o})
    + Cardinality({s \in Selves : frame[s] # NULL /\ frame[s].call = o})

\* An object goes away under a bridge or a running callback in one case only:
\* a Coroutine is freed before its callback has returned, and malloc() had
\* left a pointer to that object in its bridge.  Whatever else is resumed,
\* interrupted, reset or freed, the counts kept by hand in __cinit__(),
\* _coro_reset(), callback_wrap() and __dealloc__() go with the holders.
ShortOnlyByLeftovers ==
    [][\A o \in Objects : (refs[o] - HeldBy(o))' < refs[o] - HeldBy(o) =>
          \E s \in Selves :
              /\ bridge[s] # NULL /\ bridge'[s] = NULL
              /\ ~cell[bridge[s]].returned
              /\ cell[bridge[s]].response = o]_vars

\* Nor does a count stay too high, but for what the code is known to drop: a
\* Coroutine that is reset, or one freed in the middle of its callback.
LeaksOnlyWhenCutShort ==
    [][(\E o \in Objects : (refs[o] - HeldBy(o))' > refs[o] - HeldBy(o)) =>
          \E s \in Selves :
              \/ bridge[s] # NULL /\ bridge'[s] \notin {NULL, bridge[s]}
              \/ status[s] = "suspended" /\ status'[s] = "none"]_vars

\* Each Coroutine is a future of its own.  What _response() gives before the
\* callback has returned is what malloc() left when the Coroutine was set
\* up, an answer of an earlier call perhaps; from the return on it is the
\* result of this call and of no other, until the Coroutine is set up anew,
\* whatever Coroutines the callbacks resume, reset or free.
CallOf(s) == IF bridge[s] = NULL THEN NULL ELSE cell[bridge[s]].call

AnswerOf(s) == IF bridge[s] = NULL THEN NULL ELSE cell[bridge[s]].response

Settled(s) == bridge[s] # NULL /\ cell[bridge[s]].returned

Future == INSTANCE Futures WITH
    Leftovers <- Left,
    call <- [s \in Selves |-> CallOf(s)],
    answer <- [s \in Selves |-> AnswerOf(s)],
    settled <- [s \in Selves |-> Settled(s)]

RefinesFutures == Future!Spec

\* A caller that goes by coro_yield_value does not resume a Coroutine whose
\* callback has returned.
AssertionHolds == broken # "assert"

=============================================================================
