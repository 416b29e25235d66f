-------------------------------- MODULE Coro --------------------------------
(***************************************************************************)
(* lwan-coro.c: control transfer between coroutines.                       *)
(*                                                                         *)
(* One thread runs; which flow of control it runs changes only inside      *)
(* coro_swapcontext().  A context in memory (switcher->caller,             *)
(* switcher->callee, coro->context) is good for one jump: once the flow it *)
(* was taken from runs again, or its stack is reset or freed, the          *)
(* registers it holds describe a stack that no longer exists.  The slots   *)
(* below therefore hold the flow they would resume, or Stale: every slot   *)
(* that names a flow becomes Stale when that flow is switched to.  A jump  *)
(* through a Stale slot is undefined behaviour and leaves running = Wild.  *)
(*                                                                         *)
(* The deferred functions that coro_reset() and coro_free() run are in     *)
(* module CoroDefer.                                                       *)
(***************************************************************************)
CONSTANTS Coros,        \* the struct coro objects
          Switchers,    \* the struct coro_switcher objects
          Main,         \* the flow of the thread itself
          Values,       \* ints given to coro_yield and coro_resume_value
          NULL,
          Stale,        \* a slot no jump may use
          Wild,         \* the processor after a jump through a Stale slot
          SavesCaller,  \* built without x86 assembly: prev_caller is kept
          NestShared    \* clients nest coroutines that share a switcher

Flows == Coros \cup {Main}

ASSUME NamesDistinct ==
    /\ Main \notin Coros
    /\ NULL \notin Flows \cup Values
    /\ Stale \notin Flows
    /\ Wild \notin Flows

ASSUME BuildAssumption ==
    /\ SavesCaller \in BOOLEAN
    /\ NestShared \in BOOLEAN
    /\ NestShared => SavesCaller

VARIABLES
    running,    \* the flow the processor executes
    pc,         \* pc[f]: in its own code, or inside which swap it is
    arg,        \* arg[f]: the coro argument of the coro_resume/coro_yield f is in
    live,       \* the coroutines that are allocated
    switcher,   \* coro->switcher
    context,    \* coro->context
    yieldValue, \* coro->yield_value, NULL while uninitialised
    ended,      \* coro->ended
    caller,     \* switcher->caller
    callee,     \* switcher->callee
    prevCaller, \* the local prev_caller of the coro_resume f is in
    got         \* got[f]: what the last coro_resume or coro_yield returned to f

slots == <<context, caller, callee, prevCaller>>
vars == <<running, pc, arg, live, switcher, context, yieldValue, ended,
          caller, callee, prevCaller, got>>

Slot == Flows \cup {Stale}

Init ==
    /\ running = Main
    /\ pc = [f \in Flows |-> IF f = Main THEN "user" ELSE "none"]
    /\ arg = [f \in Flows |-> NULL]
    /\ live = {}
    /\ switcher = [c \in Coros |-> NULL]
    /\ context = [c \in Coros |-> Stale]
    /\ yieldValue = [c \in Coros |-> NULL]
    /\ ended = [c \in Coros |-> FALSE]
    /\ caller = [s \in Switchers |-> Stale]
    /\ callee = [s \in Switchers |-> Stale]
    /\ prevCaller = [f \in Flows |-> Stale]
    /\ got = [f \in Flows |-> NULL]

-----------------------------------------------------------------------------
(* Contexts                                                                *)

\* The slots of s that name a flow of dead can no longer be jumped through.
Scrub(slot, dead) ==
    [x \in DOMAIN slot |-> IF slot[x] \in dead THEN Stale ELSE slot[x]]

\* coro_swapcontext() loads the registers saved in slot value v: the flow
\* named there runs, and its contexts are used up.
JumpTo(v) == running' = IF v = Stale THEN Wild ELSE v

Executes(f) == running = f /\ pc[f] = "user"

\* c has been resumed and has not given control back yet.
Active(c) == \E f \in Flows : pc[f] = "resume" /\ arg[f] = c

-----------------------------------------------------------------------------
(* What callers must respect, for no check in the code enforces it.        *)

\* Assumed of callers, and not checked by the code: nobody resumes through
\* the switcher of a coroutine that is still active.  It has one caller slot,
\* and on x86 the inner coro_resume overwrites the way back.
SwitcherFree(c) ==
    \A d \in Coros : Active(d) /\ d # c => switcher[d] # switcher[c]

Idle(c) == c \in live /\ ~Active(c)

MayResume(c) == Idle(c) /\ ~ended[c] /\ (NestShared \/ SwitcherFree(c))

\* Assumed of callers, and not checked by the code: an inner coroutine over a
\* shared switcher does not end, as prev_caller would not be put back.
MayReturn(c) == SwitcherFree(c)

-----------------------------------------------------------------------------
(* lwan-coro.c                                                             *)

\* The stack of c is written again or freed: every context taken on it is dead.
KillContexts(c) ==
    /\ caller' = Scrub(caller, {c})
    /\ callee' = Scrub(callee, {c})
    /\ prevCaller' = Scrub(prevCaller, {c})

\* Wrong: coro->context is not written.
PrepareEntryKeepsContext(c) ==
    /\ pc' = [pc EXCEPT ![c] = "entry"]
    /\ arg' = [arg EXCEPT ![c] = NULL]
    /\ ended' = [ended EXCEPT ![c] = FALSE]
    /\ context' = Scrub(context, {c})
    /\ KillContexts(c)

\* The part of coro_reset() that builds the first context of c.
PrepareEntry(c) ==
    /\ pc' = [pc EXCEPT ![c] = "entry"]
    /\ arg' = [arg EXCEPT ![c] = NULL]
    /\ ended' = [ended EXCEPT ![c] = FALSE]
    /\ context' = [Scrub(context, {c}) EXCEPT ![c] = c]
    /\ KillContexts(c)

CoroNew(f, c, s) ==
    /\ Executes(f)
    /\ c \notin live
    /\ live' = live \cup {c}
    /\ switcher' = [switcher EXCEPT ![c] = s]
    /\ yieldValue' = [yieldValue EXCEPT ![c] = NULL]
    /\ PrepareEntry(c)
    /\ UNCHANGED <<running, got>>

CoroReset(f, c) ==
    /\ Executes(f)
    /\ PrepareEntry(c)
    /\ UNCHANGED <<running, live, switcher, yieldValue, got>>

CoroUpdate(f, c, s) ==
    /\ Executes(f)
    /\ switcher' = [switcher EXCEPT ![c] = s]
    /\ UNCHANGED <<running, pc, arg, live, slots, yieldValue, ended, got>>

CoroFree(f, c) ==
    /\ Executes(f)
    /\ live' = live \ {c}
    /\ pc' = [pc EXCEPT ![c] = "none"]
    /\ context' = [Scrub(context, {c}) EXCEPT ![c] = Stale]
    /\ KillContexts(c)
    /\ UNCHANGED <<running, arg, switcher, yieldValue, ended, got>>

\* coro_resume() up to its swap: f's registers go to switcher->caller, the
\* processor continues from coro->context.
SwapIn(f, c) ==
    LET s == switcher[c]
        target == context[c]
    IN  /\ Executes(f)
        /\ pc' = [pc EXCEPT ![f] = "resume"]
        /\ arg' = [arg EXCEPT ![f] = c]
        /\ JumpTo(target)
        /\ context' = Scrub(context, {target})
        /\ caller' = [Scrub(caller, {target}) EXCEPT ![s] = f]
        /\ callee' = Scrub(callee, {target})
        /\ prevCaller' = IF SavesCaller
                         THEN Scrub([prevCaller EXCEPT ![f] = caller[s]], {target})
                         ELSE Scrub(prevCaller, {target})
        /\ UNCHANGED <<live, switcher, ended, got>>

CoroResume(f, c) == SwapIn(f, c) /\ UNCHANGED yieldValue

CoroResumeValue(f, c, v) ==
    SwapIn(f, c) /\ yieldValue' = [yieldValue EXCEPT ![c] = v]

\* coro_resume() returns the value of the coroutine to f.
FinishResume(f) ==
    /\ running = f
    /\ pc[f] = "resume"
    /\ got' = [got EXCEPT ![f] = yieldValue[arg[f]]]
    /\ pc' = [pc EXCEPT ![f] = "user"]
    /\ arg' = [arg EXCEPT ![f] = NULL]
    /\ prevCaller' = [prevCaller EXCEPT ![f] = Stale]
    /\ UNCHANGED <<running, live, switcher, yieldValue, ended, callee>>

RestoreCaller(f, c, s) ==
    caller' = IF SavesCaller /\ ~ended[c]
              THEN [caller EXCEPT ![s] = prevCaller[f]]
              ELSE caller

\* Wrong: coro->context is not updated after the swap.
ResumeReturnCopiesNothing(f) ==
    /\ FinishResume(f)
    /\ UNCHANGED context
    /\ RestoreCaller(f, arg[f], switcher[arg[f]])

\* Wrong: switcher->caller is not put back, as in the x86 build.
ResumeReturnForgetsCaller(f) ==
    LET c == arg[f]
    IN  /\ FinishResume(f)
        /\ context' = IF ended[c] THEN context
                      ELSE [context EXCEPT ![c] = callee[switcher[c]]]
        /\ UNCHANGED caller

\* coro_resume() after its swap: the context the coroutine was left at
\* becomes coro->context, unless the coroutine has ended.
ResumeReturn(f) ==
    LET c == arg[f]
        s == switcher[c]
    IN  /\ FinishResume(f)
        /\ context' = IF ended[c] THEN context
                      ELSE [context EXCEPT ![c] = callee[s]]
        /\ RestoreCaller(f, c, s)

\* The swap from the callee to the caller of c's switcher: f's registers go
\* to switcher->callee, the processor continues from switcher->caller.
SwapOut(f, c, v, at) ==
    LET s == switcher[c]
        target == caller[s]
    IN  /\ Executes(f)
        /\ pc' = [pc EXCEPT ![f] = at]
        /\ yieldValue' = [yieldValue EXCEPT ![c] = v]
        /\ JumpTo(target)
        /\ context' = Scrub(context, {target})
        /\ caller' = Scrub(caller, {target})
        /\ callee' = [Scrub(callee, {target}) EXCEPT ![s] = f]
        /\ prevCaller' = Scrub(prevCaller, {target})
        /\ UNCHANGED <<live, switcher, got>>

\* Wrong: the pointer to the coroutine, not the int, goes to yield_value.
CoroYieldPointer(f, c, v) ==
    SwapOut(f, c, c, "yield") /\ arg' = [arg EXCEPT ![f] = c] /\ UNCHANGED ended

CoroYield(f, c, v) ==
    /\ SwapOut(f, c, v, "yield")
    /\ arg' = [arg EXCEPT ![f] = c]
    /\ UNCHANGED ended

YieldReturn(f) ==
    /\ running = f
    /\ pc[f] = "yield"
    /\ got' = [got EXCEPT ![f] = yieldValue[arg[f]]]
    /\ pc' = [pc EXCEPT ![f] = "user"]
    /\ arg' = [arg EXCEPT ![f] = NULL]
    /\ UNCHANGED <<running, live, switcher, slots, yieldValue, ended>>

\* coro_entry_point() calls the coroutine's function ...
EntryStart(c) ==
    /\ running = c
    /\ pc[c] = "entry"
    /\ pc' = [pc EXCEPT ![c] = "user"]
    /\ UNCHANGED <<running, arg, live, switcher, slots, yieldValue, ended, got>>

\* Wrong: the coroutine is not marked.
EntryEndUnmarked(c, v) == SwapOut(c, c, v, "ended") /\ UNCHANGED <<ended, arg>>

\* ... and, when it returns v, marks the coroutine and swaps out for good.
EntryEnd(c, v) ==
    /\ SwapOut(c, c, v, "ended")
    /\ ended' = [ended EXCEPT ![c] = TRUE]
    /\ UNCHANGED arg

-----------------------------------------------------------------------------

\* A flow manages coroutines that are not in the middle of running.
Manage(f, c) ==
    \/ \E s \in Switchers : CoroNew(f, c, s)
    \/ Idle(c) /\ CoroReset(f, c)
    \/ Idle(c) /\ CoroFree(f, c)
    \/ /\ Idle(c) /\ ~ended[c]
       /\ \E s \in Switchers : CoroUpdate(f, c, s)

Transfer(f, c) ==
    \/ MayResume(c) /\ CoroResume(f, c)
    \/ MayResume(c) /\ \E v \in Values : CoroResumeValue(f, c, v)

\* A coroutine gives coro_yield() the struct coro its function was given.
Coroutine(c) ==
    \/ EntryStart(c)
    \/ YieldReturn(c)
    \/ \E v \in Values : CoroYield(c, c, v)
    \/ MayReturn(c) /\ \E v \in Values : EntryEnd(c, v)

Next ==
    \/ \E f \in Flows : ResumeReturn(f)
    \/ \E f \in Flows, c \in Coros : Manage(f, c) \/ Transfer(f, c)
    \/ \E c \in Coros : Coroutine(c)

Spec == Init /\ [][Next]_vars

-----------------------------------------------------------------------------
(* Properties                                                              *)

TypeOK ==
    /\ running \in Flows \cup {Wild}
    /\ pc \in [Flows -> {"none", "entry", "user", "resume", "yield", "ended"}]
    /\ arg \in [Flows -> Coros \cup {NULL}]
    /\ live \subseteq Coros
    /\ switcher \in [Coros -> Switchers \cup {NULL}]
    /\ context \in [Coros -> Slot]
    /\ yieldValue \in [Coros -> Values \cup {NULL}]
    /\ ended \in [Coros -> BOOLEAN]
    /\ caller \in [Switchers -> Slot]
    /\ callee \in [Switchers -> Slot]
    /\ prevCaller \in [Flows -> Slot]
    /\ got \in [Flows -> Values \cup {NULL}]

\* No call of coro_swapcontext(), in coro_resume(), coro_yield() or
\* coro_entry_point(), jumps through a context whose stack has moved on or
\* is gone, however resumes nest and whichever switchers they go through.
NoWildSwap == running # Wild

\* A coroutine that can be resumed has its own current context in
\* coro->context: the copy out of switcher->callee that coro_resume() makes
\* after the swap took the context of this coroutine and not of another one
\* that went through the same switcher.
ResumableHasOwnContext ==
    \A c \in live : Idle(c) /\ ~ended[c] => context[c] = c

\* The coroutines as their callers see them: control and a value go back to
\* the flow that called coro_resume(), an ended coroutine is not entered
\* again, and no value is taken for another coroutine's.  A flow whose swap
\* has just returned has already got its value in the abstract.
Waits(f) == pc[f] = "resume" /\ running # f

WaitsFor(f) == IF Waits(f) THEN arg[f] ELSE NULL

Entered(c) == \E f \in Flows : Waits(f) /\ arg[f] = c

StatusOf(c) ==
    IF c \notin live THEN "none"
    ELSE IF pc[c] = "ended" THEN "ended"
    ELSE IF Entered(c) THEN "active"
    ELSE IF pc[c] = "entry" THEN "fresh"
    ELSE "suspended"

GotBy(f) ==
    IF running = f /\ pc[f] \in {"resume", "yield"} THEN yieldValue[arg[f]]
    ELSE got[f]

Chain == INSTANCE ResumeChain WITH
    top <- running,
    waiting <- [f \in Flows |-> WaitsFor(f)],
    status <- [c \in Coros |-> StatusOf(c)],
    mail <- yieldValue,
    got <- [f \in Flows |-> GotBy(f)]

RefinesResumeChain == Chain!Spec

=============================================================================
