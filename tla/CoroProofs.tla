----------------------------- MODULE CoroProofs -----------------------------
(***************************************************************************)
(* Machine-checked facts about module Coro, in both builds, for any sets   *)
(* of coroutines, switchers and values, and any nesting of coroutines that *)
(* the build can cope with.                                                *)
(***************************************************************************)
EXTENDS Coro, Integers, TLAPS

-----------------------------------------------------------------------------
(* The inductive invariant                                                 *)

\* Where each flow can be: one flow is in its own code, it is the running
\* one, and the others sit in the swap they left through.
PcInv ==
    /\ running \in Flows
    /\ pc[running] \in {"user", "entry", "yield", "resume"}
    /\ \A f \in Flows : pc[f] = "user" => f = running
    /\ pc[Main] \in {"user", "resume"}
    /\ \A c \in Coros : c \in live <=> pc[c] # "none"
    /\ \A c \in live : switcher[c] \in Switchers
    /\ \A c \in live : ended[c] <=> pc[c] = "ended"

\* The flows inside coro_resume(): each waits for its own coroutine, which
\* runs or is inside coro_resume() in its turn.
Resuming(f) == pc[f] = "resume"

Through(f) == switcher[arg[f]]

ChainInv ==
    /\ \A f \in Flows : Resuming(f) => arg[f] \in live
    /\ \A c \in Coros : pc[c] = "yield" => arg[c] = c
    /\ \A f, g \in Flows :
          Resuming(f) /\ Resuming(g) /\ f # g => arg[f] # arg[g]
    /\ \A f \in Flows : Waits(f) => arg[f] = running \/ Resuming(arg[f])
    /\ \A c \in Coros : Resuming(c) \/ running = c =>
          \E f \in Flows : Waits(f) /\ arg[f] = c
    /\ ~NestShared => \A f, g \in Flows :
          Resuming(f) /\ Resuming(g) /\ f # g => Through(f) # Through(g)

\* What the context slots of coroutines and the callee slots hold: the
\* coroutine that has just given control back, and every idle coroutine.  One
\* that has ended went through a switcher that no other resume uses.
SlotInv ==
    /\ \A f \in Flows : Resuming(f) /\ running = f =>
          /\ pc[arg[f]] \in {"yield", "ended"}
          /\ ~ended[arg[f]] => callee[Through(f)] = arg[f]
          /\ ended[arg[f]] => \A g \in Flows \ {f} :
                Resuming(g) => Through(g) # Through(f)
    /\ \A c \in live : ~Active(c) /\ ~ended[c] =>
          context[c] = c /\ pc[c] \in {"entry", "yield"}

\* How deep each flow is nested: the coroutine is one deeper than the flow
\* that waits for it, and the flow that runs is the deepest.
Depths(depth) ==
    /\ \A f \in Flows : Waits(f) => depth[arg[f]] = depth[f] + 1
    /\ \A f \in Flows : Waits(f) => depth[f] < depth[running]
    /\ \A f, g \in Flows :
          Resuming(f) /\ Resuming(g) /\ f # g => depth[f] # depth[g]

\* g resumed through the same switcher as f, later.
Inside(depth, g, f) ==
    Resuming(g) /\ Through(g) = Through(f) /\ depth[f] < depth[g]

FirstInside(depth, g, f) ==
    /\ Inside(depth, g, f)
    /\ \A h \in Flows : Inside(depth, h, f) => depth[g] <= depth[h]

\* The way back to every flow that waits: in switcher->caller if it is the
\* last that resumed through its switcher, in the prev_caller of the next one
\* otherwise.
WaysBack(depth) ==
    /\ \A f \in Flows : Waits(f) /\ (\A g \in Flows : ~Inside(depth, g, f)) =>
          caller[Through(f)] = f
    /\ \A f, g \in Flows :
          Waits(f) /\ FirstInside(depth, g, f) => prevCaller[g] = f

NestInv == \E depth \in [Flows -> Nat] : Depths(depth) /\ WaysBack(depth)

IInv == TypeOK /\ PcInv /\ ChainInv /\ SlotInv /\ NestInv


-----------------------------------------------------------------------------

LEMMA ScrubFact ==
    ASSUME NEW S, NEW slot \in [S -> Slot], NEW dead
    PROVE  /\ Scrub(slot, dead) \in [S -> Slot]
           /\ \A x \in S : Scrub(slot, dead)[x] =
                 IF slot[x] \in dead THEN Stale ELSE slot[x]
BY DEF Scrub, Slot

\* A step that lets every resume go on, and every way back where it was, does
\* not change how they are nested.
LEMMA SameNesting ==
    ASSUME NestInv, running' = running,
           \A f \in Flows : Resuming(f)' <=> Resuming(f),
           \A f \in Flows : Resuming(f) =>
              arg'[f] = arg[f] /\ Through(f)' = Through(f),
           \A f, g \in Flows : Waits(f) /\ Resuming(g) =>
              /\ caller[Through(g)] = f => caller'[Through(g)] = f
              /\ prevCaller[g] = f => prevCaller'[g] = f
    PROVE  NestInv'
<1>1. PICK depth \in [Flows -> Nat] : Depths(depth) /\ WaysBack(depth)
  BY DEF NestInv
<1>2. \A f \in Flows : Waits(f)' <=> Waits(f)
  BY DEF Waits, Resuming
<1>3. Depths(depth)'
  BY <1>1, <1>2 DEF Depths, Waits, Resuming
<1>4. \A f, g \in Flows :
         Resuming(f) => (Inside(depth, g, f)' <=> Inside(depth, g, f))
  BY DEF Inside
<1>5. \A f, g \in Flows : Waits(f) =>
         (FirstInside(depth, g, f)' <=> FirstInside(depth, g, f))
  BY <1>4 DEF FirstInside, Waits, Resuming
<1>6. WaysBack(depth)'
  <2>1. ASSUME NEW f \in Flows, Waits(f)', \A g \in Flows : ~Inside(depth, g, f)'
        PROVE  caller'[Through(f)'] = f
    BY <1>1, <1>2, <1>4, <2>1 DEF WaysBack, Waits, Resuming
  <2>2. ASSUME NEW f \in Flows, NEW g \in Flows,
               Waits(f)', FirstInside(depth, g, f)'
        PROVE  prevCaller'[g] = f
    BY <1>1, <1>2, <1>5, <2>2 DEF WaysBack, FirstInside, Inside
  <2> QED BY <2>1, <2>2 DEF WaysBack
<1> QED BY <1>3, <1>6 DEF NestInv

LEMMA InitIInv == Init => IInv
<1> SUFFICES ASSUME Init PROVE IInv
  OBVIOUS
<1>1. TypeOK
  BY DEF Init, TypeOK, Slot, Flows
<1>2. PcInv
  BY NamesDistinct DEF Init, PcInv, Flows, Active, Waits
<1>3. ChainInv
  BY NamesDistinct DEF Init, ChainInv, Flows, Active, Waits, Resuming
<1>4. SlotInv
  BY NamesDistinct DEF Init, SlotInv, Flows, Active, Waits, Resuming
<1>5. NestInv
  <2>1. \A f \in Flows : ~Resuming(f) /\ ~Waits(f)
    BY NamesDistinct DEF Init, Flows, Resuming, Waits
  <2>2. Depths([f \in Flows |-> 0]) /\ WaysBack([f \in Flows |-> 0])
    BY <2>1 DEF Depths, WaysBack
  <2> QED BY <2>2 DEF NestInv
<1> QED BY <1>1, <1>2, <1>3, <1>4, <1>5 DEF IInv

LEMMA NewIInv ==
    ASSUME IInv, NEW f \in Flows, NEW c \in Coros, NEW s \in Switchers,
           CoroNew(f, c, s)
    PROVE  IInv'
<1> USE DEF IInv, TypeOK, Flows, CoroNew, PrepareEntry, KillContexts
<1>1. TypeOK'
  BY ScrubFact DEF Slot
<1>2. PcInv'
  BY NamesDistinct DEF PcInv, ChainInv, SlotInv, Executes, Waits, Resuming
<1>3. ChainInv'
  BY NamesDistinct DEF PcInv, ChainInv, SlotInv, Executes, Waits, Active, Resuming, Through
<1>4. SlotInv'
  BY NamesDistinct, ScrubFact DEF PcInv, ChainInv, SlotInv, Executes, Waits, Active, Resuming, Through
<1>5. NestInv'
  <2>1. \A g \in Flows : (Resuming(g)' <=> Resuming(g)) /\ (Waits(g) => g # c)
    BY NamesDistinct DEF PcInv, ChainInv, Executes, Waits, Resuming, Active
  <2>2. \A g \in Flows : Resuming(g) =>
           /\ arg[g] \in live /\ arg'[g] = arg[g]
           /\ Through(g) \in Switchers /\ Through(g)' = Through(g)
    BY NamesDistinct DEF PcInv, ChainInv, Executes, Waits, Resuming, Through, Active
  <2>3. \A g, h \in Flows : Waits(g) /\ Resuming(h) =>
           /\ caller[Through(h)] = g => caller'[Through(h)] = g
           /\ prevCaller[h] = g => prevCaller'[h] = g
    BY <2>1, <2>2, ScrubFact
  <2> QED BY <2>1, <2>2, <2>3, SameNesting
<1> QED BY <1>1, <1>2, <1>3, <1>4, <1>5

\* A coroutine that nobody has resumed is not waiting for another one.
LEMMA IdleIsNotWaiting ==
    ASSUME ChainInv, NEW c \in Coros, Idle(c)
    PROVE  pc[c] # "resume"
<1> SUFFICES ASSUME pc[c] = "resume" PROVE FALSE
  OBVIOUS
<1>1. PICK f \in Flows : Waits(f) /\ arg[f] = c
  BY DEF ChainInv, Resuming
<1>2. Active(c)
  BY <1>1 DEF Waits, Active
<1> QED BY <1>2 DEF Idle

LEMMA ResetIInv ==
    ASSUME IInv, NEW f \in Flows, NEW c \in Coros, 
           Idle(c), CoroReset(f, c)
    PROVE  IInv'
<1> USE DEF IInv, TypeOK, Flows, CoroReset, PrepareEntry, KillContexts, Idle
<1>1. TypeOK'
  <2>1. /\ running' \in Flows \cup {Wild}
        /\ pc' \in [Flows -> {"none", "entry", "user", "resume", "yield", "ended"}]
        /\ arg' \in [Flows -> Coros \cup {NULL}]
        /\ ended' \in [Coros -> BOOLEAN]
    OBVIOUS
  <2>2. /\ context' \in [Coros -> Slot]
        /\ caller' \in [Switchers -> Slot]
        /\ callee' \in [Switchers -> Slot]
        /\ prevCaller' \in [Flows -> Slot]
    BY ScrubFact DEF Slot
  <2>3. /\ live' \subseteq Coros
        /\ switcher' \in [Coros -> Switchers \cup {NULL}]
        /\ yieldValue' \in [Coros -> Values \cup {NULL}]
        /\ got' \in [Flows -> Values \cup {NULL}]
    OBVIOUS
  <2> QED BY <2>1, <2>2, <2>3 DEF TypeOK
<1>2. PcInv'
  BY NamesDistinct DEF PcInv, ChainInv, SlotInv, Executes, Waits, Resuming
<1>3. ChainInv'
  BY NamesDistinct DEF PcInv, ChainInv, SlotInv, Executes, Waits, Active, Resuming, Through
<1>4. SlotInv'
  <2>2. \A g \in Flows : Resuming(g)' /\ running' = g => FALSE
    BY NamesDistinct DEF PcInv, Executes, Resuming
  <2>3. context'[c] = c /\ pc'[c] = "entry"
    BY ScrubFact
  <2>4. pc[c] # "resume"
    BY IdleIsNotWaiting
  <2>5. ASSUME NEW d \in live, d # c, ~Active(d)', ~ended'[d]
        PROVE  context'[d] = d /\ pc'[d] \in {"entry", "yield"}
    <3>1. ~Active(d) /\ ~ended[d]
      BY <2>4, <2>5 DEF Active
    <3>2. context[d] = d /\ pc[d] \in {"entry", "yield"}
      BY <3>1 DEF SlotInv
    <3> QED BY <2>5, <3>2, ScrubFact
  <2> QED BY <2>2, <2>3, <2>5 DEF SlotInv
<1>5. NestInv'
  <2>1. \A g \in Flows : (Resuming(g)' <=> Resuming(g)) /\ (Waits(g) => g # c)
    BY NamesDistinct DEF PcInv, ChainInv, Executes, Waits, Resuming, Active
  <2>2. \A g \in Flows : Resuming(g) =>
           /\ arg[g] \in live /\ arg'[g] = arg[g]
           /\ Through(g) \in Switchers /\ Through(g)' = Through(g)
    BY NamesDistinct DEF PcInv, ChainInv, Executes, Waits, Resuming, Through, Active
  <2>3. \A g, h \in Flows : Waits(g) /\ Resuming(h) =>
           /\ caller[Through(h)] = g => caller'[Through(h)] = g
           /\ prevCaller[h] = g => prevCaller'[h] = g
    BY <2>1, <2>2, ScrubFact
  <2> QED BY <2>1, <2>2, <2>3, SameNesting
<1> QED BY <1>1, <1>2, <1>3, <1>4, <1>5

LEMMA FreeIInv ==
    ASSUME IInv, NEW f \in Flows, NEW c \in Coros, 
           Idle(c), CoroFree(f, c)
    PROVE  IInv'
<1> USE DEF IInv, TypeOK, Flows, CoroFree, KillContexts, Idle
<1>1. TypeOK'
  <2>1. /\ running' \in Flows \cup {Wild}
        /\ pc' \in [Flows -> {"none", "entry", "user", "resume", "yield", "ended"}]
        /\ arg' \in [Flows -> Coros \cup {NULL}]
        /\ ended' \in [Coros -> BOOLEAN]
    OBVIOUS
  <2>2. /\ context' \in [Coros -> Slot]
        /\ caller' \in [Switchers -> Slot]
        /\ callee' \in [Switchers -> Slot]
        /\ prevCaller' \in [Flows -> Slot]
    BY ScrubFact DEF Slot
  <2>3. /\ live' \subseteq Coros
        /\ switcher' \in [Coros -> Switchers \cup {NULL}]
        /\ yieldValue' \in [Coros -> Values \cup {NULL}]
        /\ got' \in [Flows -> Values \cup {NULL}]
    OBVIOUS
  <2> QED BY <2>1, <2>2, <2>3 DEF TypeOK
<1>2. PcInv'
  BY NamesDistinct DEF PcInv, ChainInv, SlotInv, Executes, Waits, Resuming
<1>3. ChainInv'
  BY NamesDistinct DEF PcInv, ChainInv, SlotInv, Executes, Waits, Active, Resuming, Through
<1>4. SlotInv'
  BY NamesDistinct, ScrubFact DEF PcInv, ChainInv, SlotInv, Executes, Waits, Active, Resuming, Through
<1>5. NestInv'
  <2>1. \A g \in Flows : (Resuming(g)' <=> Resuming(g)) /\ (Waits(g) => g # c)
    BY NamesDistinct DEF PcInv, ChainInv, Executes, Waits, Resuming, Active
  <2>2. \A g \in Flows : Resuming(g) =>
           /\ arg[g] \in live /\ arg'[g] = arg[g]
           /\ Through(g) \in Switchers /\ Through(g)' = Through(g)
    BY NamesDistinct DEF PcInv, ChainInv, Executes, Waits, Resuming, Through, Active
  <2>3. \A g, h \in Flows : Waits(g) /\ Resuming(h) =>
           /\ caller[Through(h)] = g => caller'[Through(h)] = g
           /\ prevCaller[h] = g => prevCaller'[h] = g
    BY <2>1, <2>2, ScrubFact
  <2> QED BY <2>1, <2>2, <2>3, SameNesting
<1> QED BY <1>1, <1>2, <1>3, <1>4, <1>5

LEMMA UpdateIInv ==
    ASSUME IInv, NEW f \in Flows, NEW c \in Coros, NEW s \in Switchers,
           Idle(c), CoroUpdate(f, c, s)
    PROVE  IInv'
<1> USE DEF IInv, TypeOK, Flows, CoroUpdate, Idle, slots
<1>1. TypeOK'
  BY ScrubFact DEF Slot
<1>2. PcInv'
  BY NamesDistinct DEF PcInv, ChainInv, SlotInv, Executes, Waits, Resuming
<1>3. ChainInv'
  BY NamesDistinct DEF PcInv, ChainInv, SlotInv, Executes, Waits, Active, Resuming, Through
<1>4. SlotInv'
  BY NamesDistinct, ScrubFact DEF PcInv, ChainInv, SlotInv, Executes, Waits, Active, Resuming, Through
<1>5. NestInv'
  <2>1. \A g \in Flows : (Resuming(g)' <=> Resuming(g)) /\ (Waits(g) => g # c)
    BY NamesDistinct DEF PcInv, ChainInv, Executes, Waits, Resuming, Active
  <2>2. \A g \in Flows : Resuming(g) =>
           /\ arg[g] \in live /\ arg'[g] = arg[g]
           /\ Through(g) \in Switchers /\ Through(g)' = Through(g)
    BY NamesDistinct DEF PcInv, ChainInv, Executes, Waits, Resuming, Through, Active
  <2>3. \A g, h \in Flows : Waits(g) /\ Resuming(h) =>
           /\ caller[Through(h)] = g => caller'[Through(h)] = g
           /\ prevCaller[h] = g => prevCaller'[h] = g
    BY <2>1, <2>2, ScrubFact
  <2> QED BY <2>1, <2>2, <2>3, SameNesting
<1> QED BY <1>1, <1>2, <1>3, <1>4, <1>5

LEMMA SwapInIInv ==
    ASSUME IInv, NEW f \in Flows, NEW c \in Coros, 
           MayResume(c), SwapIn(f, c),
           yieldValue' \in [Coros -> Values \cup {NULL}]
    PROVE  IInv'
<1> USE DEF IInv, TypeOK, Flows, SwapIn, MayResume, Idle, SwitcherFree, JumpTo
<1>a. switcher[c] \in Switchers /\ context[c] \in Slot /\ caller[switcher[c]] \in Slot
  BY DEF PcInv
<1>b. /\ Scrub(context, {context[c]}) \in [Coros -> Slot]
      /\ Scrub(caller, {context[c]}) \in [Switchers -> Slot]
      /\ Scrub(callee, {context[c]}) \in [Switchers -> Slot]
      /\ Scrub(prevCaller, {context[c]}) \in [Flows -> Slot]
  BY ScrubFact
<1>c. Scrub([prevCaller EXCEPT ![f] = caller[switcher[c]]], {context[c]})
         \in [Flows -> Slot]
  <2> DEFINE saved == [prevCaller EXCEPT ![f] = caller[switcher[c]]]
  <2>1. saved \in [Flows -> Slot]
    BY <1>a
  <2> HIDE DEF saved
  <2>2. Scrub(saved, {context[c]}) \in [Flows -> Slot]
    BY <2>1, ScrubFact
  <2> QED BY <2>2 DEF saved
<1>1. TypeOK'
  <2>1. /\ running' \in Flows \cup {Wild}
        /\ pc' \in [Flows -> {"none", "entry", "user", "resume", "yield", "ended"}]
        /\ arg' \in [Flows -> Coros \cup {NULL}]
    BY <1>a DEF Slot
  <2>2. /\ context' \in [Coros -> Slot]
        /\ callee' \in [Switchers -> Slot]
        /\ prevCaller' \in [Flows -> Slot]
    BY <1>b, <1>c
  <2>3. caller' \in [Switchers -> Slot]
    BY <1>a, <1>b DEF Slot
  <2>4. /\ live' \subseteq Coros
        /\ switcher' \in [Coros -> Switchers \cup {NULL}]
        /\ yieldValue' \in [Coros -> Values \cup {NULL}]
        /\ ended' \in [Coros -> BOOLEAN]
        /\ got' \in [Flows -> Values \cup {NULL}]
    OBVIOUS
  <2> QED BY <2>1, <2>2, <2>3, <2>4 DEF TypeOK
<1>2. PcInv'
  BY NamesDistinct DEF PcInv, ChainInv, SlotInv, Executes, Waits, Resuming
<1>3. ChainInv'
  <2>0. /\ running = f /\ running' = c /\ c # f /\ c \in live
        /\ pc[f] = "user" /\ pc[c] \in {"entry", "yield"}
        /\ pc' = [pc EXCEPT ![f] = "resume"] /\ arg' = [arg EXCEPT ![f] = c]
        /\ UNCHANGED <<live, switcher>>
    BY NamesDistinct DEF SlotInv, Executes, Waits, Active
  <2>1. \A g \in Flows :
           /\ Resuming(g)' <=> g = f \/ Resuming(g)
           /\ Waits(g)' <=> g = f \/ Resuming(g)
           /\ Waits(g) <=> Resuming(g)
           /\ g # f => arg'[g] = arg[g] /\ Through(g)' = Through(g)
    BY <2>0 DEF Resuming, Waits, Through
  <2>2. \A g \in Flows : Resuming(g) => g # f /\ arg[g] # c
    BY <2>0, NamesDistinct DEF Resuming, Waits, Active
  <2>3. arg'[f] = c /\ Through(f)' = switcher[c]
    BY <2>0 DEF Through
  <2>4. ~NestShared => \A g \in Flows : Resuming(g) => Through(g) # switcher[c]
    BY <2>1, <2>2 DEF ChainInv, Waits, Resuming, Through, Active
  <2>a. /\ ChainInv /\ live \subseteq Coros
        /\ live' = live /\ \A d \in Coros : pc'[d] = "yield" => pc[d] = "yield" /\ d # f
    BY <2>0
  <2> HIDE DEF IInv, TypeOK, SwapIn, MayResume, Idle, SwitcherFree, JumpTo
  <2>5. /\ \A g \in Flows : Resuming(g)' => arg'[g] \in live'
        /\ \A d \in Coros : pc'[d] = "yield" => arg'[d] = d
    BY <2>0, <2>1, <2>3, <2>a DEF ChainInv
  <2>6. \A g, h \in Flows :
           Resuming(g)' /\ Resuming(h)' /\ g # h => arg'[g] # arg'[h]
    BY <2>1, <2>2, <2>3, <2>a DEF ChainInv
  <2>7. \A g \in Flows : Waits(g)' => arg'[g] = running' \/ Resuming(arg[g])'
    BY <2>0, <2>1, <2>2, <2>3, <2>a DEF ChainInv
  <2>8. \A d \in Coros : Resuming(d)' \/ running' = d =>
           \E g \in Flows : Waits(g)' /\ arg'[g] = d
    BY <2>0, <2>1, <2>2, <2>3, <2>a DEF ChainInv
  <2>9. ~NestShared => \A g, h \in Flows :
           Resuming(g)' /\ Resuming(h)' /\ g # h => Through(g)' # Through(h)'
    BY <2>1, <2>3, <2>4, <2>a DEF ChainInv
  <2> QED BY <2>5, <2>6, <2>7, <2>8, <2>9 DEF ChainInv
<1>4. SlotInv'
  <2>1. /\ running' = c /\ c # f /\ pc[f] = "user" /\ context[c] = c
        /\ pc'[f] = "resume" /\ arg'[f] = c /\ pc'[c] \in {"entry", "yield"}
        /\ \A g \in Flows \ {f} : pc'[g] = pc[g] /\ arg'[g] = arg[g]
        /\ context' = Scrub(context, {c})
        /\ UNCHANGED <<live, ended>>
    <3>1. context[c] = c /\ pc[c] \in {"entry", "yield"} /\ c # f
      BY NamesDistinct DEF SlotInv, Executes
    <3>2. /\ running' = c /\ pc[f] = "user" /\ context' = Scrub(context, {c})
          /\ pc' = [pc EXCEPT ![f] = "resume"] /\ arg' = [arg EXCEPT ![f] = c]
          /\ UNCHANGED <<live, ended>>
      BY NamesDistinct, <3>1 DEF Executes
    <3>3. TypeOK
      OBVIOUS
    <3> HIDE DEF IInv, SwapIn, MayResume, Idle, SwitcherFree, JumpTo
    <3> QED BY <3>1, <3>2, <3>3
  <2>2. \A g \in Flows : Resuming(g)' /\ running' = g => FALSE
    BY <2>1 DEF Resuming
  <2>3. ASSUME NEW d \in live', ~Active(d)', ~ended'[d]
        PROVE  context'[d] = d /\ pc'[d] \in {"entry", "yield"}
    <3>1. d # c
      BY <2>1, <2>3 DEF Active
    <3>2. ~Active(d)
      BY <2>1, <2>3 DEF Active
    <3>3. context[d] = d /\ pc[d] \in {"entry", "yield"}
      BY <2>1, <2>3, <3>2 DEF SlotInv
    <3> QED BY <2>1, <2>3, <3>1, <3>3, ScrubFact
  <2> QED BY <2>2, <2>3 DEF SlotInv
<1>5. NestInv'
  <2>1. PICK d \in [Flows -> Nat] : Depths(d) /\ WaysBack(d)
    BY DEF NestInv
  <2> DEFINE e == [d EXCEPT ![c] = d[f] + 1]
  <2>2. /\ running = f /\ running' = c /\ c # f
        /\ pc[f] = "user" /\ pc[c] \in {"entry", "yield"}
        /\ context[c] = c
        /\ ~Resuming(f) /\ ~Resuming(c) /\ Resuming(f)' /\ Waits(f)'
        /\ arg'[f] = c /\ Through(f)' = switcher[c]
    BY NamesDistinct DEF SlotInv, Executes, Waits, Resuming, Through
  <2>3. \A g \in Flows \ {f} :
           /\ Resuming(g)' <=> Resuming(g)
           /\ Waits(g)' <=> Resuming(g)
           /\ Waits(g) <=> Resuming(g)
           /\ Resuming(g) => /\ g # c /\ arg[g] # c /\ arg[g] \in live
                            /\ arg'[g] = arg[g] /\ Through(g)' = Through(g)
                            /\ Through(g) \in Switchers
    BY <2>2 DEF PcInv, ChainInv, Waits, Resuming, Through, Active
  <2>4. /\ e \in [Flows -> Nat]
        /\ e[c] = d[f] + 1
        /\ \A g \in Flows \ {c} : e[g] = d[g]
    BY <2>1
  <2> HIDE DEF e
  <2>5. \A g \in Flows \ {f} : Resuming(g) => d[g] < d[f]
    BY <2>1, <2>2, <2>3 DEF Depths
  <2>6. Depths(e)'
    <3>1. \A g \in Flows : Waits(g)' => e[arg'[g]] = e[g] + 1
      BY <2>1, <2>2, <2>3, <2>4 DEF Depths
    <3>2. \A g \in Flows : Waits(g)' => e[g] < e[running']
      BY <2>1, <2>2, <2>3, <2>4, <2>5
    <3>3. ASSUME NEW g \in Flows, NEW h \in Flows,
                 Resuming(g)', Resuming(h)', g # h
          PROVE  e[g] # e[h]
      BY <2>1, <2>2, <2>3, <2>4, <2>5, <3>3 DEF Depths
    <3> QED BY <3>1, <3>2, <3>3 DEF Depths
  <2>7. \A g \in Flows : ~Inside(e, g, f)'
    BY <2>1, <2>2, <2>3, <2>4, <2>5 DEF Inside
  <2>8. \A g \in Flows \ {f} : Resuming(g) =>
           /\ \A h \in Flows \ {f} : Inside(e, h, g)' <=> Inside(d, h, g)
           /\ Inside(e, f, g)' <=> Through(g) = switcher[c]
           /\ ~Inside(d, f, g)
    BY <2>1, <2>2, <2>3, <2>4, <2>5 DEF Inside
  <2>9. ASSUME NEW g \in Flows, Waits(g)', \A h \in Flows : ~Inside(e, h, g)'
        PROVE  caller'[Through(g)'] = g
    <3>1. CASE g = f
      BY <3>1, <2>2, <1>a, <1>b
    <3>2. CASE g # f
      <4>1. Waits(g) /\ Through(g) # switcher[c] /\ caller[Through(g)] = g
        BY <2>1, <2>3, <2>8, <2>9, <3>2 DEF WaysBack
      <4> QED BY <4>1, <3>2, <2>2, <2>3, <1>a, ScrubFact
    <3> QED BY <3>1, <3>2
  <2>10. ASSUME NEW g \in Flows, NEW h \in Flows,
                Waits(g)', FirstInside(e, h, g)'
         PROVE  prevCaller'[h] = g
    <3>1. g # f /\ Resuming(g) /\ Waits(g) /\ Resuming(h)'
      BY <2>3, <2>7, <2>10 DEF FirstInside, Inside
    <3>2. CASE h # f
      <4>1. FirstInside(d, h, g)
        BY <2>3, <2>4, <2>8, <2>10, <3>1, <3>2 DEF FirstInside, Inside
      <4>2. prevCaller[h] = g
        BY <4>1, <3>1, <2>1 DEF WaysBack
      <4>3. h \in Flows /\ g # c /\ h # f
        BY <3>1, <3>2, <2>3
      <4> DEFINE saved == [prevCaller EXCEPT ![f] = caller[switcher[c]]]
      <4>4. saved \in [Flows -> Slot] /\ saved[h] = g
        BY <4>2, <4>3, <1>a
      <4>5. prevCaller' = Scrub(saved, {c}) \/ prevCaller' = Scrub(prevCaller, {c})
        BY <2>2
      <4> HIDE DEF saved
      <4>6. Scrub(saved, {c})[h] = g /\ Scrub(prevCaller, {c})[h] = g
        BY <4>2, <4>3, <4>4, ScrubFact
      <4> QED BY <4>5, <4>6
    <3>3. CASE h = f
      <4>1. \A k \in Flows : ~Inside(d, k, g)
        BY <2>1, <2>2, <2>3, <2>4, <2>5, <2>8, <2>10, <3>1, <3>3
           DEF FirstInside, Inside
      <4>2. Through(g) = switcher[c] /\ caller[switcher[c]] = g
        BY <4>1, <3>1, <3>3, <2>1, <2>8, <2>10 DEF WaysBack, FirstInside
      <4>3. SavesCaller
        BY <4>2, <3>1, <2>3, BuildAssumption DEF Active, Resuming, Through
      <4> DEFINE saved == [prevCaller EXCEPT ![f] = caller[switcher[c]]]
      <4>4. saved \in [Flows -> Slot] /\ saved[f] = g
        BY <4>2, <1>a
      <4>5. prevCaller' = Scrub(saved, {c})
        BY <4>3, <2>2
      <4> HIDE DEF saved
      <4> QED BY <4>4, <4>5, <3>1, <3>3, <2>3, ScrubFact
    <3> QED BY <3>2, <3>3
  <2>11. WaysBack(e)'
    BY <2>9, <2>10 DEF WaysBack
  <2> QED BY <2>4, <2>6, <2>11 DEF NestInv
<1> QED BY <1>1, <1>2, <1>3, <1>4, <1>5

LEMMA ResumeReturnIInv ==
    ASSUME IInv, NEW f \in Flows, ResumeReturn(f)
    PROVE  IInv'
<1> USE DEF IInv, TypeOK, Flows, ResumeReturn, FinishResume, RestoreCaller
<1>a. arg[f] \in Coros /\ switcher[arg[f]] \in Switchers
  BY DEF PcInv, ChainInv, Resuming
<1>1. TypeOK'
  BY <1>a DEF Slot
<1>2. PcInv'
  BY NamesDistinct DEF PcInv, ChainInv, SlotInv, Executes, Waits, Resuming
<1>3. ChainInv'
  BY NamesDistinct DEF PcInv, ChainInv, SlotInv, Executes, Waits, Active, Resuming, Through
<1>4. SlotInv'
  BY NamesDistinct, ScrubFact DEF PcInv, ChainInv, SlotInv, Executes, Waits, Active, Resuming, Through
<1>5. NestInv'
  <2>1. PICK d \in [Flows -> Nat] : Depths(d) /\ WaysBack(d)
    BY DEF NestInv
  <2>2. /\ running = f /\ running' = f /\ Resuming(f) /\ ~Resuming(f)'
        /\ ~Waits(f)' /\ Through(f) = switcher[arg[f]]
    BY DEF Resuming, Through, Waits
  <2>3. \A g \in Flows \ {f} :
           /\ Resuming(g)' <=> Resuming(g)
           /\ Waits(g)' <=> Resuming(g)
           /\ Waits(g) <=> Resuming(g)
           /\ arg'[g] = arg[g] /\ Through(g)' = Through(g)
           /\ prevCaller'[g] = prevCaller[g]
           /\ Resuming(g) => d[g] < d[f]
    <3>1. ASSUME NEW g \in Flows \ {f}
          PROVE  /\ pc'[g] = pc[g] /\ arg'[g] = arg[g]
                 /\ Through(g)' = Through(g)
                 /\ prevCaller'[g] = prevCaller[g]
      BY <3>1 DEF Through
    <3>2. \A g \in Flows \ {f} : Resuming(g) => Waits(g) /\ d[g] < d[f]
      BY <2>1, <2>2 DEF Waits, Resuming, Depths
    <3> QED BY <3>1, <3>2, <2>2 DEF Waits, Resuming
  <2>4. Depths(d)'
    <3>1. \A g \in Flows : Waits(g)' => Waits(g) /\ g # f /\ arg'[g] = arg[g]
      BY <2>2, <2>3
    <3>2. \A g \in Flows : Resuming(g)' => Resuming(g)
      BY <2>2, <2>3
    <3> QED BY <2>1, <2>2, <3>1, <3>2 DEF Depths
  <2>5. \A g, h \in Flows \ {f} :
           /\ Inside(d, h, g)' <=> Inside(d, h, g)
           /\ ~Inside(d, f, g)'
    BY <2>2, <2>3 DEF Inside
  <2>6. ASSUME NEW g \in Flows, Waits(g)', \A h \in Flows : ~Inside(d, h, g)'
        PROVE  caller'[Through(g)'] = g
    <3>1. /\ g # f /\ Waits(g) /\ Resuming(g)
          /\ \A h \in Flows \ {f} : ~Inside(d, h, g)
      BY <2>2, <2>3, <2>5, <2>6 DEF Waits, Resuming
    <3>2. CASE Through(g) # Through(f)
      <4>1. ~Inside(d, f, g)
        BY <3>2 DEF Inside
      <4>2. caller[Through(g)] = g
        BY <3>1, <4>1, <2>1 DEF WaysBack
      <4> QED BY <4>2, <3>1, <3>2, <2>2, <2>3
    <3>3. CASE Through(g) = Through(f)
      <4>1. FirstInside(d, f, g)
        BY <3>1, <3>3, <2>1, <2>2, <2>3 DEF FirstInside, Inside
      <4>2. prevCaller[f] = g
        BY <3>1, <4>1, <2>1 DEF WaysBack
      <4>3. ~ended[arg[f]]
        BY <3>1, <3>3, <2>2 DEF SlotInv
      <4>4. SavesCaller
        BY <3>1, <3>3, <2>2, BuildAssumption DEF ChainInv
      <4> QED BY <4>2, <4>3, <4>4, <3>1, <3>3, <2>2, <2>3, <1>a
    <3> QED BY <3>2, <3>3
  <2>7. ASSUME NEW g \in Flows, NEW h \in Flows,
               Waits(g)', FirstInside(d, h, g)'
        PROVE  prevCaller'[h] = g
    <3>1. /\ g # f /\ Waits(g) /\ Resuming(g)
          /\ h # f /\ Inside(d, h, g) /\ Resuming(h)
      BY <2>2, <2>3, <2>5, <2>7 DEF FirstInside, Inside, Waits, Resuming
    <3>2. \A k \in Flows : Inside(d, k, g) => d[h] <= d[k]
      BY <3>1, <2>1, <2>3, <2>5, <2>7 DEF FirstInside
    <3>3. prevCaller[h] = g
      BY <3>1, <3>2, <2>1 DEF WaysBack, FirstInside
    <3> QED BY <3>1, <3>3, <2>3
  <2>8. WaysBack(d)'
    BY <2>6, <2>7 DEF WaysBack
  <2> QED BY <2>4, <2>8 DEF NestInv
<1> QED BY <1>1, <1>2, <1>3, <1>4, <1>5

\* switcher->caller leads back to the flow that waits for the running coroutine.
LEMMA WayBack ==
    ASSUME IInv, NEW c \in Coros, running = c, pc[c] = "user",
           NEW f \in Flows, Waits(f), arg[f] = c
    PROVE  caller[switcher[c]] = f
<1>1. PICK d \in [Flows -> Nat] : Depths(d) /\ WaysBack(d)
  BY DEF IInv, NestInv
<1>2. ASSUME NEW g \in Flows, Inside(d, g, f)
      PROVE  FALSE
  <2>1. Waits(g) /\ d[g] < d[c] /\ d[c] = d[f] + 1 /\ d[f] < d[g]
    BY <1>1, <1>2 DEF Inside, Depths, Waits, Resuming
  <2> QED BY <2>1, <1>1 DEF Flows
<1> QED BY <1>1, <1>2 DEF WaysBack, Through

LEMMA SwapOutIInv ==
    ASSUME IInv, NEW c \in Coros, NEW v \in Values, NEW at \in {"yield", "ended"},
           SwapOut(c, c, v, at),
           at = "yield" => arg' = [arg EXCEPT ![c] = c] /\ UNCHANGED ended,
           at = "ended" => /\ ended' = [ended EXCEPT ![c] = TRUE]
                           /\ UNCHANGED arg
                           /\ SwitcherFree(c)
    PROVE  IInv'
<1> USE DEF IInv, TypeOK, Flows
<1>1. /\ c \in live /\ switcher[c] \in Switchers
      /\ running = c /\ pc[c] = "user"
  BY NamesDistinct DEF PcInv, SwapOut, Executes
<1>2. PICK f \in Flows : Waits(f) /\ arg[f] = c
  BY <1>1 DEF ChainInv, Resuming
<1>3. /\ caller[switcher[c]] = f /\ f # c /\ pc[f] = "resume"
      /\ f # Stale
  BY <1>1, <1>2, WayBack, NamesDistinct DEF Waits
<1>4. /\ running' = f
      /\ pc' = [pc EXCEPT ![c] = at]
      /\ yieldValue' = [yieldValue EXCEPT ![c] = v]
      /\ context' = Scrub(context, {f})
      /\ caller' = Scrub(caller, {f})
      /\ callee' = [Scrub(callee, {f}) EXCEPT ![switcher[c]] = c]
      /\ prevCaller' = Scrub(prevCaller, {f})
      /\ UNCHANGED <<live, switcher, got>>
  BY <1>3 DEF SwapOut, JumpTo
<1>s. /\ Scrub(context, {f}) \in [Coros -> Slot]
      /\ Scrub(caller, {f}) \in [Switchers -> Slot]
      /\ Scrub(callee, {f}) \in [Switchers -> Slot]
      /\ Scrub(prevCaller, {f}) \in [Flows -> Slot]
  BY ScrubFact
<1>t. /\ ended' \in [Coros -> BOOLEAN]
      /\ arg' \in [Flows -> Coros \cup {NULL}]
  <2>1. CASE at = "yield"
    BY <2>1
  <2>2. CASE at = "ended"
    BY <2>2
  <2> QED BY <2>1, <2>2
<1>5. TypeOK'
  BY <1>1, <1>4, <1>s, <1>t DEF Slot
<1>6. PcInv'
  BY <1>1, <1>3, <1>4, NamesDistinct DEF PcInv
<1>r. \A g \in Flows :
         /\ Resuming(g)' <=> Resuming(g)
         /\ Waits(g)' <=> Resuming(g) /\ g # f
         /\ Waits(g) <=> Resuming(g)
         /\ Resuming(g) => arg'[g] = arg[g] /\ Through(g)' = Through(g)
  BY <1>1, <1>2, <1>3, <1>4 DEF Waits, Resuming, Through
<1>7. ChainInv'
  BY <1>1, <1>2, <1>3, <1>4, NamesDistinct DEF PcInv, ChainInv, Waits, Resuming, Through
<1>8. SlotInv'
  <2>2. ASSUME NEW g \in Flows, (Resuming(g) /\ running = g)'
        PROVE  /\ pc'[arg'[g]] \in {"yield", "ended"}
               /\ ~ended'[arg'[g]] => callee'[Through(g)'] = arg'[g]
               /\ ended'[arg'[g]] => \A h \in Flows \ {g} :
                     Resuming(h)' => Through(h)' # Through(g)'
    <3>1. g = f /\ arg'[g] = c /\ Through(g)' = switcher[c]
      BY <2>2, <1>1, <1>2, <1>3, <1>4, <1>r DEF Through
    <3>2. pc'[c] \in {"yield", "ended"} /\ callee'[switcher[c]] = c
      BY <1>1, <1>4, <1>s
    <3>3. ASSUME ended'[c], NEW h \in Flows \ {f}, Resuming(h)'
          PROVE  Through(h)' # switcher[c]
      <4>1. SwitcherFree(c)
        BY <3>3, <1>1 DEF PcInv
      <4>2. Active(arg[h]) /\ arg[h] \in Coros /\ arg[h] # c
        BY <3>3, <1>2, <1>3, <1>r DEF Active, Resuming, ChainInv
      <4> QED BY <4>1, <4>2, <3>3, <1>r DEF SwitcherFree, Through
    <3> QED BY <3>1, <3>2, <3>3
  <2>3. ASSUME NEW x \in live', ~Active(x)', ~ended'[x]
        PROVE  context'[x] = x /\ pc'[x] \in {"entry", "yield"}
    BY <2>3, <1>1, <1>2, <1>3, <1>4, ScrubFact, NamesDistinct
       DEF PcInv, ChainInv, SlotInv, Waits, Active, Resuming
  <2> QED BY <2>2, <2>3 DEF SlotInv
<1>9. NestInv'
  <2>1. PICK d \in [Flows -> Nat] : Depths(d) /\ WaysBack(d)
    BY DEF NestInv
  <2>2. \A g \in Flows : Resuming(g) /\ g # f => d[g] < d[f]
    <3>1. ASSUME NEW g \in Flows, Resuming(g), g # f
          PROVE  d[g] < d[f]
      <4>1. d[g] < d[c] /\ d[c] = d[f] + 1 /\ d[g] # d[f]
        BY <2>1, <3>1, <1>1, <1>2, <1>r DEF Depths
      <4> QED BY <4>1, <2>1
    <3> QED BY <3>1
  <2>3. Depths(d)'
    BY <2>1, <2>2, <1>4, <1>r DEF Depths
  <2>4. \A g, h \in Flows : Resuming(g) =>
           (Inside(d, h, g)' <=> Inside(d, h, g))
    BY <1>r DEF Inside
  <2>5. ASSUME NEW g \in Flows, Waits(g)', \A h \in Flows : ~Inside(d, h, g)'
        PROVE  caller'[Through(g)'] = g
    <3>1. /\ Waits(g) /\ Resuming(g) /\ g # f
          /\ \A h \in Flows : ~Inside(d, h, g)
      BY <2>4, <2>5, <1>r
    <3>2. caller[Through(g)] = g /\ Through(g) \in Switchers
      BY <3>1, <2>1 DEF WaysBack, ChainInv, PcInv, Through
    <3> QED BY <3>1, <3>2, <1>4, <1>r, ScrubFact
  <2>6. ASSUME NEW g \in Flows, NEW h \in Flows,
               Waits(g)', FirstInside(d, h, g)'
        PROVE  prevCaller'[h] = g
    <3>1. /\ Waits(g) /\ Resuming(g) /\ g # f
          /\ FirstInside(d, h, g)
      BY <2>4, <2>6, <1>r DEF FirstInside
    <3>2. prevCaller[h] = g
      BY <3>1, <2>1 DEF WaysBack
    <3> QED BY <3>1, <3>2, <1>4, ScrubFact
  <2>7. WaysBack(d)'
    BY <2>5, <2>6 DEF WaysBack
  <2> QED BY <2>3, <2>7 DEF NestInv
<1> QED BY <1>5, <1>6, <1>7, <1>8, <1>9

LEMMA YieldReturnIInv ==
    ASSUME IInv, NEW c \in Coros, YieldReturn(c)
    PROVE  IInv'
<1> USE DEF IInv, TypeOK, Flows, YieldReturn, slots
<1>1. TypeOK'
  BY DEF Slot, ChainInv
<1>2. PcInv'
  BY NamesDistinct DEF PcInv, ChainInv, SlotInv, Executes, Waits, Resuming
<1>3. ChainInv'
  BY NamesDistinct DEF PcInv, ChainInv, SlotInv, Executes, Waits, Active, Resuming, Through
<1>4. SlotInv'
  BY NamesDistinct, ScrubFact DEF PcInv, ChainInv, SlotInv, Executes, Waits, Active, Resuming, Through
<1>5. NestInv'
  <2>1. \A g \in Flows : (Resuming(g)' <=> Resuming(g)) /\ (Waits(g) => g # c)
    BY NamesDistinct DEF PcInv, ChainInv, Executes, Waits, Resuming, Active
  <2>2. \A g \in Flows : Resuming(g) =>
           /\ arg[g] \in live /\ arg'[g] = arg[g]
           /\ Through(g) \in Switchers /\ Through(g)' = Through(g)
    BY NamesDistinct DEF PcInv, ChainInv, Executes, Waits, Resuming, Through, Active
  <2>3. \A g, h \in Flows : Waits(g) /\ Resuming(h) =>
           /\ caller[Through(h)] = g => caller'[Through(h)] = g
           /\ prevCaller[h] = g => prevCaller'[h] = g
    BY <2>1, <2>2, ScrubFact
  <2> QED BY <2>1, <2>2, <2>3, SameNesting
<1> QED BY <1>1, <1>2, <1>3, <1>4, <1>5

LEMMA EntryStartIInv ==
    ASSUME IInv, NEW c \in Coros, EntryStart(c)
    PROVE  IInv'
<1> USE DEF IInv, TypeOK, Flows, EntryStart, slots
<1>1. TypeOK'
  BY ScrubFact DEF Slot
<1>2. PcInv'
  BY NamesDistinct DEF PcInv, ChainInv, SlotInv, Executes, Waits, Resuming
<1>3. ChainInv'
  BY NamesDistinct DEF PcInv, ChainInv, SlotInv, Executes, Waits, Active, Resuming, Through
<1>4. SlotInv'
  BY NamesDistinct, ScrubFact DEF PcInv, ChainInv, SlotInv, Executes, Waits, Active, Resuming, Through
<1>5. NestInv'
  <2>1. \A g \in Flows : (Resuming(g)' <=> Resuming(g)) /\ (Waits(g) => g # c)
    BY NamesDistinct DEF PcInv, ChainInv, Executes, Waits, Resuming, Active
  <2>2. \A g \in Flows : Resuming(g) =>
           /\ arg[g] \in live /\ arg'[g] = arg[g]
           /\ Through(g) \in Switchers /\ Through(g)' = Through(g)
    BY NamesDistinct DEF PcInv, ChainInv, Executes, Waits, Resuming, Through, Active
  <2>3. \A g, h \in Flows : Waits(g) /\ Resuming(h) =>
           /\ caller[Through(h)] = g => caller'[Through(h)] = g
           /\ prevCaller[h] = g => prevCaller'[h] = g
    BY <2>1, <2>2, ScrubFact
  <2> QED BY <2>1, <2>2, <2>3, SameNesting
<1> QED BY <1>1, <1>2, <1>3, <1>4, <1>5

-----------------------------------------------------------------------------
(* Every step keeps the invariant                                          *)

LEMMA StepIInv ==
    ASSUME IInv, [Next]_vars
    PROVE  IInv'
<1>1. ASSUME NEW f \in Flows, ResumeReturn(f)
      PROVE  IInv'
  BY <1>1, ResumeReturnIInv
<1>2. ASSUME NEW f \in Flows, NEW c \in Coros, Manage(f, c)
      PROVE  IInv'
  BY <1>2, NewIInv, ResetIInv, FreeIInv, UpdateIInv DEF Manage
<1>3. ASSUME NEW f \in Flows, NEW c \in Coros, Transfer(f, c)
      PROVE  IInv'
  <2>1. CASE MayResume(c) /\ CoroResume(f, c)
    <3>1. yieldValue' \in [Coros -> Values \cup {NULL}]
      BY <2>1 DEF CoroResume, IInv, TypeOK
    <3> QED BY <2>1, <3>1, SwapInIInv DEF CoroResume
  <2>2. ASSUME NEW v \in Values, MayResume(c), CoroResumeValue(f, c, v)
        PROVE  IInv'
    <3>1. yieldValue' \in [Coros -> Values \cup {NULL}]
      BY <2>2 DEF CoroResumeValue, IInv, TypeOK
    <3> QED BY <2>2, <3>1, SwapInIInv DEF CoroResumeValue
  <2> QED BY <1>3, <2>1, <2>2 DEF Transfer
<1>4. ASSUME NEW c \in Coros, Coroutine(c)
      PROVE  IInv'
  <2>1. CASE EntryStart(c)
    BY <2>1, EntryStartIInv
  <2>2. CASE YieldReturn(c)
    BY <2>2, YieldReturnIInv
  <2>3. ASSUME NEW v \in Values, CoroYield(c, c, v)
        PROVE  IInv'
    BY <2>3, SwapOutIInv DEF CoroYield
  <2>4. ASSUME NEW v \in Values, MayReturn(c), EntryEnd(c, v)
        PROVE  IInv'
    BY <2>4, SwapOutIInv DEF EntryEnd, MayReturn
  <2> QED BY <1>4, <2>1, <2>2, <2>3, <2>4 DEF Coroutine
<1>5. CASE UNCHANGED vars
  <2> USE <1>5 DEF vars, IInv
  <2>1. TypeOK' /\ PcInv'
    BY DEF TypeOK, PcInv
  <2>2. ChainInv' /\ SlotInv'
    BY DEF ChainInv, SlotInv, Waits, Active, Resuming, Through
  <2>3. NestInv'
    BY SameNesting DEF Resuming, Through
  <2> QED BY <2>1, <2>2, <2>3
<1> QED BY <1>1, <1>2, <1>3, <1>4, <1>5 DEF Next

THEOREM Invariance == Spec => []IInv
BY InitIInv, StepIInv, PTL DEF Spec

\* The state of the coroutine library keeps its types.
THEOREM TypeCorrect == Spec => []TypeOK
<1>1. IInv => TypeOK
  BY DEF IInv
<1> QED BY <1>1, Invariance, PTL

\* Whether coroutines nest over different switchers only or, in the build
\* with prev_caller, over shared ones, no swap in lwan-coro.c jumps through a
\* context that is no longer good.
THEOREM SwapsAreSafe == Spec => []NoWildSwap
<1>1. IInv => NoWildSwap
  BY NamesDistinct DEF IInv, PcInv, NoWildSwap
<1> QED BY <1>1, Invariance, PTL

\* However coroutines nest, one that can be resumed has its own current
\* context in coro->context.
THEOREM ContextsAreOwn == Spec => []ResumableHasOwnContext
<1>1. IInv => ResumableHasOwnContext
  BY DEF IInv, SlotInv, ResumableHasOwnContext, Idle
<1> QED BY <1>1, Invariance, PTL

-----------------------------------------------------------------------------
(* The library implements ResumeChain                                      *)

waitingBar == [f \in Flows |-> WaitsFor(f)]
statusBar == [c \in Coros |-> StatusOf(c)]
gotBar == [f \in Flows |-> GotBy(f)]
barVars == <<running, waitingBar, statusBar, yieldValue, gotBar>>

LEMMA InitRefines == Init => Chain!Init
BY NamesDistinct DEF Init, Chain!Init, Chain!Flows, Flows, WaitsFor, Waits, StatusOf, GotBy

LEMMA NewRefines ==
    ASSUME IInv, NEW f \in Flows, NEW c \in Coros, NEW s \in Switchers,
           CoroNew(f, c, s)
    PROVE  Chain!Create(c)
<1> USE DEF IInv, TypeOK, Flows
<1>1. \A g \in Flows :
        /\ Waits(g)' <=> Waits(g)
        /\ Waits(g) => arg'[g] = arg[g] /\ arg[g] # c
  BY NamesDistinct DEF PcInv, ChainInv, Resuming, Through, CoroNew, PrepareEntry, KillContexts, Executes, Waits
<1>2. \A d \in Coros \ {c} : StatusOf(d)' = StatusOf(d)
  BY <1>1, NamesDistinct DEF PcInv, CoroNew, PrepareEntry, KillContexts, Executes, StatusOf, Entered
<1>3. StatusOf(c) \in {"none"} /\ StatusOf(c)' = "fresh"
  BY <1>1, NamesDistinct DEF PcInv, SlotInv, CoroNew, PrepareEntry, KillContexts, Executes, StatusOf, Entered, Active, Waits
<1>4. statusBar[c] \in {"none"} /\ statusBar' = [statusBar EXCEPT ![c] = "fresh"]
  BY <1>2, <1>3 DEF statusBar
<1>5. \A g \in Flows : WaitsFor(g)' = WaitsFor(g) /\ GotBy(g)' = GotBy(g)
  BY <1>1, NamesDistinct DEF PcInv, CoroNew, PrepareEntry, KillContexts, Executes, WaitsFor, GotBy, Waits
<1>6. waitingBar' = waitingBar /\ gotBar' = gotBar
  BY <1>5 DEF waitingBar, gotBar
<1> QED BY <1>4, <1>6 DEF Chain!Create, statusBar, waitingBar, gotBar, CoroNew, PrepareEntry, KillContexts

LEMMA ResetRefines ==
    ASSUME IInv, NEW f \in Flows, NEW c \in Coros, Idle(c), CoroReset(f, c)
    PROVE  Chain!Restart(c)
<1> USE DEF IInv, TypeOK, Flows
<1>1. \A g \in Flows :
        /\ Waits(g)' <=> Waits(g)
        /\ Waits(g) => arg'[g] = arg[g] /\ arg[g] # c
  BY NamesDistinct DEF PcInv, ChainInv, Resuming, Through, SlotInv, CoroReset, PrepareEntry, KillContexts, Idle, Executes, Waits, Active
<1>2. \A d \in Coros \ {c} : StatusOf(d)' = StatusOf(d)
  BY <1>1, NamesDistinct DEF PcInv, CoroReset, PrepareEntry, KillContexts, Idle, Executes, StatusOf, Entered
<1>3. StatusOf(c) \in {"fresh", "suspended", "ended"} /\ StatusOf(c)' = "fresh"
  BY <1>1, NamesDistinct DEF PcInv, SlotInv, CoroReset, PrepareEntry, KillContexts, Idle, Executes, StatusOf, Entered, Active, Waits
<1>4. statusBar[c] \in {"fresh", "suspended", "ended"} /\ statusBar' = [statusBar EXCEPT ![c] = "fresh"]
  BY <1>2, <1>3 DEF statusBar
<1>5. \A g \in Flows : WaitsFor(g)' = WaitsFor(g) /\ GotBy(g)' = GotBy(g)
  BY <1>1, NamesDistinct DEF PcInv, CoroReset, PrepareEntry, KillContexts, Idle, Executes, WaitsFor, GotBy, Waits
<1>6. waitingBar' = waitingBar /\ gotBar' = gotBar
  BY <1>5 DEF waitingBar, gotBar
<1> QED BY <1>4, <1>6 DEF Chain!Restart, statusBar, waitingBar, gotBar, CoroReset, PrepareEntry, KillContexts, Idle

LEMMA FreeRefines ==
    ASSUME IInv, NEW f \in Flows, NEW c \in Coros, Idle(c), CoroFree(f, c)
    PROVE  Chain!Destroy(c)
<1> USE DEF IInv, TypeOK, Flows
<1>1. \A g \in Flows :
        /\ Waits(g)' <=> Waits(g)
        /\ Waits(g) => arg'[g] = arg[g] /\ arg[g] # c
  BY NamesDistinct DEF PcInv, ChainInv, Resuming, Through, SlotInv, CoroFree, KillContexts, Idle, Executes, Waits, Active
<1>2. \A d \in Coros \ {c} : StatusOf(d)' = StatusOf(d)
  BY <1>1, NamesDistinct DEF PcInv, CoroFree, KillContexts, Idle, Executes, StatusOf, Entered
<1>3. StatusOf(c) \in {"fresh", "suspended", "ended"} /\ StatusOf(c)' = "none"
  BY <1>1, NamesDistinct DEF PcInv, SlotInv, CoroFree, KillContexts, Idle, Executes, StatusOf, Entered, Active, Waits
<1>4. statusBar[c] \in {"fresh", "suspended", "ended"} /\ statusBar' = [statusBar EXCEPT ![c] = "none"]
  BY <1>2, <1>3 DEF statusBar
<1>5. \A g \in Flows : WaitsFor(g)' = WaitsFor(g) /\ GotBy(g)' = GotBy(g)
  BY <1>1, NamesDistinct DEF PcInv, CoroFree, KillContexts, Idle, Executes, WaitsFor, GotBy, Waits
<1>6. waitingBar' = waitingBar /\ gotBar' = gotBar
  BY <1>5 DEF waitingBar, gotBar
<1> QED BY <1>4, <1>6 DEF Chain!Destroy, statusBar, waitingBar, gotBar, CoroFree, KillContexts, Idle

LEMMA UpdateRefines ==
    ASSUME IInv, NEW f \in Flows, NEW c \in Coros, NEW s \in Switchers,
           CoroUpdate(f, c, s)
    PROVE  UNCHANGED barVars
<1>1. \A d \in Coros : StatusOf(d)' = StatusOf(d)
  BY DEF CoroUpdate, StatusOf, Entered, Waits
<1>2. \A g \in Flows : WaitsFor(g)' = WaitsFor(g) /\ GotBy(g)' = GotBy(g)
  BY DEF CoroUpdate, WaitsFor, GotBy, Waits
<1> QED BY <1>1, <1>2 DEF barVars, statusBar, waitingBar, gotBar, CoroUpdate

LEMMA SwapInRefines ==
    ASSUME IInv, NEW f \in Flows, NEW c \in Coros,
           MayResume(c), SwapIn(f, c),
           NEW v, yieldValue' = [yieldValue EXCEPT ![c] = v]
    PROVE  Chain!Enter(f, c, v)
<1> USE DEF IInv, TypeOK, Flows
<1>1. /\ context[c] = c /\ pc[c] \in {"entry", "yield"} /\ f # c
      /\ running = f /\ pc[f] = "user" /\ running' = c
      /\ pc' = [pc EXCEPT ![f] = "resume"]
      /\ arg' = [arg EXCEPT ![f] = c]
      /\ UNCHANGED <<live, got>>
  BY NamesDistinct DEF SlotInv, SwapIn, MayResume, Idle, JumpTo, Executes
<1>2. ~Entered(c) /\ c \in live
  BY DEF MayResume, Idle, Active, Entered, Waits
<1>3. \A g \in Flows \ {f} : Waits(g)' <=> Waits(g)
  BY <1>1 DEF PcInv, Waits
<1>4. Waits(f)' /\ ~Waits(f)
  BY <1>1 DEF Waits
<1>5. \A d \in Coros \ {c} : StatusOf(d)' = StatusOf(d)
  BY <1>1, <1>3, <1>4, NamesDistinct DEF PcInv, StatusOf, Entered
<1>6. StatusOf(c) = (IF pc[c] = "entry" THEN "fresh" ELSE "suspended")
  BY <1>1, <1>2 DEF StatusOf
<1>7. StatusOf(c)' = "active"
  BY <1>1, <1>2, <1>4 DEF StatusOf, Entered
<1>8. statusBar' = [statusBar EXCEPT ![c] = "active"]
  BY <1>5, <1>7 DEF statusBar
<1>9. waitingBar' = [waitingBar EXCEPT ![f] = c]
  BY <1>1, <1>3, <1>4 DEF waitingBar, WaitsFor
<1>10. \A g \in Flows \ {c} : GotBy(g)' = GotBy(g)
  BY <1>1 DEF GotBy
<1>11. /\ GotBy(c) = got[c]
       /\ GotBy(c)' = IF pc[c] = "entry" THEN got[c] ELSE v
  BY <1>1 DEF GotBy, ChainInv, Resuming, Through
<1>12. gotBar' = IF statusBar[c] = "fresh" THEN gotBar
                 ELSE [gotBar EXCEPT ![c] = v]
  <2>1. CASE pc[c] = "entry"
    BY <2>1, <1>6, <1>10, <1>11 DEF gotBar, statusBar
  <2>2. CASE pc[c] = "yield"
    BY <2>2, <1>6, <1>10, <1>11 DEF gotBar, statusBar
  <2> QED BY <1>1, <2>1, <2>2
<1> QED BY <1>1, <1>6, <1>8, <1>9, <1>12 DEF Chain!Enter, statusBar, waitingBar, gotBar

LEMMA ResumeReturnRefines ==
    ASSUME IInv, NEW f \in Flows, ResumeReturn(f)
    PROVE  UNCHANGED barVars
<1> USE DEF IInv, TypeOK, Flows
<1>1. \A g \in Flows : /\ Waits(g)' <=> Waits(g)
                       /\ Waits(g) => arg'[g] = arg[g]
  BY DEF ResumeReturn, FinishResume, RestoreCaller, Waits
<1>2. \A d \in Coros : StatusOf(d)' = StatusOf(d)
  <2>1. f \in Coros => Entered(f)
    BY DEF ResumeReturn, FinishResume, RestoreCaller, ChainInv, Resuming, Through, Entered
  <2>2. \A d \in Coros : Entered(d)' <=> Entered(d)
    BY <1>1 DEF Entered
  <2> QED BY <2>1, <2>2 DEF ResumeReturn, FinishResume, RestoreCaller, StatusOf
<1>3. \A g \in Flows : WaitsFor(g)' = WaitsFor(g)
  BY <1>1 DEF WaitsFor
<1>4. \A g \in Flows : GotBy(g)' = GotBy(g)
  BY DEF ResumeReturn, FinishResume, RestoreCaller, GotBy
<1> QED BY <1>2, <1>3, <1>4 DEF barVars, statusBar, waitingBar, gotBar, ResumeReturn, FinishResume, RestoreCaller

LEMMA SwapOutRefines ==
    ASSUME IInv, NEW c \in Coros, NEW v \in Values, NEW at \in {"yield", "ended"},
           SwapOut(c, c, v, at),
           \A g \in Flows \ {c} : arg'[g] = arg[g]
    PROVE  Chain!Leave(c, v, IF at = "yield" THEN "suspended" ELSE "ended")
<1> USE DEF IInv, TypeOK, Flows
<1>1. /\ c \in live /\ switcher[c] \in Switchers
      /\ running = c /\ pc[c] = "user"
  BY NamesDistinct DEF PcInv, SwapOut, Executes
<1>2. PICK f \in Flows : Waits(f) /\ arg[f] = c
  BY <1>1 DEF ChainInv, Resuming, Through
<1>3. /\ caller[switcher[c]] = f /\ f # c /\ pc[f] = "resume"
      /\ f # Stale
  BY <1>1, <1>2, WayBack, NamesDistinct DEF Waits
<1>4. /\ running' = f
      /\ pc' = [pc EXCEPT ![c] = at]
      /\ yieldValue' = [yieldValue EXCEPT ![c] = v]
      /\ UNCHANGED <<live, got>>
  BY <1>3 DEF SwapOut, JumpTo
<1>5. \A g \in Flows \ {f} : /\ Waits(g)' <=> Waits(g)
                             /\ Waits(g) => arg'[g] = arg[g] /\ arg[g] # c
  BY <1>1, <1>2, <1>3, <1>4 DEF Waits, ChainInv, Resuming, Through
<1>6. ~Waits(f)' /\ Waits(f)
  BY <1>2, <1>4 DEF Waits
<1>7. \A d \in Coros \ {c} : StatusOf(d)' = StatusOf(d)
  BY <1>2, <1>4, <1>5, <1>6 DEF StatusOf, Entered
<1>8. StatusOf(c)' = IF at = "yield" THEN "suspended" ELSE "ended"
  BY <1>1, <1>4, <1>5, <1>6 DEF StatusOf, Entered
<1>9. statusBar' = [statusBar EXCEPT
                      ![c] = IF at = "yield" THEN "suspended" ELSE "ended"]
  BY <1>7, <1>8 DEF statusBar
<1>10. waitingBar[f] = c /\ waitingBar' = [waitingBar EXCEPT ![f] = NULL]
  BY <1>2, <1>5, <1>6 DEF waitingBar, WaitsFor
<1>11. /\ \A g \in Flows \ {f} : GotBy(g)' = GotBy(g)
       /\ GotBy(f)' = v
  BY <1>1, <1>2, <1>3, <1>4 DEF GotBy
<1>12. gotBar' = [gotBar EXCEPT ![f] = v]
  BY <1>11 DEF gotBar
<1>13. /\ running = c /\ waitingBar[f] = c /\ running' = f
       /\ waitingBar' = [waitingBar EXCEPT ![f] = NULL]
       /\ statusBar' = [statusBar EXCEPT
                          ![c] = IF at = "yield" THEN "suspended" ELSE "ended"]
       /\ yieldValue' = [yieldValue EXCEPT ![c] = v]
       /\ gotBar' = [gotBar EXCEPT ![f] = v]
  BY <1>1, <1>4, <1>9, <1>10, <1>12
<1> QED BY <1>13 DEF Chain!Leave, Chain!Flows, statusBar, waitingBar, gotBar

LEMMA YieldReturnRefines ==
    ASSUME IInv, NEW c \in Coros, YieldReturn(c)
    PROVE  UNCHANGED barVars
<1> USE DEF IInv, TypeOK, Flows
<1>1. \A g \in Flows : /\ Waits(g)' <=> Waits(g)
                       /\ Waits(g) => arg'[g] = arg[g]
  BY DEF YieldReturn, Waits
<1>2. \A d \in Coros : StatusOf(d)' = StatusOf(d)
  <2>1. Entered(c)
    BY DEF YieldReturn, ChainInv, Resuming, Through, Entered
  <2>2. \A d \in Coros : Entered(d)' <=> Entered(d)
    BY <1>1 DEF Entered
  <2> QED BY <2>1, <2>2 DEF YieldReturn, StatusOf
<1>3. \A g \in Flows : WaitsFor(g)' = WaitsFor(g)
  BY <1>1 DEF WaitsFor
<1>4. \A g \in Flows : GotBy(g)' = GotBy(g)
  BY DEF YieldReturn, GotBy
<1> QED BY <1>2, <1>3, <1>4 DEF barVars, statusBar, waitingBar, gotBar, YieldReturn

LEMMA EntryStartRefines ==
    ASSUME IInv, NEW c \in Coros, EntryStart(c)
    PROVE  UNCHANGED barVars
<1> USE DEF IInv, TypeOK, Flows
<1>1. \A g \in Flows : Waits(g)' <=> Waits(g)
  BY DEF EntryStart, Waits
<1>2. \A d \in Coros : StatusOf(d)' = StatusOf(d)
  <2>1. Entered(c)
    BY DEF EntryStart, ChainInv, Resuming, Through, Entered
  <2>2. \A d \in Coros : Entered(d)' <=> Entered(d)
    BY <1>1 DEF EntryStart, Entered
  <2> QED BY <2>1, <2>2 DEF EntryStart, StatusOf
<1>3. \A g \in Flows : WaitsFor(g)' = WaitsFor(g) /\ GotBy(g)' = GotBy(g)
  BY <1>1 DEF EntryStart, WaitsFor, GotBy
<1> QED BY <1>2, <1>3 DEF barVars, statusBar, waitingBar, gotBar, EntryStart

LEMMA StepRefines ==
    ASSUME IInv, [Next]_vars
    PROVE  [Chain!Next]_barVars
<1>1. ASSUME NEW f \in Flows, ResumeReturn(f)
      PROVE  UNCHANGED barVars
  BY <1>1, ResumeReturnRefines
<1>2. ASSUME NEW f \in Flows, NEW c \in Coros, Manage(f, c)
      PROVE  Chain!Create(c) \/ Chain!Restart(c) \/ Chain!Destroy(c)
             \/ UNCHANGED barVars
  BY <1>2, NewRefines, ResetRefines, FreeRefines, UpdateRefines DEF Manage
<1>3. ASSUME NEW f \in Flows, NEW c \in Coros, Transfer(f, c)
      PROVE  Chain!Resume(f, c) \/ Chain!ResumeValue(f, c)
  <2>1. CASE MayResume(c) /\ CoroResume(f, c)
    <3>1. yieldValue' = [yieldValue EXCEPT ![c] = yieldValue[c]]
      BY <2>1 DEF CoroResume, IInv, TypeOK
    <3>2. Chain!Enter(f, c, yieldValue[c])
      BY <2>1, <3>1, SwapInRefines DEF CoroResume
    <3> QED BY <3>2 DEF Chain!Resume
  <2>2. ASSUME NEW v \in Values, MayResume(c), CoroResumeValue(f, c, v)
        PROVE  Chain!ResumeValue(f, c)
    <3>1. Chain!Enter(f, c, v)
      BY <2>2, SwapInRefines DEF CoroResumeValue
    <3> QED BY <3>1 DEF Chain!ResumeValue
  <2> QED BY <1>3, <2>1, <2>2 DEF Transfer
<1>4. ASSUME NEW c \in Coros, Coroutine(c)
      PROVE  Chain!Yield(c) \/ Chain!Finish(c) \/ UNCHANGED barVars
  <2>1. CASE EntryStart(c)
    BY <2>1, EntryStartRefines
  <2>2. CASE YieldReturn(c)
    BY <2>2, YieldReturnRefines
  <2>3. ASSUME NEW v \in Values, CoroYield(c, c, v)
        PROVE  Chain!Yield(c)
    <3>1. \A g \in Flows \ {c} : arg'[g] = arg[g]
      BY <2>3 DEF CoroYield, IInv, TypeOK
    <3>2. Chain!Leave(c, v, "suspended")
      BY <2>3, <3>1, SwapOutRefines DEF CoroYield
    <3> QED BY <3>2 DEF Chain!Yield
  <2>4. ASSUME NEW v \in Values, EntryEnd(c, v)
        PROVE  Chain!Finish(c)
    <3>1. Chain!Leave(c, v, "ended")
      BY <2>4, SwapOutRefines DEF EntryEnd
    <3> QED BY <3>1 DEF Chain!Finish
  <2> QED BY <1>4, <2>1, <2>2, <2>3, <2>4 DEF Coroutine
<1>5. ASSUME UNCHANGED vars
      PROVE  UNCHANGED barVars
  <2>1. \A d \in Coros : StatusOf(d)' = StatusOf(d)
    BY <1>5 DEF vars, StatusOf, Entered, Waits
  <2>2. \A g \in Flows : WaitsFor(g)' = WaitsFor(g) /\ GotBy(g)' = GotBy(g)
    BY <1>5 DEF vars, WaitsFor, GotBy, Waits
  <2> QED BY <1>5, <2>1, <2>2 DEF vars, barVars, statusBar, waitingBar, gotBar
<1> QED
  BY <1>1, <1>2, <1>3, <1>4, <1>5 DEF Next, Chain!Next, Chain!Flows, Flows

\* However resumes nest, a coroutine has one flow to give control back to:
\* the flows inside coro_resume() form a line from Main to the one that runs,
\* with no circle and no branch.
OneWayBack ==
    /\ \A f, g \in Flows : Waits(f) /\ Waits(g) /\ arg[f] = arg[g] => f = g
    /\ \A f \in Flows : Waits(f) => arg[f] # f /\ arg[f] # Main
    /\ \E depth \in [Flows -> Nat] : \A f \in Flows :
          Waits(f) => depth[arg[f]] = depth[f] + 1

\* At any depth of nesting, over shared switchers too.
THEOREM WaitersFormALine == Spec => []OneWayBack
<1>1. IInv => OneWayBack
  <2> SUFFICES ASSUME IInv PROVE OneWayBack
    OBVIOUS
  <2>1. PICK depth \in [Flows -> Nat] : Depths(depth)
    BY DEF IInv, NestInv
  <2>2. \A f \in Flows : Waits(f) =>
           /\ Resuming(f) /\ arg[f] \in Coros
           /\ depth[arg[f]] = depth[f] + 1
    BY <2>1 DEF IInv, TypeOK, ChainInv, Depths, Waits, Resuming
  <2>3. \A f \in Flows : depth[f] \in Nat
    BY <2>1
  <2>4. \A f, g \in Flows : Waits(f) /\ Waits(g) /\ arg[f] = arg[g] => f = g
    BY <2>2 DEF IInv, ChainInv
  <2>5. \A f \in Flows : Waits(f) => arg[f] # f
    BY <2>2, <2>3
  <2>6. \A f \in Flows : Waits(f) => arg[f] # Main
    BY <2>2, NamesDistinct
  <2> QED BY <2>1, <2>2, <2>4, <2>5, <2>6 DEF OneWayBack
<1> QED BY <1>1, Invariance, PTL

\* lwan-coro.c implements ResumeChain: whatever contexts and switchers do
\* underneath, its callers see coroutines that return control and their own
\* value to the flow that resumed them.
THEOREM ImplementsResumeChain == Spec => RefinesResumeChain
<1>1. [Chain!Next]_barVars => [Chain!Next]_Chain!avars
  BY DEF barVars, statusBar, waitingBar, gotBar, Chain!avars
<1> QED
  BY <1>1, InitRefines, StepRefines, Invariance, PTL
     DEF Spec, RefinesResumeChain, Chain!Spec

=============================================================================
