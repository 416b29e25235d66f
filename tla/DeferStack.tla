----------------------------- MODULE DeferStack -----------------------------
(***************************************************************************)
(* What deferring promises: deferred calls form a stack.  A run down to a  *)
(* generation executes the calls above it one at a time, last deferred     *)
(* first, each exactly once, and touches none below; a call deferred       *)
(* meanwhile is never made.                                                *)
(***************************************************************************)
EXTENDS Integers, Sequences

CONSTANTS Items,    \* the calls that can be deferred
          NULL

VARIABLES
    pending,    \* the calls still to be made
    target,     \* the generation a run goes down to, or NULL
    last        \* the call made last

svars == <<pending, target, last>>

Init ==
    /\ pending = << >>
    /\ target = NULL
    /\ last = NULL

Push(x) ==
    /\ target = NULL
    /\ pending' = Append(pending, x)
    /\ UNCHANGED <<target, last>>

Begin(g) ==
    /\ target = NULL
    /\ target' = g
    /\ UNCHANGED <<pending, last>>

Call ==
    /\ target # NULL
    /\ Len(pending) > target
    /\ last' = pending[Len(pending)]
    /\ pending' = SubSeq(pending, 1, Len(pending) - 1)
    /\ UNCHANGED target

End ==
    /\ target # NULL
    /\ Len(pending) = target
    /\ target' = NULL
    /\ UNCHANGED <<pending, last>>

Next ==
    \/ \E x \in Items : Push(x)
    \/ \E g \in 0 .. Len(pending) : Begin(g)
    \/ Call
    \/ End

Spec == Init /\ [][Next]_svars

=============================================================================
