------------------------------ MODULE Futures ------------------------------
(***************************************************************************)
(* What the Python binding is for: a Coroutine holds one call of a         *)
(* callback and, once that call has returned, its answer.  Until then what *)
(* is found in its place was left there and means nothing.  Nothing one    *)
(* Coroutine does shows in another.                                        *)
(***************************************************************************)
CONSTANTS Selves,
          Objects,
          Leftovers,    \* what may be found in place of an answer
          NULL

VARIABLES               \* by Coroutine
    call,               \* NULL if there is none
    answer,
    settled             \* the call has returned

fvars == <<call, answer, settled>>

Init ==
    /\ call = [s \in Selves |-> NULL]
    /\ answer = [s \in Selves |-> NULL]
    /\ settled = [s \in Selves |-> FALSE]

\* A Coroutine is made, or set up anew.
Start(s) ==
    /\ \E o \in Objects : call' = [call EXCEPT ![s] = o]
    /\ \E left \in Leftovers : answer' = [answer EXCEPT ![s] = left]
    /\ settled' = [settled EXCEPT ![s] = FALSE]

\* The call returns, once.
Answer(s) ==
    /\ call[s] # NULL /\ ~settled[s]
    /\ \E r \in Objects : answer' = [answer EXCEPT ![s] = r]
    /\ settled' = [settled EXCEPT ![s] = TRUE]
    /\ UNCHANGED call

Drop(s) ==
    /\ call[s] # NULL
    /\ call' = [call EXCEPT ![s] = NULL]
    /\ answer' = [answer EXCEPT ![s] = NULL]
    /\ settled' = [settled EXCEPT ![s] = FALSE]

Next == \E s \in Selves : Start(s) \/ Answer(s) \/ Drop(s)

Spec == Init /\ [][Next]_fvars

=============================================================================
