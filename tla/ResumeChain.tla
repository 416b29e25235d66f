----------------------------- MODULE ResumeChain -----------------------------
(***************************************************************************)
(* What lwan-coro promises its callers, with no context, no switcher and   *)
(* no stack in sight: asymmetric coroutines.  A flow that resumes a        *)
(* coroutine waits for it; the coroutine runs until it yields or its       *)
(* function returns; control and one value then go back to the flow that   *)
(* waits for it, and to nobody else.                                       *)
(***************************************************************************)

CONSTANTS Coros,    \* the coroutine objects
          Main,     \* the flow of the thread that owns them
          Values,   \* the ints passed through coro_yield and coro_resume
          NULL

Flows == Coros \cup {Main}

Status == {"none", "fresh", "suspended", "active", "ended"}

VARIABLES
    top,        \* the flow that runs
    waiting,    \* waiting[f]: the coroutine f has resumed and waits for
    status,     \* status[c]: where coroutine c is in its life
    mail,       \* mail[c]: the value cell of c
    got         \* got[f]: what the last coro_resume or coro_yield gave f

avars == <<top, waiting, status, mail, got>>

Init ==
    /\ top = Main
    /\ waiting = [f \in Flows |-> NULL]
    /\ status = [c \in Coros |-> "none"]
    /\ mail = [c \in Coros |-> NULL]
    /\ got = [f \in Flows |-> NULL]

-----------------------------------------------------------------------------

Create(c) ==
    /\ status[c] = "none"
    /\ status' = [status EXCEPT ![c] = "fresh"]
    /\ mail' = [mail EXCEPT ![c] = NULL]
    /\ UNCHANGED <<top, waiting, got>>

\* A reset coroutine forgets where it was and starts a new function.
Restart(c) ==
    /\ status[c] \in {"fresh", "suspended", "ended"}
    /\ status' = [status EXCEPT ![c] = "fresh"]
    /\ UNCHANGED <<top, waiting, mail, got>>

Destroy(c) ==
    /\ status[c] \in {"fresh", "suspended", "ended"}
    /\ status' = [status EXCEPT ![c] = "none"]
    /\ UNCHANGED <<top, waiting, mail, got>>

\* Control goes from f to c with v in c's value cell.  A suspended
\* coroutine gets v as the result of its coro_yield; one that has not
\* started yet has no coro_yield to return from.
Enter(f, c, v) ==
    /\ top = f
    /\ status[c] \in {"fresh", "suspended"}
    /\ top' = c
    /\ waiting' = [waiting EXCEPT ![f] = c]
    /\ status' = [status EXCEPT ![c] = "active"]
    /\ mail' = [mail EXCEPT ![c] = v]
    /\ got' = IF status[c] = "fresh" THEN got ELSE [got EXCEPT ![c] = v]

\* Without a value of its own, the resumer leaves the cell as it is: c gets
\* back what it yielded.
Resume(f, c) == Enter(f, c, mail[c])

ResumeValue(f, c) == \E v \in Values : Enter(f, c, v)

\* Control and a value go from c back to the flow that waits for it.
Leave(c, v, left) ==
    \E f \in Flows :
        /\ top = c
        /\ waiting[f] = c
        /\ top' = f
        /\ waiting' = [waiting EXCEPT ![f] = NULL]
        /\ status' = [status EXCEPT ![c] = left]
        /\ mail' = [mail EXCEPT ![c] = v]
        /\ got' = [got EXCEPT ![f] = v]

Yield(c) == \E v \in Values : Leave(c, v, "suspended")

Finish(c) == \E v \in Values : Leave(c, v, "ended")

Next ==
    \E c \in Coros :
        \/ Create(c) \/ Restart(c) \/ Destroy(c)
        \/ Yield(c) \/ Finish(c)
        \/ \E f \in Flows : Resume(f, c) \/ ResumeValue(f, c)

Spec == Init /\ [][Next]_avars

=============================================================================
