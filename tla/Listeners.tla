----------------------------- MODULE Listeners -----------------------------
(***************************************************************************)
(* What create_socket() is for: a caller gets a descriptor that nobody     *)
(* else has, or an error and nothing.                                      *)
(***************************************************************************)
EXTENDS Integers

CONSTANTS Threads, Fds, NULL

VARIABLES
    held,       \* held[t]: the listening sockets of thread t
    told        \* told[t]: what its last call returned: a descriptor or -1

Init == held = [t \in Threads |-> {}] /\ told = [t \in Threads |-> NULL]

Obtain(t, fd) ==
    /\ \A u \in Threads : fd \notin held[u]
    /\ held' = [held EXCEPT ![t] = @ \cup {fd}]
    /\ told' = [told EXCEPT ![t] = fd]

Fail(t) == told' = [told EXCEPT ![t] = -1] /\ UNCHANGED held

Drop(t, fd) ==
    /\ fd \in held[t]
    /\ held' = [held EXCEPT ![t] = @ \ {fd}]
    /\ UNCHANGED told

Next ==
    \E t \in Threads : Fail(t) \/ \E fd \in Fds : Obtain(t, fd) \/ Drop(t, fd)

Spec == Init /\ [][Next]_<<held, told>>

=============================================================================
