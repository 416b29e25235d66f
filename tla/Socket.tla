------------------------------- MODULE Socket -------------------------------
(***************************************************************************)
(* utilities/socket.c: create_socket() makes a listening socket in six     *)
(* system calls, each of which may fail.  The helpers close the descriptor *)
(* themselves before they report a failure, so create_socket() must not.   *)
(* Descriptors belong to the process: threads that call create_socket() at *)
(* the same time are given the ones that others have just closed.          *)
(***************************************************************************)
EXTENDS Integers, FiniteSets, FiniteSetsExt

CONSTANTS Threads,      \* the callers
          MaxFd,        \* bound: descriptors 0 .. MaxFd
          NULL

Fds == 0 .. MaxFd

Options == {"reuse", "dual", "nonblock", "bound", "listening"}

ASSUME SocketAssumption ==
    /\ MaxFd \in Nat
    /\ NULL \notin Fds
    /\ \A set \in SUBSET Options : NULL # set

Errors == {"create", "reuse", "dual", "nonblock", "bind", "listen"}

VARIABLES
    table,      \* table[fd]: what has been done to the socket, NULL if closed
    pc,         \* pc[t]: the next system call of t, "failed" when one did and
                \* the way out is left, "idle" outside the function
    sockfd,     \* its local of that name
    err,        \* *err
    told,       \* what its last call returned
    held        \* the sockets that t has got and not closed

vars == <<table, pc, sockfd, err, told, held>>

Init ==
    /\ table = [fd \in Fds |-> NULL]
    /\ pc = [t \in Threads |-> "idle"]
    /\ sockfd = [t \in Threads |-> NULL]
    /\ err = [t \in Threads |-> NULL]
    /\ told = [t \in Threads |-> NULL]
    /\ held = [t \in Threads |-> {}]

Free == {fd \in Fds : table[fd] = NULL}

-----------------------------------------------------------------------------
(* create_socket() and its helpers                                         *)

\* The kernel gives the lowest descriptor that is free.
CreateSocket(t) ==
    /\ pc[t] = "idle" /\ Free # {}
    /\ table' = [table EXCEPT ![Min(Free)] = {}]
    /\ sockfd' = [sockfd EXCEPT ![t] = Min(Free)]
    /\ pc' = [pc EXCEPT ![t] = "reuse"]
    /\ UNCHANGED <<err, told, held>>

ReturnError(t, message) ==
    /\ err' = [err EXCEPT ![t] = message]
    /\ told' = [told EXCEPT ![t] = -1]
    /\ pc' = [pc EXCEPT ![t] = "idle"]
    /\ UNCHANGED <<sockfd, held>>

\* Wrong: the result of socket() is not looked at.
CreateFailsUnchecked(t) ==
    /\ pc[t] = "idle"
    /\ sockfd' = [sockfd EXCEPT ![t] = -1]
    /\ pc' = [pc EXCEPT ![t] = "reuse"]
    /\ UNCHANGED <<table, err, told, held>>

CreateFails(t) ==
    /\ pc[t] = "idle"
    /\ ReturnError(t, "create")
    /\ UNCHANGED table

\* A system call that works, as none does on a closed descriptor.
Done(t, at, option, next) ==
    /\ pc[t] = at /\ table[sockfd[t]] # NULL
    /\ table' = [table EXCEPT ![sockfd[t]] = @ \cup {option}]
    /\ pc' = [pc EXCEPT ![t] = next]
    /\ UNCHANGED <<sockfd, err, told, held>>

\* What is left is to return the error.
Fails(t, at) ==
    /\ pc[t] = at
    /\ err' = [err EXCEPT ![t] = at]
    /\ pc' = [pc EXCEPT ![t] = "failed"]
    /\ UNCHANGED <<sockfd, told, held>>

\* Wrong: no close() on the way out.
FailedLeaks(t, at) == Fails(t, at) /\ UNCHANGED table

\* One that does not: whoever made the call closes the socket.
Failed(t, at) ==
    /\ Fails(t, at)
    /\ table' = [table EXCEPT ![sockfd[t]] = NULL]

ReturnFailure(t) ==
    /\ pc[t] = "failed"
    /\ told' = [told EXCEPT ![t] = -1]
    /\ pc' = [pc EXCEPT ![t] = "idle"]
    /\ UNCHANGED <<sockfd, err, held>>

\* Wrong: create_socket() closes what its helper has closed.
GiveUpClosesAgain(t) ==
    /\ ReturnFailure(t)
    /\ table' = [table EXCEPT ![sockfd[t]] = NULL]

\* By now the number may be another thread's: nothing more is closed.
GiveUp(t) == ReturnFailure(t) /\ UNCHANGED table

\* setsockopt() twice: SO_REUSEPORT, or SO_REUSEADDR where there is none, and
\* IPV6_V6ONLY off.
SetSocketOptions(t) ==
    \/ Done(t, "reuse", "reuse", "dual") \/ Failed(t, "reuse")
    \/ Done(t, "dual", "dual", "nonblock") \/ Failed(t, "dual")

\* A new socket has no file status flags, which is also what is assumed when
\* F_GETFL fails; F_SETFL decides.
SetNonBlocking(t) ==
    Done(t, "nonblock", "nonblock", "bind") \/ Failed(t, "nonblock")

Bind(t) == Done(t, "bind", "bound", "listen") \/ Failed(t, "bind")

ReturnSocket(t) ==
    /\ told' = [told EXCEPT ![t] = sockfd[t]]
    /\ held' = [held EXCEPT ![t] = @ \cup {sockfd[t]}]
    /\ pc' = [pc EXCEPT ![t] = "idle"]
    /\ UNCHANGED <<sockfd, err>>

\* Wrong: the socket is returned although listen() failed.
ListenUnchecked(t) ==
    /\ pc[t] = "listen"
    /\ \/ table' = [table EXCEPT ![sockfd[t]] = @ \cup {"listening"}]
       \/ UNCHANGED table
    /\ ReturnSocket(t)

Listen(t) ==
    \/ /\ pc[t] = "listen" /\ table[sockfd[t]] # NULL
       /\ table' = [table EXCEPT ![sockfd[t]] = @ \cup {"listening"}]
       /\ ReturnSocket(t)
    \/ Failed(t, "listen")

\* A caller closes a socket it has got.
CloseHeld(t, fd) ==
    /\ pc[t] = "idle" /\ fd \in held[t]
    /\ table' = [table EXCEPT ![fd] = NULL]
    /\ held' = [held EXCEPT ![t] = @ \ {fd}]
    /\ UNCHANGED <<pc, sockfd, err, told>>

-----------------------------------------------------------------------------

Step(t) ==
    \/ CreateSocket(t) \/ CreateFails(t)
    \/ SetSocketOptions(t) \/ SetNonBlocking(t) \/ Bind(t) \/ Listen(t)
    \/ GiveUp(t)
    \/ \E fd \in Fds : CloseHeld(t, fd)

Next == \E t \in Threads : Step(t)

Spec == Init /\ [][Next]_vars

-----------------------------------------------------------------------------
(* Properties                                                              *)

TypeOK ==
    /\ table \in [Fds -> {NULL} \cup SUBSET Options]
    /\ pc \in [Threads -> {"idle", "reuse", "dual", "nonblock", "bind", "listen", "failed"}]
    /\ sockfd \in [Threads -> Fds \cup {NULL}]
    /\ err \in [Threads -> Errors \cup {NULL}]
    /\ told \in [Threads -> Fds \cup {-1, NULL}]
    /\ held \in [Threads -> SUBSET Fds]

\* The descriptors a thread answers for: those it has got, and the one its
\* unfinished call has opened and not closed.
OwnedBy(t) == held[t] \cup (IF pc[t] \in {"idle", "failed"} THEN {} ELSE {sockfd[t]})

\* Whatever fails, in whatever order the threads run, no descriptor is left
\* open that nobody answers for, and nobody's descriptor is closed.
NoDescriptorLost == {fd \in Fds : table[fd] # NULL} = UNION {OwnedBy(t) : t \in Threads}

\* A socket that was handed out has been through every step: it listens,
\* does not block and takes IPv4, and stays so until its owner closes it.
HeldAreReady == \A t \in Threads : \A fd \in held[t] : table[fd] = Options

\* Callers see one indivisible call, and no descriptor has two owners.
Calls == INSTANCE Listeners

RefinesListeners == Calls!Spec

=============================================================================
