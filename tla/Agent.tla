-------------------------------- MODULE Agent --------------------------------
(***************************************************************************)
(* server/agent.c: a parent forks MAX_PROC children that share memory.     *)
(* Every child takes the mutexes of all workers in order, prints, releases *)
(* them in the opposite order and meets the others at a barrier.  The      *)
(* parent waits for one child to end and then destroys the mutexes and the *)
(* barrier.  fork() may fail: its result is only looked at after the loop, *)
(* where it is the result of the last fork().                              *)
(***************************************************************************)
EXTENDS Integers

CONSTANTS MAX_PROC,
          Nobody        \* the owner of a free mutex

ASSUME ProcAssumption == MAX_PROC \in Nat \ {0}

\* Indices of workers[]; also the children, by the turn of their fork().
Workers == 0 .. MAX_PROC - 1

ASSUME NobodyAssumption == Nobody \notin Workers

VARIABLES
    parent,     \* where main() of the parent is
    i,          \* its loop index
    res,        \* the result of its last fork(): -1, or 1 for a pid
    at,         \* at[c]: where child c is
    k,          \* k[c]: its loop index in test_worker()
    owner,      \* owner[w]: the child that holds workers[w]->mutex
    arrived,    \* the number of children that reached the barrier
    destroyed   \* the workers whose mutex is destroyed

vars == <<parent, i, res, at, k, owner, arrived, destroyed>>

\* Memory, barrier and mutexes are set up before the first fork().
Init ==
    /\ parent = "fork"
    /\ i = 0
    /\ res = 0
    /\ at = [c \in Workers |-> "none"]
    /\ k = [c \in Workers |-> 0]
    /\ owner = [w \in Workers |-> Nobody]
    /\ arrived = 0
    /\ destroyed = {}

-----------------------------------------------------------------------------
(* The parent                                                              *)

Fork ==
    /\ parent = "fork" /\ i < MAX_PROC
    /\ at' = [at EXCEPT ![i] = "lock"]
    /\ res' = 1
    /\ i' = i + 1
    /\ UNCHANGED <<parent, k, owner, arrived, destroyed>>

\* The loop goes on without the child.
ForkFails ==
    /\ parent = "fork" /\ i < MAX_PROC
    /\ res' = -1
    /\ i' = i + 1
    /\ UNCHANGED <<parent, at, k, owner, arrived, destroyed>>

ForkLoopEnd ==
    /\ parent = "fork" /\ i = MAX_PROC
    /\ parent' = IF res > 0 THEN "wait" ELSE "exited"
    /\ UNCHANGED <<i, res, at, k, owner, arrived, destroyed>>

\* Wrong: the parent does not wait.
WaitForNobody ==
    /\ parent = "wait"
    /\ parent' = "destroy"
    /\ i' = 0
    /\ UNCHANGED <<res, at, k, owner, arrived, destroyed>>

\* wait(NULL) returns as soon as any one child has ended.
Wait ==
    /\ parent = "wait"
    /\ \E c \in Workers : at[c] = "exited"
    /\ parent' = "destroy"
    /\ i' = 0
    /\ UNCHANGED <<res, at, k, owner, arrived, destroyed>>

DestroyMutex ==
    /\ parent = "destroy" /\ i < MAX_PROC
    /\ destroyed' = destroyed \cup {i}
    /\ i' = i + 1
    /\ UNCHANGED <<parent, res, at, k, owner, arrived>>

DestroyBarrier ==
    /\ parent = "destroy" /\ i = MAX_PROC
    /\ parent' = "exited"
    /\ UNCHANGED <<i, res, at, k, owner, arrived, destroyed>>

-----------------------------------------------------------------------------
(* A child                                                                 *)

\* Wrong: a child begins with the mutex of its own worker.
LockOwnFirst(c) ==
    LET w == (k[c] + c) % MAX_PROC
    IN  /\ at[c] = "lock"
        /\ owner[w] = Nobody
        /\ owner' = [owner EXCEPT ![w] = c]
        /\ IF k[c] = MAX_PROC - 1
           THEN at' = [at EXCEPT ![c] = "print"] /\ UNCHANGED k
           ELSE k' = [k EXCEPT ![c] = @ + 1] /\ UNCHANGED at
        /\ UNCHANGED <<parent, i, res, arrived, destroyed>>

Lock(c) ==
    /\ at[c] = "lock"
    /\ owner[k[c]] = Nobody
    /\ owner' = [owner EXCEPT ![k[c]] = c]
    /\ IF k[c] = MAX_PROC - 1
       THEN at' = [at EXCEPT ![c] = "print"] /\ UNCHANGED k
       ELSE k' = [k EXCEPT ![c] = @ + 1] /\ UNCHANGED at
    /\ UNCHANGED <<parent, i, res, arrived, destroyed>>

\* All workers are printed; k[c] is where the unlocking begins.
PrintWorkers(c) ==
    /\ at[c] = "print"
    /\ at' = [at EXCEPT ![c] = "unlock"]
    /\ k' = [k EXCEPT ![c] = MAX_PROC - 1]
    /\ UNCHANGED <<parent, i, res, owner, arrived, destroyed>>

\* Wrong: the mutexes are released in the order they were taken in.
UnlockAscending(c) ==
    /\ at[c] = "unlock"
    /\ owner' = [owner EXCEPT ![MAX_PROC - 1 - k[c]] = Nobody]
    /\ IF k[c] = 0
       THEN at' = [at EXCEPT ![c] = "arrive"] /\ UNCHANGED k
       ELSE k' = [k EXCEPT ![c] = @ - 1] /\ UNCHANGED at
    /\ UNCHANGED <<parent, i, res, arrived, destroyed>>

\* Wrong: the loop index is decremented once more.
UnlockBelowZero(c) ==
    /\ at[c] = "unlock"
    /\ owner' = [owner EXCEPT ![k[c]] = Nobody]
    /\ k' = [k EXCEPT ![c] = @ - 1]
    /\ at' = IF k[c] = 0 THEN [at EXCEPT ![c] = "arrive"] ELSE at
    /\ UNCHANGED <<parent, i, res, arrived, destroyed>>

Unlock(c) ==
    /\ at[c] = "unlock"
    /\ owner' = [owner EXCEPT ![k[c]] = Nobody]
    /\ IF k[c] = 0
       THEN at' = [at EXCEPT ![c] = "arrive"] /\ UNCHANGED k
       ELSE k' = [k EXCEPT ![c] = @ - 1] /\ UNCHANGED at
    /\ UNCHANGED <<parent, i, res, arrived, destroyed>>

\* pthread_barrier_wait(): the child is blocked ...
BarrierArrive(c) ==
    /\ at[c] = "arrive"
    /\ at' = [at EXCEPT ![c] = "barrier"]
    /\ arrived' = arrived + 1
    /\ UNCHANGED <<parent, i, res, k, owner, destroyed>>

\* Wrong: the barrier is set up for one process less.
BarrierFullTooSoon == arrived >= MAX_PROC - 1

\* Wrong: the barrier is set up for the parent, too.
BarrierFullWithParent == arrived = MAX_PROC + 1

\* ... until MAX_PROC processes are, the count given to pthread_barrier_init().
BarrierFull == arrived = MAX_PROC

\* ... and then ends: break leaves the loop of main() with res = 0.
BarrierLeave(c) ==
    /\ at[c] = "barrier"
    /\ BarrierFull
    /\ at' = [at EXCEPT ![c] = "exited"]
    /\ UNCHANGED <<parent, i, res, k, owner, arrived, destroyed>>

-----------------------------------------------------------------------------

Parent ==
    \/ Fork \/ ForkFails \/ ForkLoopEnd
    \/ Wait \/ DestroyMutex \/ DestroyBarrier

Child(c) ==
    \/ Lock(c) \/ PrintWorkers(c) \/ Unlock(c)
    \/ BarrierArrive(c) \/ BarrierLeave(c)

Next == Parent \/ \E c \in Workers : Child(c)

Spec == Init /\ [][Next]_vars

\* Every process is scheduled.  A child asks for each mutex only once, so
\* the mutexes need not be fair.
FairSpec ==
    /\ Spec
    /\ WF_vars(Parent)
    /\ \A c \in Workers : WF_vars(Child(c))

-----------------------------------------------------------------------------
(* Properties                                                              *)

TypeOK ==
    /\ parent \in {"fork", "wait", "destroy", "exited"}
    /\ i \in 0 .. MAX_PROC
    /\ res \in {-1, 0, 1}
    /\ at \in [Workers -> {"none", "lock", "print", "unlock", "arrive",
                           "barrier", "exited"}]
    /\ k \in [Workers -> Workers]
    /\ owner \in [Workers -> Workers \cup {Nobody}]
    /\ arrived \in 0 .. MAX_PROC
    /\ destroyed \subseteq Workers

Holds(c) == {w \in Workers : owner[w] = c}

\* From its first pthread_mutex_lock() to its last pthread_mutex_unlock() a
\* child is alone: no two children hold mutexes at the same time, because
\* whoever holds any holds the first, so the lines of two children never mix.
OneHolder ==
    \A c, d \in Workers : Holds(c) # {} /\ Holds(d) # {} => c = d

\* When the parent destroys the mutexes and the barrier, every child is
\* there and none still needs a mutex or waits for the barrier to fill,
\* although wait() only told that one child ended and fork() may have failed.
DestroyedUnused ==
    parent = "destroy" \/ destroyed # {} =>
        /\ BarrierFull
        /\ \A c \in Workers : at[c] \in {"barrier", "exited"} /\ Holds(c) = {}

\* The processes as they see each other: a child is inside from its first
\* pthread_mutex_lock() to its last pthread_mutex_unlock(), alone, and the
\* barrier and wait() keep the parent from destroying what is still in use.
StageOf(c) ==
    CASE at[c] = "none" -> "absent"
      [] at[c] = "lock" /\ k[c] = 0 -> "waiting"
      [] at[c] \in {"arrive", "barrier"} -> "done"
      [] at[c] = "exited" -> "left"
      [] OTHER -> "inside"

Group == INSTANCE Meeting WITH
    Members <- Workers,
    stage <- [c \in Workers |-> StageOf(c)],
    torn <- destroyed # {}

RefinesMeeting == Group!Spec

\* Children never wait for each other's mutexes in a circle: each one that
\* is forked prints and gets to the barrier, even if some fork() failed.
EveryChildPrints ==
    \A c \in Workers : at[c] = "lock" ~> at[c] = "barrier"

\* If no fork() fails, everyone ends and everything is destroyed.
AllForked == \A c \in Workers : at[c] # "none"

Finishes ==
    AllForked ~> /\ parent = "exited"
                 /\ destroyed = Workers
                 /\ \A c \in Workers : at[c] = "exited"

=============================================================================
