----------------------------- MODULE AgentProofs -----------------------------
(***************************************************************************)
(* Mutual exclusion and safe destruction in server/agent.c, for every      *)
(* MAX_PROC.                                                               *)
(***************************************************************************)
EXTENDS Agent, FiniteSetTheorems, TLAPS

\* The children that reached the barrier, and those that passed it.
Arrived == {c \in Workers : at[c] \in {"barrier", "exited"}}

\* A child holds a prefix of the mutexes, which its place determines.
HoldInv ==
    \A c, w \in Workers : owner[w] = c <=>
        \/ at[c] = "lock" /\ w < k[c]
        \/ at[c] = "print"
        \/ at[c] = "unlock" /\ w <= k[c]

NewInv == \A c \in Workers : at[c] = "none" => k[c] = 0

ForkInv == parent = "fork" => \A c \in Workers : c >= i => at[c] = "none"

BarrierInv ==
    /\ arrived = Cardinality(Arrived)
    /\ \A c \in Workers : at[c] = "exited" => BarrierFull

DestroyInv ==
    parent = "destroy" \/ destroyed # {} => \E c \in Workers : at[c] = "exited"

IInv == TypeOK /\ HoldInv /\ NewInv /\ ForkInv /\ BarrierInv /\ DestroyInv

-----------------------------------------------------------------------------

LEMMA WorkersFinite ==
    /\ IsFiniteSet(Workers)
    /\ Cardinality(Workers) = MAX_PROC
    /\ 0 \in Workers /\ MAX_PROC - 1 \in Workers
<1>1. IsFiniteSet(Workers) /\ Cardinality(Workers) = MAX_PROC
  BY FS_Interval, ProcAssumption DEF Workers
<1> QED BY <1>1, ProcAssumption DEF Workers

\* Counting the children at the barrier tells who is there.
LEMMA ArrivedFacts ==
    /\ IsFiniteSet(Arrived)
    /\ Cardinality(Arrived) \in 0 .. MAX_PROC
    /\ Cardinality(Arrived) = MAX_PROC => Arrived = Workers
<1>1. Arrived \subseteq Workers
  BY DEF Arrived
<1>2. /\ IsFiniteSet(Arrived)
      /\ Cardinality(Arrived) <= Cardinality(Workers)
      /\ Cardinality(Arrived) = Cardinality(Workers) => Arrived = Workers
  BY <1>1, WorkersFinite, FS_Subset
<1>3. Cardinality(Arrived) \in Nat
  BY <1>2, FS_CardinalityType
<1> QED BY <1>2, <1>3, WorkersFinite, ProcAssumption

LEMMA InitIInv == Init => IInv
<1> SUFFICES ASSUME Init PROVE IInv
  OBVIOUS
<1>1. TypeOK
  BY WorkersFinite, ProcAssumption DEF Init, TypeOK
<1>2. HoldInv
  BY NobodyAssumption DEF Init, HoldInv
<1>3. NewInv /\ ForkInv /\ DestroyInv
  BY DEF Init, NewInv, ForkInv, DestroyInv
<1>4. Arrived = {}
  BY DEF Init, Arrived
<1>5. BarrierInv
  BY <1>4, FS_EmptySet DEF Init, BarrierInv
<1> QED BY <1>1, <1>2, <1>3, <1>5 DEF IInv

\* Only BarrierArrive changes who has arrived.
LEMMA SameArrived ==
    ASSUME BarrierInv, arrived' = arrived, Arrived' = Arrived,
           \A c \in Workers : at'[c] = "exited" => at[c] = "exited" \/ BarrierFull
    PROVE  BarrierInv'
BY DEF BarrierInv, BarrierFull

LEMMA ParentIInv ==
    ASSUME IInv, Parent
    PROVE  IInv'
<1> USE DEF IInv
<1>1. CASE Fork
  <2>1. i \in Workers /\ at[i] = "none" /\ k[i] = 0
    BY <1>1, ProcAssumption DEF Fork, TypeOK, ForkInv, NewInv, Workers
  <2>2. TypeOK'
    BY <1>1, <2>1, ProcAssumption DEF Fork, TypeOK
  <2>3. HoldInv'
    BY <1>1, <2>1 DEF Fork, TypeOK, HoldInv, Workers
  <2>4. NewInv' /\ DestroyInv'
    BY <1>1, <2>1 DEF Fork, TypeOK, NewInv, DestroyInv
  <2>5. ForkInv'
    BY <1>1, <2>1 DEF Fork, TypeOK, ForkInv, Workers
  <2>6. Arrived' = Arrived
    BY <1>1, <2>1 DEF Fork, TypeOK, Arrived
  <2>7. BarrierInv'
    BY <1>1, <2>1, <2>6, SameArrived DEF Fork, TypeOK
  <2> QED BY <2>2, <2>3, <2>4, <2>5, <2>7
<1>2. CASE ForkFails \/ ForkLoopEnd
  <2>1. UNCHANGED <<at, k, owner, arrived, destroyed>>
    BY <1>2 DEF ForkFails, ForkLoopEnd
  <2>2. TypeOK'
    BY <1>2, ProcAssumption DEF ForkFails, ForkLoopEnd, TypeOK
  <2>3. HoldInv' /\ NewInv' /\ BarrierInv'
    BY <2>1 DEF HoldInv, NewInv, BarrierInv, Arrived, BarrierFull
  <2>4. ForkInv'
    BY <1>2, <2>1 DEF ForkFails, ForkLoopEnd, TypeOK, ForkInv, Workers
  <2>5. DestroyInv'
    BY <1>2, <2>1 DEF ForkFails, ForkLoopEnd, DestroyInv
  <2> QED BY <2>2, <2>3, <2>4, <2>5
<1>3. CASE Wait \/ DestroyMutex \/ DestroyBarrier
  <2>1. UNCHANGED <<at, k, owner, arrived>> /\ parent \in {"wait", "destroy"}
    BY <1>3 DEF Wait, DestroyMutex, DestroyBarrier
  <2>2. TypeOK'
    <3>1. CASE Wait
      BY <3>1, ProcAssumption DEF Wait, TypeOK
    <3>2. CASE DestroyMutex
      <4>1. i \in Workers /\ i + 1 \in 0 .. MAX_PROC
        BY <3>2, ProcAssumption DEF DestroyMutex, TypeOK, Workers
      <4> QED BY <3>2, <4>1 DEF DestroyMutex, TypeOK
    <3>3. CASE DestroyBarrier
      BY <3>3 DEF DestroyBarrier, TypeOK
    <3> QED BY <1>3, <3>1, <3>2, <3>3
  <2>3. HoldInv' /\ NewInv' /\ BarrierInv'
    BY <2>1 DEF HoldInv, NewInv, BarrierInv, Arrived, BarrierFull
  <2>4. ForkInv'
    BY <1>3, <2>1 DEF Wait, DestroyMutex, DestroyBarrier, ForkInv
  <2>5. DestroyInv'
    BY <1>3, <2>1 DEF Wait, DestroyMutex, DestroyBarrier, DestroyInv
  <2> QED BY <2>2, <2>3, <2>4, <2>5
<1> QED BY <1>1, <1>2, <1>3 DEF Parent

\* A child at a mutex, a print or an unlock stays away from the barrier.
LEMMA LockingIInv ==
    ASSUME IInv, NEW c \in Workers, Lock(c) \/ PrintWorkers(c) \/ Unlock(c)
    PROVE  IInv'
<1> USE DEF IInv
<1>1. UNCHANGED <<parent, i, res, arrived, destroyed>>
  BY DEF Lock, PrintWorkers, Unlock
<1>2. /\ at[c] \in {"lock", "print", "unlock"}
      /\ at'[c] \in {"lock", "print", "unlock", "arrive"}
      /\ \A d \in Workers \ {c} : at'[d] = at[d] /\ k'[d] = k[d]
  BY DEF Lock, PrintWorkers, Unlock, TypeOK
<1>3. TypeOK'
  <2>1. CASE Lock(c)
    <3>0. k[c] \in Workers
      BY DEF TypeOK
    <3>1. k[c] # MAX_PROC - 1 => k[c] + 1 \in Workers
      BY <3>0, ProcAssumption DEF Workers
    <3>2. owner' \in [Workers -> Workers \cup {Nobody}]
      BY <2>1 DEF Lock, TypeOK
    <3>3. at' = [at EXCEPT ![c] = "print"] \/ at' = at
      BY <2>1 DEF Lock
    <3>4. k' \in [Workers -> Workers]
      BY <2>1, <3>1 DEF Lock, TypeOK
    <3> QED BY <1>1, <3>2, <3>3, <3>4 DEF TypeOK
  <2>2. CASE PrintWorkers(c)
    BY <2>2, WorkersFinite DEF PrintWorkers, TypeOK
  <2>3. CASE Unlock(c)
    <3>1. k[c] # 0 => k[c] - 1 \in Workers
      BY ProcAssumption DEF TypeOK, Workers
    <3> QED BY <2>3, <3>1 DEF Unlock, TypeOK
  <2> QED BY <2>1, <2>2, <2>3
<1>4. HoldInv'
  <2> SUFFICES ASSUME NEW d \in Workers, NEW w \in Workers
               PROVE  (owner[w] = d <=>
                        \/ at[d] = "lock" /\ w < k[d]
                        \/ at[d] = "print"
                        \/ at[d] = "unlock" /\ w <= k[d])'
    BY DEF HoldInv
  <2>0. /\ owner[w] = d <=> \/ at[d] = "lock" /\ w < k[d]
                            \/ at[d] = "print"
                            \/ at[d] = "unlock" /\ w <= k[d]
        /\ k[c] \in Int /\ w \in Int /\ 0 <= w /\ w <= MAX_PROC - 1
        /\ MAX_PROC \in Int
    BY ProcAssumption DEF HoldInv, TypeOK, Workers
  <2>1. CASE Lock(c)
    <3>1. owner[k[c]] = Nobody /\ k[c] \in Workers
      BY <2>1 DEF Lock, TypeOK
    <3>2. CASE d # c
      BY <1>2, <2>0, <2>1, <3>1, <3>2, NobodyAssumption DEF Lock, TypeOK
    <3>3. CASE d = c
      BY <2>0, <2>1, <3>1, <3>3, NobodyAssumption DEF Lock, TypeOK
    <3> QED BY <3>2, <3>3
  <2>2. CASE PrintWorkers(c)
    BY <1>2, <2>0, <2>2 DEF PrintWorkers, TypeOK
  <2>3. CASE Unlock(c)
    <3>1. k[c] \in Workers /\ owner[k[c]] = c
      BY <2>3 DEF Unlock, TypeOK, HoldInv, Workers
    <3>2. CASE d # c
      BY <1>2, <2>0, <2>3, <3>1, <3>2, NobodyAssumption DEF Unlock, TypeOK
    <3>3. CASE d = c
      BY <2>0, <2>3, <3>1, <3>3, NobodyAssumption DEF Unlock, TypeOK
    <3> QED BY <3>2, <3>3
  <2> QED BY <2>1, <2>2, <2>3
<1>5. NewInv' /\ ForkInv' /\ DestroyInv'
  BY <1>1, <1>2 DEF NewInv, ForkInv, DestroyInv
<1>6. Arrived' = Arrived
  BY <1>2 DEF Arrived
<1>7. BarrierInv'
  BY <1>1, <1>2, <1>6, SameArrived
<1> QED BY <1>3, <1>4, <1>5, <1>7

LEMMA ArriveIInv ==
    ASSUME IInv, NEW c \in Workers, BarrierArrive(c)
    PROVE  IInv'
<1> USE DEF IInv
<1>1. /\ at[c] = "arrive" /\ at' = [at EXCEPT ![c] = "barrier"]
      /\ arrived' = arrived + 1
      /\ UNCHANGED <<parent, i, res, k, owner, destroyed>>
  BY DEF BarrierArrive
<1>2. HoldInv' /\ NewInv' /\ ForkInv' /\ DestroyInv'
  BY <1>1 DEF TypeOK, HoldInv, NewInv, ForkInv, DestroyInv
<1>3. Arrived' = Arrived \cup {c} /\ c \notin Arrived
  BY <1>1 DEF TypeOK, Arrived
<1>4. Cardinality(Arrived') = Cardinality(Arrived) + 1
  BY <1>3, ArrivedFacts, FS_AddElement
<1>5. Cardinality(Arrived)' = Cardinality(Arrived')
  OBVIOUS
<1>6. arrived' = Cardinality(Arrived)'
  BY <1>1, <1>4 DEF BarrierInv
<1>7. Arrived # Workers
  BY <1>3
<1>8. arrived < MAX_PROC /\ arrived \in Nat
  BY <1>7, ArrivedFacts, ProcAssumption DEF BarrierInv
<1>9. \A d \in Workers : at[d] # "exited"
  BY <1>8, ProcAssumption DEF BarrierInv, BarrierFull
<1>10. BarrierInv'
  BY <1>1, <1>6, <1>9 DEF BarrierInv, TypeOK
<1>11. TypeOK'
  BY <1>1, <1>8, ProcAssumption DEF TypeOK
<1> QED BY <1>2, <1>10, <1>11

LEMMA LeaveIInv ==
    ASSUME IInv, NEW c \in Workers, BarrierLeave(c)
    PROVE  IInv'
<1> USE DEF IInv
<1>1. /\ at[c] = "barrier" /\ at' = [at EXCEPT ![c] = "exited"]
      /\ BarrierFull
      /\ UNCHANGED <<parent, i, res, k, owner, arrived, destroyed>>
  BY DEF BarrierLeave
<1>2. TypeOK' /\ HoldInv' /\ NewInv' /\ ForkInv' /\ DestroyInv'
  BY <1>1 DEF TypeOK, HoldInv, NewInv, ForkInv, DestroyInv
<1>3. Arrived' = Arrived
  BY <1>1 DEF TypeOK, Arrived
<1>4. BarrierInv'
  BY <1>1, <1>3, SameArrived
<1> QED BY <1>2, <1>4

LEMMA StepIInv == IInv /\ [Next]_vars => IInv'
<1> SUFFICES ASSUME IInv, [Next]_vars PROVE IInv'
  OBVIOUS
<1>1. CASE Parent
  BY <1>1, ParentIInv
<1>2. ASSUME NEW c \in Workers, Child(c) PROVE IInv'
  BY <1>2, LockingIInv, ArriveIInv, LeaveIInv DEF Child
<1>3. CASE UNCHANGED vars
  BY <1>3 DEF vars, IInv, TypeOK, HoldInv, NewInv, ForkInv, BarrierInv, DestroyInv,
              Arrived, BarrierFull
<1> QED BY <1>1, <1>2, <1>3 DEF Next

\* The inductive invariant holds.
THEOREM Invariance == Spec => []IInv
BY InitIInv, StepIInv, PTL DEF Spec

\* The variables keep their types, with any number of processes.
THEOREM TypeCorrect == Spec => []TypeOK
BY Invariance, PTL DEF IInv

\* No two children of agent.c hold mutexes at the same time.
THEOREM ChildrenAlone == Spec => []OneHolder
<1>1. IInv => OneHolder
  <2> SUFFICES ASSUME IInv, NEW c \in Workers, NEW d \in Workers,
                      Holds(c) # {}, Holds(d) # {}
               PROVE  c = d
    BY DEF OneHolder
  <2>1. ASSUME NEW e \in Workers, Holds(e) # {} PROVE owner[0] = e
    <3>1. PICK w \in Workers : owner[w] = e
      BY <2>1 DEF Holds
    <3>2. k[e] \in Workers
      BY DEF IInv, TypeOK
    <3> QED BY <3>1, <3>2, WorkersFinite, ProcAssumption DEF IInv, HoldInv, Workers
  <2> QED BY <2>1
<1> QED BY <1>1, Invariance, PTL

\* No child gets past the barrier before all MAX_PROC have printed: with a
\* failed fork() none ever does.
BarrierHoldsAll ==
    \A c \in Workers : at[c] = "exited" =>
        \A d \in Workers : at[d] \in {"barrier", "exited"}

\* A child passes the barrier only when all have printed.
THEOREM AllMeet == Spec => []BarrierHoldsAll
<1>1. IInv => BarrierHoldsAll
  BY ArrivedFacts DEF IInv, BarrierInv, BarrierFull, BarrierHoldsAll, Arrived
<1> QED BY <1>1, Invariance, PTL

\* What the parent destroys, no child uses any more.
THEOREM NothingUsedAfterDestruction == Spec => []DestroyedUnused
<1>1. IInv => DestroyedUnused
  <2> SUFFICES ASSUME IInv, parent = "destroy" \/ destroyed # {}
               PROVE  /\ BarrierFull
                      /\ \A c \in Workers :
                            at[c] \in {"barrier", "exited"} /\ Holds(c) = {}
    BY DEF DestroyedUnused
  <2>1. BarrierFull
    BY DEF IInv, DestroyInv, BarrierInv
  <2>2. \A c \in Workers : at[c] \in {"barrier", "exited"}
    BY <2>1, ArrivedFacts DEF IInv, BarrierInv, BarrierFull, Arrived
  <2>3. \A c \in Workers : Holds(c) = {}
    BY <2>2 DEF IInv, HoldInv, Holds
  <2> QED BY <2>1, <2>2, <2>3
<1> QED BY <1>1, Invariance, PTL

-----------------------------------------------------------------------------
(* Progress, as far as it is safety                                        *)

\* The children that are on their way to the barrier.
OnTheWay == {c \in Workers : at[c] \in {"lock", "print", "unlock", "arrive"}}

\* c is not blocked, neither by a mutex nor by the barrier.
CanGo(c) ==
    \/ at[c] = "lock" /\ owner[k[c]] = Nobody
    \/ at[c] \in {"print", "unlock", "arrive"}
    \/ at[c] = "barrier" /\ BarrierFull

\* The children never wait for each other's mutexes in a circle: as long as
\* one is on its way to the barrier, one of those on their way can go on,
\* whichever forks failed.  And if none did, the barrier lets everyone go.
NoCircularWait ==
    /\ OnTheWay # {} => \E c \in OnTheWay : CanGo(c)
    /\ AllForked /\ (\E c \in Workers : at[c] # "exited") =>
          \E c \in Workers : CanGo(c)

\* Who holds any mutex holds the first.
LEMMA HoldersHoldFirst ==
    ASSUME IInv, NEW w \in Workers, NEW c \in Workers, owner[w] = c
    PROVE  owner[0] = c
<1>1. k[c] \in Workers /\ 0 \in Workers
  BY WorkersFinite DEF IInv, TypeOK
<1> QED BY <1>1, ProcAssumption DEF IInv, HoldInv, Workers

\* While nobody holds the first mutex, all are free; whoever does hold it
\* finds the next one free.
LEMMA SomebodyCanGo ==
    ASSUME IInv, OnTheWay # {}
    PROVE  \E c \in OnTheWay : CanGo(c)
<1>1. /\ 0 \in Workers
      /\ \A c \in Workers : k[c] \in Workers
      /\ \A w \in Workers : owner[w] \in Workers \cup {Nobody}
  BY WorkersFinite DEF IInv, TypeOK
<1>2. CASE owner[0] = Nobody
  <2>1. PICK c \in OnTheWay : TRUE
    OBVIOUS
  <2>2. c \in Workers /\ at[c] \in {"lock", "print", "unlock", "arrive"}
    BY DEF OnTheWay
  <2>3. owner[k[c]] = Nobody
    BY <1>1, <1>2, <2>2, HoldersHoldFirst, NobodyAssumption
  <2> QED BY <2>2, <2>3 DEF CanGo
<1>3. CASE owner[0] # Nobody
  <2>1. PICK c \in Workers : owner[0] = c
    BY <1>1, <1>3
  <2>2. at[c] \in {"lock", "print", "unlock"}
    BY <1>1, <2>1 DEF IInv, HoldInv
  <2>3. ASSUME at[c] = "lock", owner[k[c]] # Nobody PROVE FALSE
    <3>1. PICK d \in Workers : owner[k[c]] = d
      BY <1>1, <2>3
    <3>2. d = c
      BY <1>1, <2>1, <3>1, HoldersHoldFirst
    <3>3. k[c] < k[c]
      BY <1>1, <2>3, <3>1, <3>2 DEF IInv, HoldInv
    <3> QED BY <3>3, <1>1 DEF Workers
  <2>4. c \in OnTheWay
    BY <2>2 DEF OnTheWay
  <2> QED BY <2>2, <2>3, <2>4 DEF CanGo
<1> QED BY <1>2, <1>3

\* The safety half of EveryChildPrints and Finishes, for every MAX_PROC.
THEOREM NobodyIsStuck == Spec => []NoCircularWait
<1>1. IInv => NoCircularWait
  <2> SUFFICES ASSUME IInv, AllForked, NEW c \in Workers, at[c] # "exited",
                      OnTheWay = {}
               PROVE  \E d \in Workers : CanGo(d)
    BY SomebodyCanGo DEF NoCircularWait, OnTheWay
  <2>1. \A d \in Workers : at[d] \in {"barrier", "exited"}
    BY DEF AllForked, OnTheWay, IInv, TypeOK
  <2>2. Arrived = Workers
    BY <2>1 DEF Arrived
  <2>3. BarrierFull
    BY <2>2, WorkersFinite DEF BarrierFull, IInv, BarrierInv
  <2> QED BY <2>1, <2>3 DEF CanGo
<1> QED BY <1>1, Invariance, PTL

\* The steps that c has before it.
StepsLeft(c) ==
    CASE at[c] = "lock"    -> 2 * MAX_PROC + 3 - k[c]
      [] at[c] = "print"   -> MAX_PROC + 3
      [] at[c] = "unlock"  -> k[c] + 3
      [] at[c] = "arrive"  -> 2
      [] at[c] = "barrier" -> 1
      [] OTHER             -> 0

\* No child goes back, waits in a loop or is set back by another one: every
\* step of a child is one step less for it, until none is left, and no step
\* of another process makes it one more.
StepsRunOut ==
    [][ \A c \in Workers :
          /\ Child(c) => StepsLeft(c)' = StepsLeft(c) - 1 /\ StepsLeft(c)' >= 0
          /\ at[c] # "none" => StepsLeft(c)' <= StepsLeft(c) ]_vars

LEMMA OwnStep ==
    ASSUME IInv, NEW c \in Workers, Child(c)
    PROVE  StepsLeft(c)' = StepsLeft(c) - 1 /\ StepsLeft(c)' >= 0
<1>1. /\ k[c] \in Int /\ 0 <= k[c] /\ k[c] <= MAX_PROC - 1
      /\ MAX_PROC \in Int /\ MAX_PROC > 0
  BY ProcAssumption DEF IInv, TypeOK, Workers
<1>2. at \in [Workers -> {"none", "lock", "print", "unlock", "arrive", "barrier", "exited"}]
      /\ k \in [Workers -> Workers]
  BY DEF IInv, TypeOK
<1>3. CASE Lock(c)
  <2>1. CASE k[c] = MAX_PROC - 1
    <3>1. at[c] = "lock" /\ at'[c] = "print"
      BY <1>2, <1>3, <2>1 DEF Lock
    <3>2. StepsLeft(c) = 2 * MAX_PROC + 3 - k[c] /\ StepsLeft(c)' = MAX_PROC + 3
      BY <3>1 DEF StepsLeft
    <3> QED BY <1>1, <2>1, <3>2
  <2>2. CASE k[c] # MAX_PROC - 1
    <3>1. at[c] = "lock" /\ at'[c] = "lock" /\ k'[c] = k[c] + 1
      BY <1>2, <1>3, <2>2 DEF Lock
    <3>2. StepsLeft(c) = 2 * MAX_PROC + 3 - k[c] /\ StepsLeft(c)' = 2 * MAX_PROC + 3 - k'[c]
      BY <3>1 DEF StepsLeft
    <3> QED BY <1>1, <2>2, <3>1, <3>2
  <2> QED BY <2>1, <2>2
<1>4. CASE PrintWorkers(c)
  <2>1. at[c] = "print" /\ at'[c] = "unlock" /\ k'[c] = MAX_PROC - 1
    BY <1>2, <1>4 DEF PrintWorkers
  <2>2. StepsLeft(c) = MAX_PROC + 3 /\ StepsLeft(c)' = k'[c] + 3
    BY <2>1 DEF StepsLeft
  <2> QED BY <1>1, <2>1, <2>2
<1>5. CASE Unlock(c)
  <2>1. CASE k[c] = 0
    <3>1. at[c] = "unlock" /\ at'[c] = "arrive"
      BY <1>2, <1>5, <2>1 DEF Unlock
    <3>2. StepsLeft(c) = k[c] + 3 /\ StepsLeft(c)' = 2
      BY <3>1 DEF StepsLeft
    <3> QED BY <2>1, <3>2
  <2>2. CASE k[c] # 0
    <3>1. at[c] = "unlock" /\ at'[c] = "unlock" /\ k'[c] = k[c] - 1
      BY <1>2, <1>5, <2>2 DEF Unlock
    <3>2. StepsLeft(c) = k[c] + 3 /\ StepsLeft(c)' = k'[c] + 3
      BY <3>1 DEF StepsLeft
    <3> QED BY <1>1, <2>2, <3>1, <3>2
  <2> QED BY <2>1, <2>2
<1>6. CASE BarrierArrive(c)
  <2>1. at[c] = "arrive" /\ at'[c] = "barrier"
    BY <1>2, <1>6 DEF BarrierArrive
  <2> QED BY <2>1 DEF StepsLeft
<1>7. CASE BarrierLeave(c)
  <2>1. at[c] = "barrier" /\ at'[c] = "exited"
    BY <1>2, <1>7 DEF BarrierLeave
  <2> QED BY <2>1 DEF StepsLeft
<1> QED BY <1>3, <1>4, <1>5, <1>6, <1>7 DEF Child

\* With NobodyIsStuck: the children cannot go on for ever without getting to
\* the barrier, for every MAX_PROC.
THEOREM ChildrenGetOn == Spec => StepsRunOut
<1>1. ASSUME IInv, [Next]_vars, NEW c \in Workers, at[c] # "none"
      PROVE  StepsLeft(c)' <= StepsLeft(c)
  <2>0. StepsLeft(c) \in Int
    BY <1>1, ProcAssumption DEF IInv, TypeOK, Workers, StepsLeft
  <2>1. CASE Child(c)
    BY <1>1, <2>0, <2>1, OwnStep
  <2>2. ASSUME UNCHANGED <<at[c], k[c]>> PROVE StepsLeft(c)' <= StepsLeft(c)
    BY <2>0, <2>2 DEF StepsLeft
  <2>3. ASSUME NEW d \in Workers \ {c}, Child(d) PROVE UNCHANGED <<at[c], k[c]>>
    BY <1>1, <2>3 DEF Child, Lock, PrintWorkers, Unlock, BarrierArrive, BarrierLeave,
                      IInv, TypeOK
  <2>4. ASSUME Parent PROVE UNCHANGED <<at[c], k[c]>>
    <3>1. CASE Fork
      <4>1. i # c /\ at' = [at EXCEPT ![i] = "lock"] /\ k' = k
        BY <1>1, <3>1, ProcAssumption DEF Fork, IInv, ForkInv, TypeOK, Workers
      <4> QED BY <1>1, <4>1 DEF IInv, TypeOK
    <3>2. CASE ~Fork
      BY <2>4, <3>2 DEF Parent, ForkFails, ForkLoopEnd, Wait, DestroyMutex, DestroyBarrier
    <3> QED BY <3>1, <3>2
  <2>5. CASE UNCHANGED vars
    BY <2>2, <2>5 DEF vars
  <2> QED BY <1>1, <2>1, <2>2, <2>3, <2>4, <2>5 DEF Next
<1>2. ASSUME IInv, [Next]_vars
      PROVE  \A c \in Workers :
                /\ Child(c) => StepsLeft(c)' = StepsLeft(c) - 1 /\ StepsLeft(c)' >= 0
                /\ at[c] # "none" => StepsLeft(c)' <= StepsLeft(c)
  BY <1>1, <1>2, OwnStep
<1> QED BY <1>2, Invariance, PTL DEF Spec, StepsRunOut

\* What the parent has destroyed so far, and what it knows of the last fork().
EndInv ==
    /\ parent \in {"fork", "wait"} => destroyed = {}
    /\ parent = "fork" /\ i > 0 /\ at[i - 1] # "none" => res > 0
    /\ parent = "destroy" => destroyed = 0 .. i - 1
    /\ parent = "exited" => destroyed = Workers \/ at[MAX_PROC - 1] = "none"

\* The result of the last fork() stands for all: if every child was forked,
\* the parent does not end before it has destroyed all mutexes.
NothingIsLeft == AllForked /\ parent = "exited" => destroyed = Workers

\* The steps that the parent has before it.
ParentStepsLeft ==
    CASE parent = "fork"    -> 2 * MAX_PROC + 3 - i
      [] parent = "wait"    -> MAX_PROC + 2
      [] parent = "destroy" -> MAX_PROC + 1 - i
      [] OTHER              -> 0

\* The loops of the parent end: each of its steps is one less to go.
ParentStepsRunOut ==
    [][ /\ Parent => ParentStepsLeft' < ParentStepsLeft /\ ParentStepsLeft' >= 0
        /\ (\E c \in Workers : Child(c)) => ParentStepsLeft' = ParentStepsLeft ]_vars

LEMMA EndStep ==
    ASSUME IInv, EndInv, [Next]_vars
    PROVE  EndInv'
<1>1. /\ at \in [Workers -> {"none", "lock", "print", "unlock", "arrive", "barrier", "exited"}]
      /\ i \in Int /\ 0 <= i /\ i <= MAX_PROC /\ MAX_PROC \in Int /\ MAX_PROC > 0
      /\ \A n \in Workers : n \in Int /\ 0 <= n /\ n <= MAX_PROC - 1
      /\ MAX_PROC - 1 \in Workers
  BY ProcAssumption DEF IInv, TypeOK, Workers
<1>2. CASE Fork
  <2>1. /\ parent = "fork" /\ parent' = "fork" /\ i' = i + 1 /\ res' = 1
        /\ destroyed' = destroyed
    BY <1>2 DEF Fork
  <2> QED BY <2>1 DEF EndInv
<1>3. CASE ForkFails
  <2>1. /\ parent = "fork" /\ parent' = "fork" /\ i' = i + 1 /\ at' = at
        /\ destroyed' = destroyed /\ i < MAX_PROC
    BY <1>3 DEF ForkFails
  <2>2. at'[i' - 1] = "none"
    <3>1. i \in Workers /\ i' - 1 = i
      BY <1>1, <2>1 DEF Workers
    <3>2. at[i] = "none"
      BY <1>1, <2>1, <3>1 DEF IInv, ForkInv
    <3> QED BY <2>1, <3>1, <3>2
  <2> QED BY <2>1, <2>2 DEF EndInv
<1>4. CASE ForkLoopEnd
  <2>1. /\ parent = "fork" /\ i = MAX_PROC /\ UNCHANGED <<at, destroyed>>
        /\ \/ parent' = "wait"
           \/ parent' = "exited" /\ ~(res > 0)
    BY <1>4 DEF ForkLoopEnd
  <2> QED BY <1>1, <2>1 DEF EndInv
<1>5. CASE Wait
  <2>1. parent = "wait" /\ parent' = "destroy" /\ i' = 0 /\ destroyed' = destroyed
    BY <1>5 DEF Wait
  <2> QED BY <2>1 DEF EndInv
<1>6. CASE DestroyMutex
  <2>1. /\ parent = "destroy" /\ parent' = "destroy" /\ i' = i + 1
        /\ destroyed' = destroyed \cup {i}
    BY <1>6 DEF DestroyMutex
  <2>2. destroyed = 0 .. i - 1
    BY <2>1 DEF EndInv
  <2>3. (0 .. i - 1) \cup {i} = 0 .. i' - 1
    BY <1>1, <2>1
  <2> QED BY <2>1, <2>2, <2>3 DEF EndInv
<1>7. CASE DestroyBarrier
  <2>1. parent = "destroy" /\ i = MAX_PROC /\ parent' = "exited" /\ destroyed' = destroyed
    BY <1>7 DEF DestroyBarrier
  <2> QED BY <2>1 DEF EndInv, Workers
<1>8. ASSUME NEW c \in Workers, Child(c) PROVE EndInv'
  <2>1. UNCHANGED <<parent, i, res, destroyed>>
    BY <1>8 DEF Child, Lock, PrintWorkers, Unlock, BarrierArrive, BarrierLeave
  <2>2. \A n \in Workers : at'[n] = "none" <=> at[n] = "none"
    BY <1>1, <1>8 DEF Child, Lock, PrintWorkers, Unlock, BarrierArrive, BarrierLeave
  <2>3. i > 0 => i - 1 \in Workers
    BY <1>1 DEF Workers
  <2> QED BY <1>1, <2>1, <2>2, <2>3 DEF EndInv
<1>9. CASE UNCHANGED vars
  BY <1>9 DEF vars, EndInv
<1> QED BY <1>2, <1>3, <1>4, <1>5, <1>6, <1>7, <1>8, <1>9 DEF Next, Parent

\* The safety half of Finishes that is about the parent.
THEOREM ParentCleansUp == Spec => []NothingIsLeft /\ ParentStepsRunOut
<1>1. Init => EndInv
  BY DEF Init, EndInv
<1>2. Spec => []EndInv
  BY <1>1, EndStep, Invariance, PTL DEF Spec
<1>3. EndInv => NothingIsLeft
  BY WorkersFinite DEF EndInv, NothingIsLeft, AllForked
<1>4. ASSUME IInv, Parent
      PROVE  ParentStepsLeft' < ParentStepsLeft /\ ParentStepsLeft' >= 0
  <2>1. i \in Int /\ 0 <= i /\ i <= MAX_PROC /\ MAX_PROC \in Int /\ MAX_PROC > 0
    BY <1>4, ProcAssumption DEF IInv, TypeOK
  <2>2. CASE Fork \/ ForkFails
    <3>1. parent = "fork" /\ parent' = "fork" /\ i < MAX_PROC /\ i' = i + 1
      BY <2>2 DEF Fork, ForkFails
    <3> QED BY <2>1, <3>1 DEF ParentStepsLeft
  <2>3. CASE ForkLoopEnd
    <3>1. parent = "fork" /\ parent' \in {"wait", "exited"} /\ i = MAX_PROC
      BY <2>3 DEF ForkLoopEnd
    <3> QED BY <2>1, <3>1 DEF ParentStepsLeft
  <2>4. CASE Wait
    <3>1. parent = "wait" /\ parent' = "destroy" /\ i' = 0
      BY <2>4 DEF Wait
    <3> QED BY <2>1, <3>1 DEF ParentStepsLeft
  <2>5. CASE DestroyMutex
    <3>1. parent = "destroy" /\ parent' = "destroy" /\ i < MAX_PROC /\ i' = i + 1
      BY <2>5 DEF DestroyMutex
    <3> QED BY <2>1, <3>1 DEF ParentStepsLeft
  <2>6. CASE DestroyBarrier
    <3>1. parent = "destroy" /\ parent' = "exited" /\ i = MAX_PROC
      BY <2>6 DEF DestroyBarrier
    <3> QED BY <2>1, <3>1 DEF ParentStepsLeft
  <2> QED BY <1>4, <2>2, <2>3, <2>4, <2>5, <2>6 DEF Parent
<1>5. ASSUME NEW c \in Workers, Child(c) PROVE ParentStepsLeft' = ParentStepsLeft
  <2>1. UNCHANGED <<parent, i>>
    BY <1>5 DEF Child, Lock, PrintWorkers, Unlock, BarrierArrive, BarrierLeave
  <2> QED BY <2>1 DEF ParentStepsLeft
<1>6. IInv /\ [Next]_vars =>
         /\ Parent => ParentStepsLeft' < ParentStepsLeft /\ ParentStepsLeft' >= 0
         /\ (\E c \in Workers : Child(c)) => ParentStepsLeft' = ParentStepsLeft
  BY <1>4, <1>5
<1> QED BY <1>2, <1>3, <1>6, Invariance, PTL DEF Spec, ParentStepsRunOut

-----------------------------------------------------------------------------
(* The refinement                                                          *)

stages == [c \in Workers |-> StageOf(c)]

\* A step of c that leaves the others and the parent alone moves c only.
LEMMA MoveOne ==
    ASSUME NEW c \in Workers, UNCHANGED destroyed,
           \A d \in Workers \ {c} : at'[d] = at[d] /\ k'[d] = k[d]
    PROVE  /\ stages' = [stages EXCEPT ![c] = StageOf(c)']
           /\ UNCHANGED (destroyed # {})
<1>1. \A d \in Workers \ {c} : StageOf(d)' = StageOf(d)
  BY DEF StageOf
<1> QED BY <1>1 DEF stages

LEMMA SameStages == UNCHANGED <<at, k>> => UNCHANGED stages
BY DEF stages, StageOf

\* Who is inside holds the first mutex.
LEMMA InsideHoldsFirst ==
    ASSUME IInv, NEW c \in Workers, StageOf(c) = "inside"
    PROVE  owner[0] = c
<1>1. /\ k[c] \in Workers /\ 0 \in Workers
      /\ at[c] \in {"none", "lock", "print", "unlock", "arrive", "barrier", "exited"}
  BY WorkersFinite DEF IInv, TypeOK
<1>2. \/ at[c] = "lock" /\ k[c] # 0
      \/ at[c] \in {"print", "unlock"}
  BY <1>1 DEF StageOf
<1>3. k[c] \in Nat
  BY <1>1, ProcAssumption DEF Workers
<1> QED BY <1>1, <1>2, <1>3 DEF IInv, HoldInv

LEMMA LockMaps ==
    ASSUME IInv, NEW c \in Workers, Lock(c)
    PROVE  Group!Enter(c) \/ UNCHANGED <<stages, destroyed # {}>>
<1>1. /\ at[c] = "lock" /\ owner[k[c]] = Nobody /\ UNCHANGED destroyed
      /\ \/ at' = [at EXCEPT ![c] = "print"] /\ k' = k
         \/ at' = at /\ k' = [k EXCEPT ![c] = @ + 1]
  BY DEF Lock
<1>2. /\ at \in [Workers -> {"none", "lock", "print", "unlock", "arrive", "barrier", "exited"}]
      /\ k \in [Workers -> Workers]
  BY DEF IInv, TypeOK
<1>3. k[c] \in Nat
  BY <1>2, ProcAssumption DEF Workers
<1>4. StageOf(c)' = "inside"
  BY <1>1, <1>2, <1>3 DEF StageOf
<1>5. /\ stages' = [stages EXCEPT ![c] = "inside"]
      /\ UNCHANGED (destroyed # {})
  BY <1>1, <1>2, <1>4, MoveOne
<1>6. CASE k[c] # 0
  <2>1. StageOf(c) = "inside"
    BY <1>1, <1>6 DEF StageOf
  <2> QED BY <1>5, <2>1 DEF stages
<1>7. CASE k[c] = 0
  <2>1. StageOf(c) = "waiting"
    BY <1>1, <1>7 DEF StageOf
  <2>2. \A d \in Workers : StageOf(d) # "inside"
    BY <1>1, <1>7, InsideHoldsFirst, NobodyAssumption
  <2> QED BY <1>5, <2>1, <2>2 DEF Group!Enter, Group!Move, stages
<1> QED BY <1>6, <1>7

LEMMA ChildMaps ==
    ASSUME IInv, NEW c \in Workers, Child(c)
    PROVE  [Group!Next]_<<stages, destroyed # {}>>
<1>1. /\ at \in [Workers -> {"none", "lock", "print", "unlock", "arrive", "barrier", "exited"}]
      /\ k \in [Workers -> Workers]
  BY DEF IInv, TypeOK
<1>2. CASE Lock(c)
  BY <1>2, LockMaps DEF Group!Next
<1>3. CASE PrintWorkers(c)
  <2>1. StageOf(c) = "inside" /\ StageOf(c)' = "inside"
    BY <1>1, <1>3 DEF PrintWorkers, StageOf
  <2>2. stages' = [stages EXCEPT ![c] = StageOf(c)'] /\ UNCHANGED (destroyed # {})
    BY <1>1, <1>3, MoveOne DEF PrintWorkers
  <2> QED BY <2>1, <2>2 DEF stages
<1>4. CASE Unlock(c)
  <2>1. StageOf(c) = "inside" /\ StageOf(c)' \in {"inside", "done"}
    BY <1>1, <1>4 DEF Unlock, StageOf
  <2>2. stages' = [stages EXCEPT ![c] = StageOf(c)'] /\ UNCHANGED (destroyed # {})
    BY <1>1, <1>4, MoveOne DEF Unlock
  <2>3. CASE StageOf(c)' = "inside"
    BY <2>1, <2>2, <2>3 DEF stages
  <2>4. CASE StageOf(c)' = "done"
    BY <2>1, <2>2, <2>4 DEF stages, Group!Next, Group!Exit, Group!Move
  <2> QED BY <2>1, <2>3, <2>4
<1>5. CASE BarrierArrive(c)
  <2>1. StageOf(c) = "done" /\ StageOf(c)' = "done"
    BY <1>1, <1>5 DEF BarrierArrive, StageOf
  <2>2. stages' = [stages EXCEPT ![c] = StageOf(c)'] /\ UNCHANGED (destroyed # {})
    BY <1>1, <1>5, MoveOne DEF BarrierArrive
  <2> QED BY <2>1, <2>2 DEF stages
<1>6. CASE BarrierLeave(c)
  <2>1. StageOf(c) = "done" /\ StageOf(c)' = "left"
    BY <1>1, <1>6 DEF BarrierLeave, StageOf
  <2>2. stages' = [stages EXCEPT ![c] = "left"] /\ UNCHANGED (destroyed # {})
    BY <1>1, <1>6, <2>1, MoveOne DEF BarrierLeave
  <2>3. \A d \in Workers : at[d] \in {"barrier", "exited"}
    BY <1>6, ArrivedFacts DEF BarrierLeave, BarrierFull, IInv, BarrierInv, Arrived
  <2>4. \A d \in Workers : StageOf(d) \in {"done", "left"}
    BY <2>3 DEF StageOf
  <2> QED BY <2>1, <2>2, <2>4 DEF stages, Group!Next, Group!Leave, Group!Move, Group!AllDone
<1> QED BY <1>2, <1>3, <1>4, <1>5, <1>6 DEF Child

LEMMA ParentMaps ==
    ASSUME IInv, Parent
    PROVE  [Group!Next]_<<stages, destroyed # {}>>
<1>1. CASE Fork
  <2>1. /\ i \in Workers /\ at[i] = "none" /\ k[i] = 0
        /\ at' = [at EXCEPT ![i] = "lock"] /\ UNCHANGED <<k, destroyed>>
    BY <1>1, ProcAssumption DEF Fork, IInv, TypeOK, ForkInv, NewInv, Workers
  <2>2. at \in [Workers -> {"none", "lock", "print", "unlock", "arrive", "barrier", "exited"}]
    BY DEF IInv, TypeOK
  <2>3. StageOf(i) = "absent"
    BY <2>1 DEF StageOf
  <2>4. stages' = [stages EXCEPT ![i] = "waiting"]
    <3>1. \A d \in Workers \ {i} : StageOf(d)' = StageOf(d)
      BY <2>1, <2>2 DEF StageOf
    <3>2. at'[i] = "lock" /\ k'[i] = 0
      BY <2>1, <2>2
    <3>3. stages'[i] = "waiting"
      BY <2>1, <3>2 DEF stages, StageOf
    <3> QED BY <3>1, <3>3, <2>1 DEF stages
  <2> QED BY <2>1, <2>3, <2>4 DEF stages, Group!Next, Group!Join, Group!Move
<1>2. CASE ForkFails \/ ForkLoopEnd \/ Wait \/ DestroyBarrier
  <2>1. UNCHANGED <<at, k, destroyed>>
    BY <1>2 DEF ForkFails, ForkLoopEnd, Wait, DestroyBarrier
  <2> QED BY <2>1, SameStages
<1>3. CASE DestroyMutex
  <2>1. UNCHANGED <<at, k>> /\ parent = "destroy" /\ (destroyed' # {}) = TRUE
    BY <1>3 DEF DestroyMutex
  <2>2. BarrierFull
    BY <2>1 DEF IInv, DestroyInv, BarrierInv
  <2>3. \A d \in Workers : at[d] \in {"barrier", "exited"}
    BY <2>2, ArrivedFacts DEF BarrierFull, IInv, BarrierInv, Arrived
  <2>4. \A d \in Workers : StageOf(d) \in {"done", "left"}
    BY <2>3 DEF StageOf
  <2> QED BY <2>1, <2>4, SameStages DEF stages, Group!Next, Group!TearDown, Group!AllDone
<1> QED BY <1>1, <1>2, <1>3 DEF Parent

LEMMA MapsInit == Init => Group!Init
BY DEF Init, Group!Init, StageOf

LEMMA MapsNext == IInv /\ [Next]_vars => [Group!Next]_<<stages, destroyed # {}>>
<1> SUFFICES ASSUME IInv, [Next]_vars PROVE [Group!Next]_<<stages, destroyed # {}>>
  OBVIOUS
<1>1. CASE UNCHANGED vars
  BY <1>1, SameStages DEF vars
<1> QED BY <1>1, ParentMaps, ChildMaps DEF Next

\* agent.c implements the meeting, for every MAX_PROC and any failed forks.
THEOREM ImplementsMeeting == Spec => RefinesMeeting
BY Invariance, MapsInit, MapsNext, PTL DEF Spec, RefinesMeeting, Group!Spec, stages

=============================================================================
