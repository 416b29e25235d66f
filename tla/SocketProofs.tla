---------------------------- MODULE SocketProofs ----------------------------
(***************************************************************************)
(* create_socket() loses no descriptor, closes nobody else's, hands out    *)
(* none that is not ready, and implements Listeners, for any threads and   *)
(* any number of descriptors.                                              *)
(***************************************************************************)
EXTENDS Socket, WellFoundedInduction, TLAPS

-----------------------------------------------------------------------------
(* The inductive invariant                                                 *)

Busy(t) == pc[t] \notin {"idle", "failed"}

\* The options that are set when the next system call is the given one.
SetBefore(at) ==
    CASE at = "reuse" -> {}
      [] at = "dual" -> {"reuse"}
      [] at = "nonblock" -> {"reuse", "dual"}
      [] at = "bind" -> {"reuse", "dual", "nonblock"}
      [] at = "listen" -> {"reuse", "dual", "nonblock", "bound"}

\* A call that has not failed has a socket of its own, as far as it has got with it.
ProgressInv ==
    \A t \in Threads : Busy(t) =>
        /\ sockfd[t] \in Fds
        /\ table[sockfd[t]] = SetBefore(pc[t])
        /\ sockfd[t] \notin held[t]

\* No descriptor has two owners.
OwnerInv ==
    \A t, u \in Threads : t # u => OwnedBy(t) \cap OwnedBy(u) = {}

IInv == TypeOK /\ ProgressInv /\ OwnerInv /\ NoDescriptorLost /\ HeldAreReady

-----------------------------------------------------------------------------
(* The descriptor the kernel gives                                         *)

\* A set of natural numbers that is not empty has a least element, which is
\* the one that Min chooses.
LEMMA LeastOf ==
    ASSUME NEW S \in SUBSET Nat, S # {}
    PROVE  Min(S) \in S
<1> DEFINE less == OpToRel(<, Nat)
<1>1. IsWellFoundedOn(less, Nat)
  BY NatLessThanWellFounded
<1>2. \A m, n \in Nat : m < n => <<m, n>> \in less
  BY DEF OpToRel
<1> HIDE DEF less
<1>3. PICK n \in S : \A m \in S : ~(<<m, n>> \in less)
  BY <1>1, WFMin
<1>4. ASSUME NEW m \in S
      PROVE  n <= m
  <2>1. m \in Nat /\ n \in Nat
    OBVIOUS
  <2>2. ~(m < n)
    BY <1>2, <1>3, <2>1
  <2> QED BY <2>1, <2>2
<1> QED BY <1>4 DEF Min

LEMMA LowestFree ==
    ASSUME Free # {}
    PROVE  Min(Free) \in Fds /\ table[Min(Free)] = NULL
<1>1. Free \in SUBSET Nat
  BY SocketAssumption DEF Free, Fds
<1>2. Min(Free) \in Free
  BY <1>1, LeastOf
<1> QED BY <1>2 DEF Free

-----------------------------------------------------------------------------

LEMMA InitIInv == Init => IInv
BY SocketAssumption
   DEF Init, IInv, TypeOK, ProgressInv, OwnerInv, NoDescriptorLost,
       HeldAreReady, OwnedBy, Busy

LEMMA CreateSocketIInv ==
    ASSUME IInv, NEW t \in Threads, CreateSocket(t)
    PROVE  IInv'
<1> DEFINE fd == Min(Free)
<1>1. /\ fd \in Fds /\ table[fd] = NULL
      /\ table' = [table EXCEPT ![fd] = {}]
      /\ sockfd' = [sockfd EXCEPT ![t] = fd]
      /\ pc[t] = "idle" /\ pc' = [pc EXCEPT ![t] = "reuse"]
      /\ UNCHANGED <<err, told, held>>
  BY LowestFree DEF CreateSocket
<1> HIDE DEF fd
<1> USE DEF IInv
<1>2. TypeOK'
  BY <1>1 DEF TypeOK
<1>3. \A u \in Threads : fd \notin OwnedBy(u)
  BY <1>1 DEF NoDescriptorLost
<1>4. /\ OwnedBy(t)' = OwnedBy(t) \cup {fd}
      /\ \A u \in Threads \ {t} : OwnedBy(u)' = OwnedBy(u)
  BY <1>1 DEF OwnedBy, TypeOK
<1>5. ProgressInv'
  BY <1>1, <1>3 DEF ProgressInv, Busy, SetBefore, TypeOK, OwnedBy
<1>6. OwnerInv'
  BY <1>3, <1>4 DEF OwnerInv
<1>7. NoDescriptorLost'
  BY <1>1, <1>4, SocketAssumption DEF NoDescriptorLost, TypeOK
<1>8. HeldAreReady'
  BY <1>1, <1>3 DEF HeldAreReady, TypeOK, OwnedBy
<1> QED BY <1>2, <1>5, <1>6, <1>7, <1>8

\* Nothing is open that the call answers for.
LEMMA ReturnErrorIInv ==
    ASSUME IInv, NEW t \in Threads, CreateFails(t) \/ GiveUp(t)
    PROVE  IInv'
<1> USE DEF IInv, CreateFails, ReturnError, GiveUp, ReturnFailure
<1>1. TypeOK'
  BY DEF TypeOK, Errors
<1>2. \A u \in Threads : (Busy(u)' => pc'[u] = pc[u] /\ Busy(u)) /\ OwnedBy(u)' = OwnedBy(u)
  BY DEF TypeOK, OwnedBy, Busy
<1>3. ProgressInv' /\ OwnerInv'
  BY <1>2 DEF ProgressInv, OwnerInv
<1>4. NoDescriptorLost' /\ HeldAreReady'
  BY <1>2 DEF NoDescriptorLost, HeldAreReady
<1> QED BY <1>1, <1>3, <1>4

\* A system call that works brings the socket of its thread on by one option.
LEMMA DoneIInv ==
    ASSUME IInv, NEW t \in Threads, NEW at, NEW option, NEW next,
           Done(t, at, option, next), option \in Options,
           at \in {"reuse", "dual", "nonblock", "bind"},
           next \in {"dual", "nonblock", "bind", "listen"},
           SetBefore(next) = SetBefore(at) \cup {option}
    PROVE  IInv'
<1> DEFINE fd == sockfd[t]
<1> USE DEF IInv
<1>1. /\ fd \in Fds /\ fd \notin held[t]
      /\ pc[t] = at /\ Busy(t)
      /\ table[fd] # NULL /\ table[fd] = SetBefore(at)
      /\ table' = [table EXCEPT ![fd] = @ \cup {option}]
      /\ pc' = [pc EXCEPT ![t] = next]
      /\ UNCHANGED <<sockfd, err, told, held>>
  BY DEF Done, ProgressInv, Busy
<1> HIDE DEF fd
<1>2. table[fd] \in SUBSET Options /\ table[fd] \cup {option} # NULL
  BY <1>1, SocketAssumption DEF TypeOK
<1>3. TypeOK'
  BY <1>1, <1>2 DEF TypeOK
<1>4. \A u \in Threads : OwnedBy(u)' = OwnedBy(u)
  BY <1>1 DEF OwnedBy, TypeOK, Busy
<1>5. \A u \in Threads \ {t} : fd \notin OwnedBy(u)
  BY <1>1 DEF OwnerInv, OwnedBy, Busy, fd
<1>6. ProgressInv'
  BY <1>1, <1>5 DEF ProgressInv, Busy, TypeOK, OwnedBy, fd
<1>7. OwnerInv'
  BY <1>4 DEF OwnerInv
<1>8. NoDescriptorLost'
  BY <1>1, <1>2, <1>4 DEF NoDescriptorLost, TypeOK
<1>9. HeldAreReady'
  BY <1>1, <1>5 DEF HeldAreReady, TypeOK, OwnedBy
<1> QED BY <1>3, <1>6, <1>7, <1>8, <1>9

\* One that fails closes the socket of its own thread and no other.
LEMMA FailedIInv ==
    ASSUME IInv, NEW t \in Threads, NEW at \in Errors, Busy(t), Failed(t, at)
    PROVE  IInv'
<1> DEFINE fd == sockfd[t]
<1> USE DEF IInv
<1>1. /\ fd \in Fds /\ fd \notin held[t]
      /\ table' = [table EXCEPT ![fd] = NULL]
      /\ pc' = [pc EXCEPT ![t] = "failed"]
      /\ err' = [err EXCEPT ![t] = at]
      /\ UNCHANGED <<sockfd, told, held>>
  BY DEF Failed, Fails, ProgressInv
<1> HIDE DEF fd
<1>2. TypeOK'
  BY <1>1 DEF TypeOK
<1>3. /\ OwnedBy(t)' = OwnedBy(t) \ {fd}
      /\ \A u \in Threads \ {t} : OwnedBy(u)' = OwnedBy(u)
  BY <1>1 DEF OwnedBy, TypeOK, Busy, fd
<1>4. \A u \in Threads \ {t} : fd \notin OwnedBy(u)
  BY <1>1 DEF OwnerInv, OwnedBy, Busy, fd
<1>5. ProgressInv'
  BY <1>1, <1>4 DEF ProgressInv, Busy, TypeOK, OwnedBy
<1>6. OwnerInv'
  BY <1>3 DEF OwnerInv
<1>7. NoDescriptorLost'
  BY <1>1, <1>3, <1>4 DEF NoDescriptorLost, TypeOK
<1>8. HeldAreReady'
  BY <1>1, <1>4 DEF HeldAreReady, TypeOK, OwnedBy
<1> QED BY <1>2, <1>5, <1>6, <1>7, <1>8

LEMMA ListenIInv ==
    ASSUME IInv, NEW t \in Threads, Listen(t)
    PROVE  IInv'
<1> DEFINE fd == sockfd[t]
<1>1. CASE Failed(t, "listen")
  BY <1>1, FailedIInv DEF Failed, Fails, Busy, Errors
<1>2. CASE ~Failed(t, "listen")
  <2> USE DEF IInv
  <2>1. /\ fd \in Fds /\ fd \notin held[t]
        /\ Busy(t) /\ table[fd] = SetBefore("listen")
        /\ table' = [table EXCEPT ![fd] = @ \cup {"listening"}]
        /\ pc' = [pc EXCEPT ![t] = "idle"]
        /\ told' = [told EXCEPT ![t] = fd]
        /\ held' = [held EXCEPT ![t] = @ \cup {fd}]
        /\ UNCHANGED <<sockfd, err>>
    BY <1>2 DEF Listen, ReturnSocket, ProgressInv, Busy
  <2> HIDE DEF fd
  <2>2. table'[fd] = Options /\ Options # NULL /\ table[fd] # NULL
    BY <2>1, SocketAssumption DEF TypeOK, SetBefore, Options
  <2>3. TypeOK'
    BY <2>1, <2>2 DEF TypeOK
  <2>4. \A u \in Threads : OwnedBy(u)' = OwnedBy(u)
    BY <2>1 DEF OwnedBy, TypeOK, Busy, fd
  <2>5. \A u \in Threads \ {t} : fd \notin OwnedBy(u)
    BY <2>1 DEF OwnerInv, OwnedBy, Busy, fd
  <2>6. ProgressInv'
    BY <2>1, <2>5 DEF ProgressInv, Busy, TypeOK, OwnedBy
  <2>7. OwnerInv'
    BY <2>4 DEF OwnerInv
  <2>8. NoDescriptorLost'
    <3>1. {g \in Fds : table'[g] # NULL} = {g \in Fds : table[g] # NULL}
      BY <2>1, <2>2 DEF TypeOK
    <3>2. UNION {OwnedBy(u)' : u \in Threads} = UNION {OwnedBy(u) : u \in Threads}
      BY <2>4
    <3> QED BY <3>1, <3>2 DEF NoDescriptorLost
  <2>9. HeldAreReady'
    BY <2>1, <2>2, <2>5 DEF HeldAreReady, TypeOK, OwnedBy
  <2> QED BY <2>3, <2>6, <2>7, <2>8, <2>9
<1> QED BY <1>1, <1>2

LEMMA CloseHeldIInv ==
    ASSUME IInv, NEW t \in Threads, NEW fd \in Fds, CloseHeld(t, fd)
    PROVE  IInv'
<1> USE DEF IInv, CloseHeld
<1>1. TypeOK'
  BY DEF TypeOK
<1>2. /\ OwnedBy(t)' = OwnedBy(t) \ {fd}
      /\ \A u \in Threads \ {t} : OwnedBy(u)' = OwnedBy(u)
  BY DEF OwnedBy, TypeOK
<1>3. \A u \in Threads \ {t} : fd \notin OwnedBy(u)
  BY DEF OwnerInv, OwnedBy
<1>4. ProgressInv'
  BY <1>3 DEF ProgressInv, Busy, TypeOK, OwnedBy
<1>5. OwnerInv'
  BY <1>2 DEF OwnerInv
<1>6. NoDescriptorLost'
  BY <1>2, <1>3 DEF NoDescriptorLost, TypeOK
<1>7. HeldAreReady'
  BY <1>3 DEF HeldAreReady, TypeOK, OwnedBy
<1> QED BY <1>1, <1>4, <1>5, <1>6, <1>7

-----------------------------------------------------------------------------
(* Every step keeps the invariant                                          *)

LEMMA StepIInv ==
    ASSUME IInv, [Next]_vars
    PROVE  IInv'
<1>1. ASSUME NEW t \in Threads, SetSocketOptions(t)
      PROVE  IInv'
  <2>1. CASE Done(t, "reuse", "reuse", "dual")
    BY <2>1, DoneIInv DEF SetBefore, Options
  <2>2. CASE Done(t, "dual", "dual", "nonblock")
    BY <2>2, DoneIInv DEF SetBefore, Options
  <2>3. CASE Failed(t, "reuse") \/ Failed(t, "dual")
    BY <2>3, FailedIInv DEF Failed, Fails, Busy, Errors
  <2> QED BY <1>1, <2>1, <2>2, <2>3 DEF SetSocketOptions
<1>2. ASSUME NEW t \in Threads, SetNonBlocking(t)
      PROVE  IInv'
  <2>1. CASE Done(t, "nonblock", "nonblock", "bind")
    BY <2>1, DoneIInv DEF SetBefore, Options
  <2>2. CASE Failed(t, "nonblock")
    BY <2>2, FailedIInv DEF Failed, Fails, Busy, Errors
  <2> QED BY <1>2, <2>1, <2>2 DEF SetNonBlocking
<1>3. ASSUME NEW t \in Threads, Bind(t)
      PROVE  IInv'
  <2>1. CASE Done(t, "bind", "bound", "listen")
    BY <2>1, DoneIInv DEF SetBefore, Options
  <2>2. CASE Failed(t, "bind")
    BY <2>2, FailedIInv DEF Failed, Fails, Busy, Errors
  <2> QED BY <1>3, <2>1, <2>2 DEF Bind
<1>4. CASE UNCHANGED vars
  <2> USE <1>4 DEF vars, IInv
  <2>1. \A t \in Threads : OwnedBy(t)' = OwnedBy(t)
    BY DEF OwnedBy
  <2>2. TypeOK' /\ ProgressInv' /\ OwnerInv'
    BY <2>1 DEF TypeOK, ProgressInv, OwnerInv, Busy
  <2>3. NoDescriptorLost' /\ HeldAreReady'
    BY <2>1 DEF NoDescriptorLost, HeldAreReady
  <2> QED BY <2>2, <2>3
<1> QED
  BY <1>1, <1>2, <1>3, <1>4, CreateSocketIInv, ReturnErrorIInv, ListenIInv,
     CloseHeldIInv DEF Next, Step

THEOREM Invariance == Spec => []IInv
BY InitIInv, StepIInv, PTL DEF Spec

\* The state of create_socket() keeps its types: sockfd is a descriptor in
\* every system call that is given it.
THEOREM TypeCorrect == Spec => []TypeOK
<1>1. IInv => TypeOK
  BY DEF IInv
<1> QED BY <1>1, Invariance, PTL

\* Whichever system calls of create_socket() fail, and however many threads
\* run it, the open descriptors are those that some thread answers for.
THEOREM DescriptorsAreAnsweredFor == Spec => []NoDescriptorLost
<1>1. IInv => NoDescriptorLost
  BY DEF IInv
<1> QED BY <1>1, Invariance, PTL

\* A socket that create_socket() has returned has been through every step,
\* until its owner closes it.
THEOREM ReturnedAreReady == Spec => []HeldAreReady
<1>1. IInv => HeldAreReady
  BY DEF IInv
<1> QED BY <1>1, Invariance, PTL

-----------------------------------------------------------------------------
(* create_socket() implements Listeners                                    *)

LEMMA ListenRefines ==
    ASSUME IInv, NEW t \in Threads, Listen(t)
    PROVE  UNCHANGED <<held, told>> \/ \E fd \in Fds : Calls!Obtain(t, fd)
<1>1. CASE Failed(t, "listen")
  BY <1>1 DEF Failed, Fails
<1>2. CASE ~Failed(t, "listen")
  <2>1. /\ Busy(t)
        /\ told' = [told EXCEPT ![t] = sockfd[t]]
        /\ held' = [held EXCEPT ![t] = @ \cup {sockfd[t]}]
    BY <1>2 DEF Listen, ReturnSocket, Busy
  <2>2. sockfd[t] \in Fds /\ sockfd[t] \notin held[t]
    BY <2>1 DEF IInv, ProgressInv
  <2>3. \A u \in Threads \ {t} : sockfd[t] \notin held[u]
    BY <2>1 DEF IInv, OwnerInv, OwnedBy, Busy
  <2>4. Calls!Obtain(t, sockfd[t])
    BY <2>1, <2>2, <2>3 DEF Calls!Obtain
  <2> QED BY <2>2, <2>4
<1> QED BY <1>1, <1>2

LEMMA StepRefines ==
    ASSUME IInv, [Next]_vars
    PROVE  [Calls!Next]_<<held, told>>
<1>1. ASSUME NEW t \in Threads, CreateSocket(t)
      PROVE  UNCHANGED <<held, told>>
  BY <1>1 DEF CreateSocket
<1>2. ASSUME NEW t \in Threads, CreateFails(t) \/ GiveUp(t)
      PROVE  Calls!Fail(t)
  BY <1>2 DEF CreateFails, ReturnError, GiveUp, ReturnFailure, Calls!Fail
<1>3. ASSUME NEW t \in Threads,
             SetSocketOptions(t) \/ SetNonBlocking(t) \/ Bind(t)
      PROVE  UNCHANGED <<held, told>>
  BY <1>3 DEF SetSocketOptions, SetNonBlocking, Bind, Done, Failed, Fails
<1>4. ASSUME NEW t \in Threads, NEW fd \in Fds, CloseHeld(t, fd)
      PROVE  Calls!Drop(t, fd)
  BY <1>4 DEF CloseHeld, Calls!Drop
<1>5. CASE UNCHANGED vars
  BY <1>5 DEF vars
<1> QED
  BY <1>1, <1>2, <1>3, <1>4, <1>5, ListenRefines DEF Next, Step, Calls!Next

\* However many threads call create_socket() at once, and wherever it fails,
\* each call looks like one step: a descriptor nobody has, or -1 and nothing.
THEOREM ImplementsListeners == Spec => RefinesListeners
<1>1. Init => Calls!Init
  BY DEF Init, Calls!Init
<1> QED BY <1>1, StepRefines, Invariance, PTL DEF Spec, RefinesListeners, Calls!Spec

=============================================================================
