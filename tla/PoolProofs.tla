----------------------------- MODULE PoolProofs -----------------------------
(***************************************************************************)
(* The array of polled descriptors of server/pool.c, for any number of     *)
(* clients, entries and rounds.                                            *)
(***************************************************************************)
EXTENDS Pool, FiniteSetTheorems, TLAPS

\* How far main() is in the array of entries, and what the events it has
\* not looked at yet are about.
ScanInv ==
    /\ pc \in {"scan", "accept", "send", "close"} =>
          /\ i <= size /\ size <= nfds
          /\ \A n \in 0 .. size - 1 : revents[n] = "in" => fds[n] \in open
    /\ pc \in {"accept", "send", "close"} => i < size /\ fds[i] \in open
    /\ pc = "accept" => fds[i] = sd
    /\ pc = "send" => fds[i] \in Clients
    /\ pc \in {"scan", "accept", "send"} => l < Rounds

\* The compression has left no gap behind it.
GapInv ==
    pc = "compress" => i <= nfds /\ \A n \in 0 .. i - 1 : fds[n] # NoFd

\* A connection is waiting to be accepted or is open, not both, and has
\* never been if its client has not connected.
QueueInv ==
    /\ queue \cap open = {}
    /\ \A c \in Clients : link[c] = "none" => c \notin queue /\ c \notin open
    /\ sd = NoFd => open = {} /\ queue = {}

SomeFailed == \E c \in Clients : reply[c] = "failed"

\* close_conn is set at the listening socket only by a failed send(), and
\* the listening socket is closed before the end only because of that.
CloseInv ==
    /\ pc # "exited" => misclosed = {}
    /\ \A c \in Clients : reply[c] = "failed" => link[c] = "reset"
    /\ pc \in {"poll", "scan", "accept"} /\ closeConn => SomeFailed
    /\ pc = "close" /\ fds[i] = sd => SomeFailed
    /\ pc \notin {"exited", "killed"} /\ sd # NoFd /\ sd \notin open => SomeFailed

IInv == /\ TypeOK /\ ScanInv /\ GapInv /\ QueueInv /\ CloseInv
        /\ TableIsOpen /\ OverrunOnlyWhenFull /\ MisclosedOnlyAfterFailedSend

-----------------------------------------------------------------------------

LEMMA InitIInv == Init => IInv
<1> SUFFICES ASSUME Init PROVE IInv
  OBVIOUS
<1> USE PoolAssumption DEF Init
<1>1. TypeOK
  <2>1. /\ 0 \in 0 .. Rounds /\ 0 \in 0 .. MaxFds /\ 1 \in 0 .. MaxFds
        /\ fds \in [Entries -> Clients \cup {Listener, Stdin, NoFd}]
        /\ revents \in [Entries -> {"none", "in", "other"}]
    OBVIOUS
  <2>2. open \subseteq Clients \cup {Listener}
    OBVIOUS
  <2> QED BY <2>1, <2>2 DEF TypeOK
<1>2. nfds = 1 /\ fds[0] = sd
  BY DEF Entries
<1>3. Polled = {sd}
  BY <1>2, \A n \in 0 .. 1 - 1 : n = 0, 0 \in 0 .. 1 - 1 DEF Polled
<1>4. TableIsOpen
  BY <1>2, <1>3, \A n \in 0 .. 1 - 1 : n = 0 DEF TableIsOpen
<1> QED
  BY <1>1, <1>4 DEF IInv, ScanInv, GapInv, QueueInv, CloseInv, OverrunOnlyWhenFull,
     MisclosedOnlyAfterFailedSend

\* The steps that leave the array, the descriptors and the clients alone.
Quiet ==
    /\ UNCHANGED <<sd, nfds, fds, open, misclosed, kernel, reply>>
    /\ pc \in {"poll", "scan", "accept"}

LEMMA QuietKeepsTable ==
    ASSUME IInv, Quiet, pc' \in {"poll", "scan", "accept", "end", "exited"}
    PROVE  TableIsOpen' /\ QueueInv' /\ OverrunOnlyWhenFull' /\ GapInv'
<1> USE DEF IInv, Quiet, kernel
<1>1. Polled' = Polled
  BY DEF Polled
<1>2. TableIsOpen'
  BY <1>1 DEF TableIsOpen
<1>3. QueueInv' /\ OverrunOnlyWhenFull' /\ GapInv'
  BY DEF QueueInv, OverrunOnlyWhenFull, GapInv
<1> QED BY <1>2, <1>3

LEMMA RoundsIInv ==
    ASSUME IInv, Poll \/ LastRound \/ SkipEntry \/ ScanDone \/ ExitOnError
    PROVE  IInv'
<1> USE PoolAssumption DEF IInv, TypeOK
<1>1. CASE Poll
  <2> USE <1>1 DEF Poll, Quiet, kernel
  <2>1. TypeOK'
    BY DEF Event
  <2>2. \A n \in 0 .. nfds - 1 : n \in Entries
    BY DEF Entries
  <2>3. \A n \in 0 .. nfds - 1 : revents'[n] = "in" => fds[n] \in open
    <3> SUFFICES ASSUME NEW n \in 0 .. nfds - 1, Event(fds[n]) = "in"
                 PROVE  fds[n] \in open
      BY <2>2
    <3>1. fds[n] = Listener \/ fds[n] \in Clients
      BY DEF Event
    <3>2. fds[n] \in Polled \ {NoFd}
      BY <3>1 DEF Polled
    <3> QED BY <3>2 DEF TableIsOpen
  <2>4. ScanInv'
    BY <2>3 DEF ScanInv
  <2>5. CloseInv' /\ MisclosedOnlyAfterFailedSend'
    BY DEF CloseInv, MisclosedOnlyAfterFailedSend, SomeFailed
  <2> QED BY <2>1, <2>4, <2>5, QuietKeepsTable
<1>2. CASE LastRound
  <2> USE <1>2 DEF LastRound, Quiet, kernel
  <2>1. TypeOK' /\ ScanInv'
    BY DEF ScanInv
  <2>2. CloseInv' /\ MisclosedOnlyAfterFailedSend'
    BY DEF CloseInv, MisclosedOnlyAfterFailedSend, SomeFailed
  <2> QED BY <2>1, <2>2, QuietKeepsTable
<1>3. CASE SkipEntry
  <2> USE <1>3 DEF SkipEntry, Quiet, kernel
  <2>1. TypeOK' /\ ScanInv'
    BY DEF ScanInv
  <2>2. CloseInv' /\ MisclosedOnlyAfterFailedSend'
    BY DEF CloseInv, MisclosedOnlyAfterFailedSend, SomeFailed
  <2> QED BY <2>1, <2>2, QuietKeepsTable
<1>4. CASE ScanDone
  <2> USE <1>4 DEF ScanDone, Quiet, kernel
  <2>1. TypeOK' /\ ScanInv'
    BY DEF ScanInv
  <2>2. CloseInv' /\ MisclosedOnlyAfterFailedSend'
    BY DEF CloseInv, MisclosedOnlyAfterFailedSend, SomeFailed
  <2> QED BY <2>1, <2>2, QuietKeepsTable
<1>5. CASE ExitOnError
  <2> USE <1>5 DEF ExitOnError, Quiet, kernel
  <2>1. TypeOK' /\ ScanInv'
    BY DEF ScanInv
  <2>2. CloseInv' /\ MisclosedOnlyAfterFailedSend'
    BY DEF CloseInv, MisclosedOnlyAfterFailedSend, SomeFailed
  <2> QED BY <2>1, <2>2, QuietKeepsTable
<1> QED BY <1>1, <1>2, <1>3, <1>4, <1>5

LEMMA ListenIInv ==
    ASSUME IInv, StartAccepting \/ NothingToAccept
    PROVE  IInv'
<1> USE PoolAssumption DEF IInv, TypeOK
<1>1. CASE StartAccepting
  <2> USE <1>1 DEF StartAccepting, Quiet, kernel
  <2>1. TypeOK' /\ ScanInv'
    BY DEF ScanInv
  <2>2. CloseInv' /\ MisclosedOnlyAfterFailedSend'
    BY DEF CloseInv, MisclosedOnlyAfterFailedSend, SomeFailed
  <2> QED BY <2>1, <2>2, QuietKeepsTable
<1>2. CASE NothingToAccept
  <2> USE <1>2 DEF NothingToAccept, kernel
  <2>1. TypeOK' /\ ScanInv'
    BY DEF ScanInv
  <2>2. CloseInv' /\ MisclosedOnlyAfterFailedSend'
    BY DEF CloseInv, MisclosedOnlyAfterFailedSend, SomeFailed
  <2>3. Polled' = Polled
    BY DEF Polled
  <2>4. TableIsOpen'
    BY <2>3 DEF TableIsOpen
  <2>5. QueueInv' /\ OverrunOnlyWhenFull' /\ GapInv'
    BY DEF QueueInv, OverrunOnlyWhenFull, GapInv
  <2> QED BY <2>1, <2>2, <2>4, <2>5
<1> QED BY <1>1, <1>2

\* As many descriptors are open as entries are polled.
LEMMA PolledCounts ==
    ASSUME TypeOK, TableIsOpen, pc \notin {"exited", "killed", "overrun"},
           NoFd \notin Polled
    PROVE  IsFiniteSet(open) /\ Cardinality(open) = nfds
<1> DEFINE S == 0 .. nfds - 1
           f == [n \in S |-> fds[n]]
<1>1. nfds \in Nat /\ IsFiniteSet(S) /\ Cardinality(S) = nfds
  BY PoolAssumption, FS_Interval DEF TypeOK
<1>2. f \in Bijection(S, Polled)
  <2>1. f \in [S -> Polled] /\ \A y \in Polled : \E n \in S : f[n] = y
    BY DEF Polled
  <2>2. \A m, n \in S : f[m] = f[n] => m = n
    BY DEF TableIsOpen
  <2> QED BY <2>1, <2>2 DEF Bijection, Injection, Surjection, IsInjective
<1>3. ExistsBijection(S, Polled)
  BY <1>2 DEF ExistsBijection
<1>4. IsFiniteSet(Polled) /\ Cardinality(Polled) = Cardinality(S)
  BY <1>1, <1>3, FS_Bijection
<1>5. Polled = open
  BY DEF TableIsOpen
<1> QED BY <1>1, <1>4, <1>5

LEMMA AcceptIInv ==
    ASSUME IInv, NEW c \in queue, Accept(c)
    PROVE  IInv'
<1> USE PoolAssumption DEF IInv, TypeOK, Accept
<1>1. c \in Clients /\ c # NoFd /\ c # Listener /\ c \notin open
  BY DEF QueueInv
<1>2. sd = Listener /\ sd \in open /\ NoFd \notin Polled
  BY DEF ScanInv, QueueInv, TableIsOpen
<1>3. QueueInv'
  BY <1>1, <1>2 DEF QueueInv
<1>4. CASE nfds < MaxFds
  <2>1. /\ fds' = [fds EXCEPT ![nfds] = c] /\ nfds' = nfds + 1 /\ pc' = "accept"
        /\ nfds \in Entries /\ open' = open \cup {c}
    BY <1>4 DEF Entries
  <2>2. /\ fds'[nfds] = c
        /\ \A n \in 0 .. nfds - 1 : n \in Entries /\ fds'[n] = fds[n]
    BY <2>1 DEF Entries
  <2>3. TypeOK'
    BY <1>1, <2>1
  <2>4. ScanInv'
    BY <1>1, <2>1, <2>2 DEF ScanInv
  <2>5. Polled' = Polled \cup {c}
    BY <2>1, <2>2, \A n \in 0 .. nfds : n \in 0 .. nfds - 1 \/ n = nfds DEF Polled
  <2>6. c \notin Polled
    BY <1>1 DEF TableIsOpen
  <2>7. \A m, n \in 0 .. nfds' - 1 : fds'[m] = fds'[n] => m = n
    <3> SUFFICES ASSUME NEW m \in 0 .. nfds, NEW n \in 0 .. nfds, fds'[m] = fds'[n]
                 PROVE  m = n
      BY <2>1
    <3>1. \A k \in 0 .. nfds - 1 : fds'[k] # c
      BY <2>2, <2>6 DEF Polled
    <3>2. CASE m = nfds
      BY <2>2, <3>1, <3>2
    <3>3. CASE n = nfds
      BY <2>2, <3>1, <3>3
    <3>4. CASE m \in 0 .. nfds - 1 /\ n \in 0 .. nfds - 1
      BY <2>2, <3>4 DEF TableIsOpen
    <3> QED BY <3>2, <3>3, <3>4
  <2>8. TableIsOpen'
    BY <1>1, <1>2, <2>1, <2>5, <2>7 DEF TableIsOpen
  <2>9. GapInv' /\ OverrunOnlyWhenFull'
    BY <2>1 DEF GapInv, OverrunOnlyWhenFull
  <2>10. CloseInv' /\ MisclosedOnlyAfterFailedSend'
    BY <1>2, <2>1 DEF CloseInv, MisclosedOnlyAfterFailedSend, SomeFailed
  <2> QED BY <1>3, <2>3, <2>4, <2>8, <2>9, <2>10
<1>5. CASE ~(nfds < MaxFds)
  <2>1. pc' = "overrun" /\ nfds = MaxFds /\ open' = open \cup {c} /\ UNCHANGED <<fds, nfds>>
    BY <1>5
  <2>2. IsFiniteSet(open) /\ Cardinality(open) = MaxFds
    BY <1>2, <2>1, PolledCounts
  <2>3. /\ IsFiniteSet(open \ {Listener})
        /\ Cardinality(open \ {Listener}) = MaxFds - 1
    BY <1>2, <2>2, FS_RemoveElement
  <2>4. Cardinality((open \ {Listener}) \cup {c}) = MaxFds
    <3>1. c \notin open \ {Listener}
      BY <1>1
    <3>2. Cardinality((open \ {Listener}) \cup {c}) = MaxFds - 1 + 1
      BY <2>3, <3>1, FS_AddElement
    <3> QED BY <3>2
  <2>5. open' \ {Listener} = (open \ {Listener}) \cup {c}
    BY <1>1, <2>1
  <2>6. OverrunOnlyWhenFull'
    BY <2>4, <2>5 DEF OverrunOnlyWhenFull
  <2>7. TypeOK' /\ ScanInv' /\ GapInv'
    BY <1>1, <2>1 DEF ScanInv, GapInv
  <2>8. CloseInv' /\ MisclosedOnlyAfterFailedSend' /\ TableIsOpen'
    BY <1>2, <2>1 DEF CloseInv, MisclosedOnlyAfterFailedSend, SomeFailed, TableIsOpen
  <2> QED BY <1>3, <2>6, <2>7, <2>8
<1> QED BY <1>4, <1>5

LEMMA ServeIInv ==
    ASSUME IInv, Recv \/ Send \/ SendFails \/ SendKills
    PROVE  IInv'
<1> USE PoolAssumption DEF IInv, TypeOK
<1>1. CASE Recv
  <2> USE <1>1 DEF Recv
  <2>1. fds[i] \in Clients /\ fds[i] \in open
    BY DEF ScanInv, QueueInv
  <2>2. TypeOK' /\ ScanInv' /\ GapInv'
    BY <2>1 DEF ScanInv, GapInv
  <2>3. QueueInv'
    BY <2>1 DEF QueueInv
  <2>4. CloseInv' /\ MisclosedOnlyAfterFailedSend'
    BY DEF CloseInv, MisclosedOnlyAfterFailedSend, SomeFailed
  <2>5. TableIsOpen' /\ OverrunOnlyWhenFull'
    BY DEF TableIsOpen, Polled, OverrunOnlyWhenFull
  <2> QED BY <2>2, <2>3, <2>4, <2>5
<1>2. CASE Send
  <2> USE <1>2 DEF Send, kernel
  <2>1. fds[i] \in Clients /\ fds[i] # sd
    BY DEF ScanInv
  <2>2. TypeOK' /\ ScanInv' /\ GapInv' /\ QueueInv'
    BY <2>1 DEF ScanInv, GapInv, QueueInv
  <2>3. sd # NoFd /\ sd \notin open => SomeFailed'
    BY <2>1 DEF CloseInv, SomeFailed, ScanInv, TableIsOpen, Polled
  <2>4. CloseInv' /\ MisclosedOnlyAfterFailedSend'
    BY <2>1, <2>3 DEF CloseInv, MisclosedOnlyAfterFailedSend
  <2>5. TableIsOpen' /\ OverrunOnlyWhenFull'
    BY DEF TableIsOpen, Polled, OverrunOnlyWhenFull
  <2> QED BY <2>2, <2>4, <2>5
<1>3. CASE SendFails
  <2> USE <1>3 DEF SendFails, kernel
  <2>1. fds[i] \in Clients /\ reply'[fds[i]] = "failed"
    BY DEF ScanInv
  <2>2. TypeOK' /\ ScanInv' /\ GapInv' /\ QueueInv'
    BY <2>1 DEF ScanInv, GapInv, QueueInv
  <2>3. CloseInv' /\ MisclosedOnlyAfterFailedSend'
    BY <2>1 DEF CloseInv, MisclosedOnlyAfterFailedSend, SomeFailed
  <2>4. TableIsOpen' /\ OverrunOnlyWhenFull'
    BY DEF TableIsOpen, Polled, OverrunOnlyWhenFull
  <2> QED BY <2>2, <2>3, <2>4
<1>4. CASE SendKills
  <2> USE <1>4 DEF SendKills, kernel
  <2>1. TypeOK' /\ ScanInv' /\ GapInv' /\ QueueInv'
    BY DEF ScanInv, GapInv, QueueInv
  <2>2. CloseInv' /\ MisclosedOnlyAfterFailedSend'
    BY DEF CloseInv, MisclosedOnlyAfterFailedSend, SomeFailed
  <2>3. TableIsOpen' /\ OverrunOnlyWhenFull'
    BY DEF TableIsOpen, OverrunOnlyWhenFull
  <2> QED BY <2>1, <2>2, <2>3
<1> QED BY <1>1, <1>2, <1>3, <1>4

LEMMA CloseEntryIInv ==
    ASSUME IInv, CloseEntry
    PROVE  IInv'
<1> USE PoolAssumption DEF IInv, TypeOK, CloseEntry, Close, kernel
<1>1. /\ i \in 0 .. nfds - 1 /\ i \in Entries /\ fds[i] \in open /\ fds[i] # NoFd
  BY DEF ScanInv, Entries
<1>2. /\ fds'[i] = NoFd /\ open' = open \ {fds[i]} /\ misclosed' = misclosed
      /\ \A n \in 0 .. nfds - 1 : n # i => fds'[n] = fds[n]
  BY <1>1 DEF Entries
<1>3. sd # NoFd
  BY <1>1 DEF QueueInv
<1>4. NoFd \notin Polled
  BY <1>3 DEF TableIsOpen
<1>5. Polled' = (Polled \ {fds[i]}) \cup {NoFd}
  BY <1>1, <1>2 DEF Polled, TableIsOpen
<1>6. TableIsOpen'
  BY <1>1, <1>2, <1>4, <1>5 DEF TableIsOpen, Polled
<1>7. TypeOK' /\ ScanInv' /\ GapInv' /\ OverrunOnlyWhenFull'
  BY <1>1, <1>2 DEF ScanInv, GapInv, OverrunOnlyWhenFull
<1>8. QueueInv'
  BY <1>2 DEF QueueInv
<1>9. CloseInv' /\ MisclosedOnlyAfterFailedSend'
  BY <1>2 DEF CloseInv, MisclosedOnlyAfterFailedSend, SomeFailed
<1> QED BY <1>6, <1>7, <1>8, <1>9

\* Closing a gap takes the entry of -1 out of the array and nothing else.
LEMMA CompressIInv ==
    ASSUME IInv, Compress
    PROVE  IInv'
<1> USE PoolAssumption DEF IInv, TypeOK, Compress, kernel
<1>1. CASE fds[i] = NoFd
  <2> DEFINE last == nfds - 2
  <2>1. /\ i \in 0 .. nfds - 1 /\ nfds' = nfds - 1 /\ i' = i /\ pc' = "compress"
        /\ open' = open /\ sd' = sd
    BY <1>1
  <2>2. \A n \in 0 .. last : fds'[n] = IF n < i THEN fds[n] ELSE fds[n + 1]
    BY <1>1 DEF Entries
  <2>3. \A m, n \in 0 .. last : fds'[m] = fds'[n] => m = n
    <3> SUFFICES ASSUME NEW m \in 0 .. last, NEW n \in 0 .. last, fds'[m] = fds'[n]
                 PROVE  m = n
      OBVIOUS
    <3> DEFINE at(k) == IF k < i THEN k ELSE k + 1
    <3>1. /\ at(m) \in 0 .. nfds - 1 /\ at(n) \in 0 .. nfds - 1
          /\ fds[at(m)] = fds[at(n)]
      BY <2>1, <2>2
    <3>2. at(m) = at(n)
      BY <3>1 DEF TableIsOpen
    <3> QED BY <2>1, <3>2
  <2>4. Polled' = Polled \ {NoFd}
    <3>1. ASSUME NEW n \in 0 .. last PROVE fds'[n] \in Polled \ {NoFd}
      <4>1. CASE n < i
        BY <1>1, <2>1, <2>2, <4>1 DEF Polled, TableIsOpen
      <4>2. CASE ~(n < i)
        BY <1>1, <2>1, <2>2, <4>2, n + 1 \in 0 .. nfds - 1 DEF Polled, TableIsOpen
      <4> QED BY <4>1, <4>2
    <3>2. ASSUME NEW n \in 0 .. nfds - 1, fds[n] # NoFd
          PROVE  \E m \in 0 .. last : fds'[m] = fds[n]
      <4>1. CASE n < i
        BY <2>1, <2>2, <4>1, n \in 0 .. last
      <4>2. CASE n > i
        <5>1. n - 1 \in 0 .. last /\ ~(n - 1 < i) /\ (n - 1) + 1 = n
          BY <2>1, <4>2
        <5>2. fds'[n - 1] = fds[n]
          BY <5>1, <2>2
        <5> QED BY <5>1, <5>2
      <4> QED BY <1>1, <2>1, <3>2, <4>1, <4>2
    <3> QED BY <2>1, <3>1, <3>2 DEF Polled
  <2>5. TableIsOpen'
    BY <2>1, <2>3, <2>4 DEF TableIsOpen
  <2>6. TypeOK'
    <3>1. fds' \in [Entries -> Clients \cup {Listener, Stdin, NoFd}]
      <4>1. \A n \in i .. nfds - 2 : n + 1 \in Entries
        BY DEF Entries
      <4> QED BY <1>1, <4>1
    <3> QED BY <1>1, <2>1, <3>1
  <2>7. GapInv'
    <3>1. \A n \in 0 .. i - 1 : fds'[n] = fds[n]
      BY <2>1, <2>2
    <3> QED BY <2>1, <3>1 DEF GapInv
  <2>8. ScanInv' /\ QueueInv' /\ OverrunOnlyWhenFull'
    BY <1>1 DEF ScanInv, QueueInv, OverrunOnlyWhenFull
  <2>9. CloseInv' /\ MisclosedOnlyAfterFailedSend'
    BY <1>1 DEF CloseInv, MisclosedOnlyAfterFailedSend, SomeFailed
  <2> QED BY <2>5, <2>6, <2>7, <2>8, <2>9
<1>2. CASE fds[i] # NoFd
  <2>1. i' = i + 1 /\ UNCHANGED <<fds, nfds, pc, open, sd>>
    BY <1>2
  <2>2. Polled' = Polled
    BY <2>1 DEF Polled
  <2>3. TableIsOpen' /\ OverrunOnlyWhenFull'
    BY <2>1, <2>2 DEF TableIsOpen, OverrunOnlyWhenFull
  <2>4. TypeOK' /\ ScanInv' /\ QueueInv'
    BY <1>2 DEF ScanInv, QueueInv
  <2>5. GapInv'
    BY <1>2 DEF GapInv
  <2>6. CloseInv' /\ MisclosedOnlyAfterFailedSend'
    BY <1>2 DEF CloseInv, MisclosedOnlyAfterFailedSend, SomeFailed
  <2> QED BY <2>3, <2>4, <2>5, <2>6
<1> QED BY <1>1, <1>2

LEMMA EndIInv ==
    ASSUME IInv, CompressDone \/ CloseListener
    PROVE  IInv'
<1> USE PoolAssumption DEF IInv, TypeOK, kernel
<1>1. CASE CompressDone
  <2> USE <1>1 DEF CompressDone
  <2>1. NoFd \notin Polled
    BY DEF GapInv, Polled
  <2>2. TableIsOpen'
    BY <2>1 DEF TableIsOpen, Polled
  <2>3. TypeOK' /\ ScanInv' /\ GapInv' /\ QueueInv' /\ OverrunOnlyWhenFull'
    BY DEF ScanInv, GapInv, QueueInv, OverrunOnlyWhenFull
  <2>4. CloseInv' /\ MisclosedOnlyAfterFailedSend'
    BY DEF CloseInv, MisclosedOnlyAfterFailedSend, SomeFailed
  <2> QED BY <2>2, <2>3, <2>4
<1>2. CASE CloseListener
  <2> USE <1>2 DEF CloseListener, Close
  <2>1. TypeOK' /\ ScanInv' /\ GapInv' /\ QueueInv'
    BY DEF ScanInv, GapInv, QueueInv
  <2>2. TableIsOpen' /\ OverrunOnlyWhenFull'
    BY DEF TableIsOpen, OverrunOnlyWhenFull
  <2>3. CloseInv' /\ MisclosedOnlyAfterFailedSend'
    BY DEF CloseInv, MisclosedOnlyAfterFailedSend, SomeFailed
  <2> QED BY <2>1, <2>2, <2>3
<1> QED BY <1>1, <1>2

LEMMA ClientIInv ==
    ASSUME IInv, NEW c \in Clients, Client(c)
    PROVE  IInv'
<1> USE PoolAssumption DEF IInv, TypeOK, Client, server
<1>1. link' \in [Clients -> {"none", "quiet", "data", "eof", "reset"}]
  BY DEF Connect, Move, Read
<1>2. queue' \subseteq Clients /\ clogged' \subseteq Clients
  BY DEF Connect, Move, Read
<1>3. QueueInv'
  <2>1. CASE Connect(c)
    <3>1. link[c] = "none" /\ Listener \in open /\ queue' = queue \cup {c}
      BY <2>1 DEF Connect
    <3>2. link'[c] = "quiet" /\ \A d \in Clients : d # c => link'[d] = link[d]
      BY <2>1 DEF Connect
    <3>3. c \notin open
      BY <3>1 DEF QueueInv
    <3>4. UNCHANGED <<open, sd, pc>>
      OBVIOUS
    <3> QED BY <3>1, <3>2, <3>3, <3>4 DEF QueueInv
  <2>2. CASE ~Connect(c)
    <3>1. queue' = queue
      BY <2>2 DEF Move, Read
    <3>2. \A d \in Clients : link'[d] = "none" => link[d] = "none"
      BY <2>2 DEF Move, Read
    <3>3. UNCHANGED <<open, sd>>
      OBVIOUS
    <3> QED BY <3>1, <3>2, <3>3 DEF QueueInv
  <2> QED BY <2>1, <2>2
<1>4. TypeOK' /\ ScanInv' /\ GapInv'
  BY <1>1, <1>2 DEF ScanInv, GapInv
<1>5. TableIsOpen' /\ OverrunOnlyWhenFull'
  BY DEF TableIsOpen, Polled, OverrunOnlyWhenFull
<1>6. \A d \in Clients : link[d] = "reset" => link'[d] = "reset"
  BY DEF Connect, Move, Read
<1>7. CloseInv' /\ MisclosedOnlyAfterFailedSend'
  BY <1>6 DEF CloseInv, MisclosedOnlyAfterFailedSend, SomeFailed
<1> QED BY <1>3, <1>4, <1>5, <1>7

LEMMA StutterIInv == IInv /\ UNCHANGED vars => IInv'
BY DEF vars, server, kernel, IInv, TypeOK, ScanInv, GapInv, QueueInv, CloseInv,
       TableIsOpen, Polled, OverrunOnlyWhenFull, MisclosedOnlyAfterFailedSend,
       SomeFailed

LEMMA Inductive == Spec => []IInv
<1>1. IInv /\ [Next]_vars => IInv'
  BY RoundsIInv, ListenIInv, AcceptIInv, ServeIInv, CloseEntryIInv, CompressIInv,
     EndIInv, ClientIInv, StutterIInv DEF Next, Server
<1> QED BY <1>1, InitIInv, PTL DEF Spec

\* The type invariant.
THEOREM TypeCorrect == Spec => []TypeOK
BY Inductive, PTL DEF IInv

\* At any size of fds, the polled entries are exactly the open descriptors.
THEOREM DescriptorsAreKept == Spec => []TableIsOpen
BY Inductive, PTL DEF IInv

\* The array is overrun by the connection after the last one that fits, and
\* by no earlier one.
THEOREM OverrunNeedsFullArray == Spec => []OverrunOnlyWhenFull
BY Inductive, PTL DEF IInv

\* No descriptor is closed twice unless a send() failed, and then only the
\* listening socket.
THEOREM ClosedOnce == Spec => []MisclosedOnlyAfterFailedSend
BY Inductive, PTL DEF IInv

-----------------------------------------------------------------------------
(* Progress, as far as it is safety                                        *)

\* No place of main() has more steps in one round.
RoundSteps == 2 * MaxFds + 2

InRounds(n) == n * RoundSteps

\* The steps main() may still take in the rounds it has left.
RoundsLeft == InRounds(Rounds - l) + (MaxFds - nfds)

StepsLeft ==
    CASE pc = "poll" ->
            RoundsLeft + 2 * MaxFds + 4
      [] pc = "scan" ->
            RoundsLeft - RoundSteps + 2 * (size - i) + 1 + 2 * MaxFds + 4
      [] pc \in {"accept", "send"} ->
            RoundsLeft - RoundSteps + 2 * (size - i) + 2 * MaxFds + 4
      [] pc = "close" -> 2 * MaxFds + 3
      [] pc = "compress" -> 2 * nfds - i + 2
      [] pc = "end" -> 1
      [] OTHER -> 0

\* main() loops for ever in no loop, whatever its clients do and whichever
\* call fails: each of its steps lowers one bound, accepting a connection and
\* closing a gap, which change the end the loops run to, included, and no
\* step of a client raises it.
MainGetsOn ==
    [][ /\ Server => StepsLeft' < StepsLeft /\ StepsLeft' \in Nat
        /\ (\E c \in Clients : Client(c)) => StepsLeft' = StepsLeft ]_vars

\* Where main() goes on whatever its clients do, but for the send() that
\* waits for one (Blocked), which is then a client that is connected: it is
\* past no end that a loop compares its index with.
MainIsNotBlocked ==
    /\ Blocked => fds[i] \in Clients /\ fds[i] \in open
    /\ pc = "poll" => (l < Rounds \/ l = Rounds)
    /\ pc = "scan" => (i = size \/ (i < size /\ i \in Entries))
    /\ pc \in {"accept", "send", "close"} => i < size /\ i \in Entries
    /\ pc = "compress" => (i = nfds \/ (i < nfds /\ i \in Entries))

\* A round is one round less.
LEMMA RoundFacts ==
    ASSUME IInv
    PROVE  /\ l \in Int /\ i \in Int /\ nfds \in Int /\ size \in Int /\ MaxFds \in Int
           /\ 0 <= i /\ i <= MaxFds /\ 0 <= nfds /\ nfds <= MaxFds
           /\ 0 <= size /\ size <= MaxFds
           /\ RoundSteps = 2 * MaxFds + 2
           /\ InRounds(Rounds - l) \in Nat
           /\ l < Rounds => InRounds(Rounds - l) >= RoundSteps
           /\ InRounds(Rounds - (l + 1)) = InRounds(Rounds - l) - RoundSteps
<1>1. /\ l \in Nat /\ i \in Nat /\ nfds \in Nat /\ size \in Nat /\ MaxFds \in Nat
      /\ Rounds \in Nat /\ l <= Rounds
      /\ i <= MaxFds /\ nfds <= MaxFds /\ size <= MaxFds
  BY PoolAssumption DEF IInv, TypeOK
<1>2. RoundSteps \in Nat /\ RoundSteps = 2 * MaxFds + 2
  BY <1>1 DEF RoundSteps
<1> DEFINE r == Rounds - l
<1>3. r \in Nat /\ Rounds - (l + 1) = r - 1 /\ (l < Rounds => r >= 1)
  BY <1>1
<1> HIDE DEF r
<1>4. /\ r * RoundSteps \in Nat
      /\ r >= 1 => r * RoundSteps >= RoundSteps
      /\ (r - 1) * RoundSteps = r * RoundSteps - RoundSteps
  BY <1>2, <1>3
<1> QED BY <1>1, <1>2, <1>3, <1>4 DEF r, InRounds

LEMMA RoundsGoOn ==
    ASSUME IInv, Poll \/ LastRound \/ SkipEntry \/ ScanDone \/ ExitOnError
    PROVE  StepsLeft' < StepsLeft /\ StepsLeft' \in Nat
<1> DEFINE R == InRounds(Rounds - l)
<1>1. UNCHANGED <<nfds, RoundSteps>>
  BY DEF Poll, LastRound, SkipEntry, ScanDone, ExitOnError, RoundSteps
<1>2. CASE Poll
  <2>1. /\ pc = "poll" /\ pc' = "scan" /\ l < Rounds /\ l' = l
        /\ i' = 0 /\ size' = nfds
    BY <1>2 DEF Poll
  <2>2. StepsLeft = R + (MaxFds - nfds) + 2 * MaxFds + 4
    BY <2>1 DEF StepsLeft, RoundsLeft
  <2>3. StepsLeft' = (R + (MaxFds - nfds)) - RoundSteps + 2 * (nfds - 0) + 1 + 2 * MaxFds + 4
    BY <1>1, <2>1 DEF StepsLeft, RoundsLeft
  <2> HIDE DEF R
  <2> QED BY <2>1, <2>2, <2>3, RoundFacts DEF R
<1>3. CASE LastRound
  <2>1. pc = "poll" /\ pc' = "end"
    BY <1>3 DEF LastRound
  <2>2. StepsLeft = R + (MaxFds - nfds) + 2 * MaxFds + 4 /\ StepsLeft' = 1
    BY <2>1 DEF StepsLeft, RoundsLeft
  <2> HIDE DEF R
  <2> QED BY <2>2, RoundFacts DEF R
<1>4. CASE SkipEntry
  <2>1. /\ pc = "scan" /\ pc' = "scan" /\ l' = l /\ i' = i + 1 /\ size' = size
        /\ i < size /\ l < Rounds
    BY <1>4 DEF SkipEntry, IInv, ScanInv
  <2>2. StepsLeft = (R + (MaxFds - nfds)) - RoundSteps + 2 * (size - i) + 1 + 2 * MaxFds + 4
    BY <2>1 DEF StepsLeft, RoundsLeft
  <2>3. StepsLeft' = (R + (MaxFds - nfds)) - RoundSteps + 2 * (size - (i + 1)) + 1 + 2 * MaxFds + 4
    BY <1>1, <2>1 DEF StepsLeft, RoundsLeft
  <2> HIDE DEF R
  <2> QED BY <2>1, <2>2, <2>3, RoundFacts DEF R
<1>5. CASE ScanDone
  <2>1. pc = "scan" /\ pc' = "poll" /\ l' = l + 1 /\ i = size /\ l < Rounds
    BY <1>5 DEF ScanDone, IInv, ScanInv
  <2>2. StepsLeft = (R + (MaxFds - nfds)) - RoundSteps + 2 * (size - i) + 1 + 2 * MaxFds + 4
    BY <2>1 DEF StepsLeft, RoundsLeft
  <2>3. StepsLeft' = InRounds(Rounds - (l + 1)) + (MaxFds - nfds) + 2 * MaxFds + 4
    BY <1>1, <2>1 DEF StepsLeft, RoundsLeft
  <2> HIDE DEF R
  <2> QED BY <2>1, <2>2, <2>3, RoundFacts DEF R
<1>6. CASE ExitOnError
  <2>1. /\ pc' = "exited" /\ l < Rounds
        /\ pc \in {"poll", "scan", "accept"} /\ (pc # "poll" => i <= size)
    BY <1>6 DEF ExitOnError, IInv, ScanInv
  <2>2. StepsLeft' = 0
    BY <2>1 DEF StepsLeft
  <2>3. \/ StepsLeft = R + (MaxFds - nfds) + 2 * MaxFds + 4
        \/ i <= size /\ StepsLeft =
              (R + (MaxFds - nfds)) - RoundSteps + 2 * (size - i) + 1 + 2 * MaxFds + 4
        \/ i <= size /\ StepsLeft =
              (R + (MaxFds - nfds)) - RoundSteps + 2 * (size - i) + 2 * MaxFds + 4
    BY <2>1 DEF StepsLeft, RoundsLeft
  <2> HIDE DEF R
  <2> QED BY <2>1, <2>2, <2>3, RoundFacts DEF R
<1> QED BY <1>2, <1>3, <1>4, <1>5, <1>6

\* A new connection takes one of the free entries.
LEMMA ListenGoesOn ==
    ASSUME IInv, StartAccepting \/ NothingToAccept \/ (\E c \in queue : Accept(c))
    PROVE  StepsLeft' < StepsLeft /\ StepsLeft' \in Nat
<1> DEFINE R == InRounds(Rounds - l)
           Rest == R - RoundSteps + 2 * (size - i) + 2 * MaxFds + 4
<1>1. UNCHANGED <<l, size, RoundSteps>>
  BY DEF StartAccepting, NothingToAccept, Accept, RoundSteps
<1>2. pc \in {"scan", "accept"} /\ l < Rounds /\ i < size
  BY DEF StartAccepting, NothingToAccept, Accept, IInv, ScanInv
<1>3. /\ pc = "scan" => StepsLeft = Rest + (MaxFds - nfds) + 1
      /\ pc = "accept" => StepsLeft = Rest + (MaxFds - nfds)
  <2>1. Rest \in Int
    BY RoundFacts
  <2> QED BY <1>2, <2>1, RoundFacts DEF StepsLeft, RoundsLeft
<1>4. Rest \in Int /\ Rest >= 2 * MaxFds + 6
  <2> HIDE DEF R
  <2> QED BY <1>2, RoundFacts DEF R
<1>5. CASE StartAccepting
  <2>1. pc = "scan" /\ pc' = "accept" /\ UNCHANGED <<i, nfds>>
    BY <1>5 DEF StartAccepting
  <2>2. StepsLeft' = Rest + (MaxFds - nfds)
    BY <1>1, <2>1, RoundFacts DEF StepsLeft, RoundsLeft
  <2> HIDE DEF Rest
  <2> QED BY <1>3, <1>4, <2>1, <2>2, RoundFacts
<1>6. CASE NothingToAccept
  <2>1. pc = "accept" /\ nfds' = nfds
    BY <1>6 DEF NothingToAccept
  <2>2. CASE pc' = "close"
    <3>1. StepsLeft' = 2 * MaxFds + 3
      BY <2>2 DEF StepsLeft
    <3> HIDE DEF Rest
    <3> QED BY <1>3, <1>4, <2>1, <3>1, RoundFacts
  <2>3. CASE pc' = "scan"
    <3>1. i' = i + 1
      BY <1>6, <2>3 DEF NothingToAccept
    <3>2. StepsLeft' = (R + (MaxFds - nfds)) - RoundSteps + 2 * (size - (i + 1)) + 1
                         + 2 * MaxFds + 4
      BY <1>1, <2>1, <2>3, <3>1 DEF StepsLeft, RoundsLeft
    <3>3. StepsLeft' = Rest + (MaxFds - nfds) - 1
      <4> HIDE DEF R
      <4> QED BY <3>2, RoundFacts DEF R
    <3> HIDE DEF Rest
    <3> QED BY <1>3, <1>4, <2>1, <3>3, RoundFacts
  <2> QED BY <1>6, <2>2, <2>3 DEF NothingToAccept
<1>7. ASSUME NEW c \in queue, Accept(c)
      PROVE  StepsLeft' < StepsLeft /\ StepsLeft' \in Nat
  <2>1. pc = "accept" /\ i' = i
    BY <1>7 DEF Accept
  <2>2. CASE nfds < MaxFds
    <3>1. pc' = "accept" /\ nfds' = nfds + 1
      BY <1>7, <2>2 DEF Accept
    <3>2. StepsLeft' = Rest + (MaxFds - (nfds + 1))
      BY <1>1, <2>1, <3>1, RoundFacts DEF StepsLeft, RoundsLeft
    <3> HIDE DEF Rest
    <3> QED BY <1>3, <1>4, <2>1, <2>2, <3>2, RoundFacts
  <2>3. CASE ~(nfds < MaxFds)
    <3>1. pc' = "overrun"
      BY <1>7, <2>3 DEF Accept
    <3>2. StepsLeft' = 0
      BY <3>1 DEF StepsLeft
    <3> HIDE DEF Rest
    <3> QED BY <1>3, <1>4, <2>1, <3>2, RoundFacts
  <2> QED BY <2>2, <2>3
<1> QED BY <1>5, <1>6, <1>7

\* A failed send() is the end of its round, a good one of the last round.
LEMMA ServeGoesOn ==
    ASSUME IInv, Recv \/ Send \/ SendFails \/ SendKills
    PROVE  StepsLeft' < StepsLeft /\ StepsLeft' \in Nat
<1> DEFINE R == InRounds(Rounds - l)
           Rest == (R + (MaxFds - nfds)) - RoundSteps + 2 * (size - i) + 2 * MaxFds + 4
<1>1. UNCHANGED <<i, nfds, size, RoundSteps>>
  BY DEF Recv, Send, SendFails, SendKills, RoundSteps
<1>2. pc \in {"scan", "send"} /\ l < Rounds /\ i < size
  BY DEF Recv, Send, SendFails, SendKills, IInv, ScanInv
<1>3. /\ pc = "scan" => StepsLeft = Rest + 1
      /\ pc = "send" => StepsLeft = Rest
  BY <1>2, RoundFacts DEF StepsLeft, RoundsLeft
<1>4. Rest \in Int /\ Rest >= 2 * MaxFds + 6
  <2> HIDE DEF R
  <2> QED BY <1>2, RoundFacts DEF R
<1>5. CASE Recv
  <2>1. pc = "scan" /\ pc' = "send" /\ l' = l
    BY <1>5 DEF Recv
  <2>2. StepsLeft' = Rest
    BY <1>1, <2>1 DEF StepsLeft, RoundsLeft
  <2> HIDE DEF Rest
  <2> QED BY <1>3, <1>4, <2>1, <2>2, RoundFacts
<1>6. CASE Send \/ SendKills
  <2>1. pc = "send" /\ pc' \in {"close", "killed"}
    BY <1>6 DEF Send, SendKills
  <2>2. StepsLeft' \in {0, 2 * MaxFds + 3}
    BY <2>1 DEF StepsLeft
  <2> HIDE DEF Rest
  <2> QED BY <1>3, <1>4, <2>1, <2>2, RoundFacts
<1>7. CASE SendFails
  <2>1. pc = "send" /\ pc' = "poll" /\ l' = l + 1
    BY <1>7 DEF SendFails
  <2>2. StepsLeft' = InRounds(Rounds - (l + 1)) + (MaxFds - nfds) + 2 * MaxFds + 4
    BY <1>1, <2>1 DEF StepsLeft, RoundsLeft
  <2>3. StepsLeft' = Rest - 2 * (size - i)
    <3> HIDE DEF R
    <3> QED BY <2>2, RoundFacts DEF R
  <2>4. StepsLeft' >= 2 * MaxFds + 4
    <3> HIDE DEF R
    <3> QED BY <1>2, <2>3, RoundFacts DEF R
  <2> HIDE DEF Rest
  <2> QED BY <1>2, <1>3, <1>4, <2>1, <2>3, <2>4, RoundFacts
<1> QED BY <1>5, <1>6, <1>7

\* Closing a gap lowers the number of entries and leaves the index.
LEMMA CloseGoesOn ==
    ASSUME IInv, CloseEntry \/ Compress \/ CompressDone \/ CloseListener
    PROVE  StepsLeft' < StepsLeft /\ StepsLeft' \in Nat
<1>1. CASE CloseEntry
  <2>1. pc = "close" /\ pc' = "compress" /\ i' = 0 /\ nfds' = nfds
    BY <1>1 DEF CloseEntry
  <2>2. StepsLeft = 2 * MaxFds + 3 /\ StepsLeft' = 2 * nfds - 0 + 2
    BY <2>1 DEF StepsLeft
  <2> QED BY <2>2, RoundFacts
<1>2. CASE Compress
  <2>1. /\ pc = "compress" /\ pc' = "compress" /\ i < nfds
        /\ \/ nfds' = nfds - 1 /\ i' = i
           \/ nfds' = nfds /\ i' = i + 1
    BY <1>2 DEF Compress
  <2>2. StepsLeft = 2 * nfds - i + 2 /\ StepsLeft' = 2 * nfds' - i' + 2
    BY <2>1 DEF StepsLeft
  <2> QED BY <2>1, <2>2, RoundFacts
<1>3. CASE CompressDone
  <2>1. pc = "compress" /\ pc' = "end" /\ i = nfds
    BY <1>3 DEF CompressDone
  <2>2. StepsLeft = 2 * nfds - i + 2 /\ StepsLeft' = 1
    BY <2>1 DEF StepsLeft
  <2> QED BY <2>1, <2>2, RoundFacts
<1>4. CASE CloseListener
  <2>1. pc = "end" /\ pc' = "exited"
    BY <1>4 DEF CloseListener
  <2> QED BY <2>1 DEF StepsLeft
<1> QED BY <1>1, <1>2, <1>3, <1>4

\* The safety half of EndsUnlessBlocked, for any clients, entries and rounds.
THEOREM LoopsEnd == Spec => []MainIsNotBlocked /\ MainGetsOn
<1>1. IInv => MainIsNotBlocked
  <2>1. ASSUME IInv PROVE
           /\ l <= Rounds /\ l \in Int /\ Rounds \in Int
           /\ i \in Int /\ 0 <= i /\ size \in Int /\ size <= MaxFds
           /\ nfds \in Int /\ nfds <= MaxFds /\ MaxFds \in Int
           /\ pc \in {"scan", "accept", "send", "close"} => i <= size
           /\ pc \in {"accept", "send", "close"} => i < size
           /\ pc = "compress" => i <= nfds
           /\ pc = "send" => fds[i] \in Clients /\ fds[i] \in open
    BY <2>1, PoolAssumption DEF IInv, TypeOK, ScanInv, GapInv
  <2> QED BY <2>1 DEF MainIsNotBlocked, Blocked, Entries
<1>2. ASSUME IInv, Server PROVE StepsLeft' < StepsLeft /\ StepsLeft' \in Nat
  BY <1>2, RoundsGoOn, ListenGoesOn, ServeGoesOn, CloseGoesOn DEF Server
<1>3. ASSUME NEW c \in Clients, Client(c) PROVE StepsLeft' = StepsLeft
  BY <1>3 DEF Client, server, StepsLeft, RoundsLeft
<1>4. IInv /\ [Next]_vars =>
         /\ Server => StepsLeft' < StepsLeft /\ StepsLeft' \in Nat
         /\ (\E c \in Clients : Client(c)) => StepsLeft' = StepsLeft
  BY <1>2, <1>3
<1> QED BY <1>1, <1>4, Inductive, PTL DEF Spec, MainGetsOn

=============================================================================
