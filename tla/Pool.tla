-------------------------------- MODULE Pool --------------------------------
(***************************************************************************)
(* server/pool.c: main() polls a listening socket and the connections it   *)
(* has accepted, in at most four rounds, answers the first connection that *)
(* has something to read, closes it, removes it from the array fds and     *)
(* ends.  Clients come, write, close and reset at any time, also between   *)
(* poll() and the use of its result, and need not read what they are sent. *)
(***************************************************************************)
EXTENDS Integers, FiniteSets

CONSTANTS Clients,
          Listener,     \* the descriptor create_socket() returns
          Stdin,        \* descriptor 0, what memset() leaves in unused entries
          NoFd,         \* -1
          MaxFds,       \* entries of fds, 5 in the code
          Rounds        \* calls of poll(), 4 in the code

ASSUME PoolAssumption ==
    /\ MaxFds \in Nat \ {0} /\ Rounds \in Nat
    /\ {Listener, Stdin, NoFd} \cap Clients = {}
    /\ Listener # Stdin /\ Listener # NoFd /\ Stdin # NoFd

Entries == 0 .. MaxFds - 1

VARIABLES
    pc,         \* where main() is
    sd,         \* the listening socket; create_socket() may have failed
    l, i,       \* the round, the index into fds
    nfds, size, \* nfds and current_size
    fds,        \* fds[n].fd
    revents,    \* fds[n].revents: nothing, POLLIN alone, or anything else
    closeConn,  \* close_conn
    open,       \* the descriptors main() has open
    misclosed,  \* the descriptors passed to close() when not open
    link,       \* link[c]: the connection as the kernel sees it
    queue,      \* connections that wait for accept()
    clogged,    \* connections the answer does not fit in until the client reads
    reply       \* reply[c]: what became of the send() to c

server == <<pc, sd, l, i, nfds, size, fds, revents, closeConn>>
kernel == <<link, queue, clogged>>
vars == <<server, open, misclosed, kernel, reply>>

Init ==
    /\ pc = "poll"
    /\ sd \in {Listener, NoFd}
    /\ l = 0 /\ i = 0 /\ nfds = 1 /\ size = 0
    /\ fds = [n \in Entries |-> IF n = 0 THEN sd ELSE Stdin]
    /\ revents = [n \in Entries |-> "none"]
    /\ closeConn = FALSE
    /\ open = {sd} \ {NoFd}
    /\ misclosed = {}
    /\ link = [c \in Clients |-> "none"]
    /\ queue = {}
    /\ clogged = {}
    /\ reply = [c \in Clients |-> "none"]

Close(fd) ==
    /\ open' = open \ {fd}
    /\ misclosed' = IF fd \in open THEN misclosed ELSE misclosed \cup {fd}

-----------------------------------------------------------------------------
(* Rounds                                                                  *)

Event(fd) ==
    CASE fd = Listener /\ queue # {} -> "in"
      [] fd \in Clients /\ link[fd] \in {"data", "eof"} -> "in"
      [] fd \in Clients /\ link[fd] = "reset" -> "other"
      [] OTHER -> "none"

\* Wrong: l <= 4 in the condition of the loop.
PollOnceMore ==
    /\ pc = "poll" /\ l <= Rounds
    /\ revents' = [n \in Entries |-> IF n < nfds THEN Event(fds[n]) ELSE revents[n]]
    /\ pc' = "scan" /\ i' = 0 /\ size' = nfds
    /\ UNCHANGED <<sd, l, nfds, fds, closeConn, open, misclosed, kernel, reply>>

\* poll() returns what it finds, or nothing after 30 seconds.
Poll ==
    /\ pc = "poll" /\ l < Rounds
    /\ revents' = [n \in Entries |-> IF n < nfds THEN Event(fds[n]) ELSE revents[n]]
    /\ pc' = "scan" /\ i' = 0 /\ size' = nfds
    /\ UNCHANGED <<sd, l, nfds, fds, closeConn, open, misclosed, kernel, reply>>

LastRound ==
    /\ pc = "poll" /\ l = Rounds
    /\ pc' = "end"
    /\ UNCHANGED <<sd, l, i, nfds, size, fds, revents, closeConn>>
    /\ UNCHANGED <<open, misclosed, kernel, reply>>

SkipEntry ==
    /\ pc = "scan" /\ i < size
    /\ revents[i] = "none"
    /\ i' = i + 1
    /\ UNCHANGED <<pc, sd, l, nfds, size, fds, revents, closeConn>>
    /\ UNCHANGED <<open, misclosed, kernel, reply>>

ScanDone ==
    /\ pc = "scan" /\ i = size
    /\ pc' = "poll" /\ l' = l + 1
    /\ UNCHANGED <<sd, i, nfds, size, fds, revents, closeConn>>
    /\ UNCHANGED <<open, misclosed, kernel, reply>>

\* The calls of exit(-1): poll() or accept() failed, or revents is not POLLIN.
ExitOnError ==
    /\ \/ pc = "poll" /\ l < Rounds
       \/ pc = "accept"
       \/ pc = "scan" /\ i < size /\ revents[i] = "other"
    /\ pc' = "exited"
    /\ UNCHANGED <<sd, l, i, nfds, size, fds, revents, closeConn>>
    /\ UNCHANGED <<open, misclosed, kernel, reply>>

-----------------------------------------------------------------------------
(* The listening socket                                                    *)

StartAccepting ==
    /\ pc = "scan" /\ i < size
    /\ revents[i] = "in" /\ fds[i] = sd
    /\ pc' = "accept"
    /\ UNCHANGED <<sd, l, i, nfds, size, fds, revents, closeConn>>
    /\ UNCHANGED <<open, misclosed, kernel, reply>>

\* Wrong: the new connection overwrites the last entry.
AcceptIntoLast(c) ==
    /\ pc = "accept"
    /\ queue' = queue \ {c} /\ open' = open \cup {c}
    /\ fds' = [fds EXCEPT ![nfds - 1] = c]
    /\ UNCHANGED <<pc, sd, l, i, nfds, size, revents, closeConn, misclosed, link, clogged, reply>>

\* Wrong: the array counts as full when one entry is left.
AcceptRefusesLast(c) ==
    /\ pc = "accept"
    /\ queue' = queue \ {c} /\ open' = open \cup {c}
    /\ IF nfds < MaxFds - 1
       THEN fds' = [fds EXCEPT ![nfds] = c] /\ nfds' = nfds + 1 /\ UNCHANGED pc
       ELSE pc' = "overrun" /\ UNCHANGED <<fds, nfds>>
    /\ UNCHANGED <<sd, l, i, size, revents, closeConn, misclosed, link, clogged, reply>>

\* Nothing compares nfds with the size of fds: the connection after the one
\* that fills the array is written behind it.  What happens then is undefined.
Accept(c) ==
    /\ pc = "accept"
    /\ queue' = queue \ {c} /\ open' = open \cup {c}
    /\ IF nfds < MaxFds
       THEN fds' = [fds EXCEPT ![nfds] = c] /\ nfds' = nfds + 1 /\ UNCHANGED pc
       ELSE pc' = "overrun" /\ UNCHANGED <<fds, nfds>>
    /\ UNCHANGED <<sd, l, i, size, revents, closeConn, misclosed, link, clogged, reply>>

\* EWOULDBLOCK ends the loop; close_conn, which this branch has not set,
\* decides whether the listening socket is closed.
NothingToAccept ==
    /\ pc = "accept" /\ queue = {}
    /\ IF closeConn
       THEN pc' = "close" /\ UNCHANGED i
       ELSE pc' = "scan" /\ i' = i + 1
    /\ UNCHANGED <<sd, l, nfds, size, fds, revents, closeConn>>
    /\ UNCHANGED <<open, misclosed, kernel, reply>>

-----------------------------------------------------------------------------
(* A connection                                                            *)

Recv ==
    /\ pc = "scan" /\ i < size
    /\ revents[i] = "in" /\ fds[i] # sd
    /\ closeConn' = (link[fds[i]] \in {"eof", "reset"})
    /\ link' = [link EXCEPT ![fds[i]] = IF @ = "data" THEN "quiet" ELSE @]
    /\ pc' = "send"
    /\ UNCHANGED <<sd, l, i, nfds, size, fds, revents, open, misclosed, queue, clogged, reply>>

\* Wrong: main() does not remember that the connection is to be closed.
SendKeepsOpen ==
    /\ pc = "send" /\ link[fds[i]] # "reset" /\ fds[i] \notin clogged
    /\ reply' = [reply EXCEPT ![fds[i]] = "sent"]
    /\ pc' = "scan" /\ i' = i + 1 /\ closeConn' = TRUE
    /\ UNCHANGED <<sd, l, nfds, size, fds, revents, open, misclosed, kernel>>

\* The connection is a blocking socket: send() returns when the whole answer
\* is in its buffer, for which the client may have to read.
Send ==
    /\ pc = "send" /\ link[fds[i]] # "reset" /\ fds[i] \notin clogged
    /\ reply' = [reply EXCEPT ![fds[i]] = "sent"]
    /\ closeConn' = TRUE
    /\ pc' = "close"
    /\ UNCHANGED <<sd, l, i, nfds, size, fds, revents, open, misclosed, kernel>>

\* The break after a failed send() leaves the scan before the connection is
\* closed; close_conn stays set for the next round.
SendFails ==
    /\ pc = "send" /\ link[fds[i]] = "reset"
    /\ reply' = [reply EXCEPT ![fds[i]] = "failed"]
    /\ closeConn' = TRUE
    /\ pc' = "poll" /\ l' = l + 1
    /\ UNCHANGED <<sd, i, nfds, size, fds, revents, open, misclosed, kernel>>

\* SIGPIPE is not ignored.
SendKills ==
    /\ pc = "send" /\ link[fds[i]] = "reset"
    /\ pc' = "killed"
    /\ UNCHANGED <<sd, l, i, nfds, size, fds, revents, closeConn>>
    /\ UNCHANGED <<open, misclosed, kernel, reply>>

CloseEntry ==
    /\ pc = "close"
    /\ Close(fds[i])
    /\ fds' = [fds EXCEPT ![i] = NoFd]
    /\ pc' = "compress" /\ i' = 0
    /\ UNCHANGED <<sd, l, nfds, size, revents, closeConn, kernel, reply>>

\* Wrong: nfds is not decremented.
CompressKeepsCount ==
    /\ pc = "compress" /\ i < nfds
    /\ IF fds[i] = NoFd
       THEN /\ fds' = [n \in Entries |->
                         IF n \in i .. nfds - 2 THEN fds[n + 1] ELSE fds[n]]
            /\ UNCHANGED <<nfds, i>>
       ELSE i' = i + 1 /\ UNCHANGED <<fds, nfds>>
    /\ UNCHANGED <<pc, sd, l, size, revents, closeConn, open, misclosed, kernel, reply>>

\* One iteration of the loop that closes the gaps in fds.
Compress ==
    /\ pc = "compress" /\ i < nfds
    /\ IF fds[i] = NoFd
       THEN /\ fds' = [n \in Entries |->
                         IF n \in i .. nfds - 2 THEN fds[n + 1] ELSE fds[n]]
            /\ nfds' = nfds - 1
            /\ UNCHANGED i
       ELSE i' = i + 1 /\ UNCHANGED <<fds, nfds>>
    /\ UNCHANGED <<pc, sd, l, size, revents, closeConn, open, misclosed, kernel, reply>>

\* break leaves the loop over the rounds, too.
CompressDone ==
    /\ pc = "compress" /\ i = nfds
    /\ pc' = "end"
    /\ UNCHANGED <<sd, l, i, nfds, size, fds, revents, closeConn>>
    /\ UNCHANGED <<open, misclosed, kernel, reply>>

CloseListener ==
    /\ pc = "end"
    /\ Close(sd)
    /\ pc' = "exited"
    /\ UNCHANGED <<sd, l, i, nfds, size, fds, revents, closeConn, kernel, reply>>

Server ==
    \/ Poll \/ LastRound \/ SkipEntry \/ ScanDone \/ ExitOnError
    \/ StartAccepting \/ NothingToAccept \/ \E c \in queue : Accept(c)
    \/ Recv \/ Send \/ SendFails \/ SendKills
    \/ CloseEntry \/ Compress \/ CompressDone \/ CloseListener

-----------------------------------------------------------------------------
(* The clients                                                             *)

Stopped == pc \in {"exited", "killed", "overrun"}

Connect(c) ==
    /\ link[c] = "none" /\ Listener \in open
    /\ link' = [link EXCEPT ![c] = "quiet"]
    /\ queue' = queue \cup {c}
    /\ clogged' \in {clogged, clogged \cup {c}}

\* A client writes, closes its end, or resets the connection.
Move(c, from, to) ==
    /\ link[c] \in from
    /\ link' = [link EXCEPT ![c] = to]
    /\ UNCHANGED <<queue, clogged>>

\* The client reads, and there is room for the answer.  As main() sends one
\* answer to a client and nothing else, there stays room for it.
Read(c) ==
    /\ c \in clogged
    /\ clogged' = clogged \ {c}
    /\ UNCHANGED <<link, queue>>

Client(c) ==
    /\ ~Stopped
    /\ \/ Connect(c)
       \/ Move(c, {"quiet"}, "data")
       \/ Move(c, {"quiet", "data"}, "eof")
       \/ Move(c, {"quiet", "data", "eof"}, "reset")
       \/ Read(c)
    /\ UNCHANGED <<server, open, misclosed, reply>>

Next == Server \/ \E c \in Clients : Client(c)

Spec == Init /\ [][Next]_vars

\* The process is scheduled, poll() has a timeout, accept() does not block,
\* recv() is called when there is something to read.  send() may block.
FairSpec == Spec /\ WF_vars(Server)

-----------------------------------------------------------------------------
(* Properties                                                              *)

TypeOK ==
    /\ pc \in {"poll", "scan", "accept", "send", "close", "compress", "end",
               "exited", "killed", "overrun"}
    /\ sd \in {Listener, NoFd}
    /\ l \in 0 .. Rounds
    /\ nfds \in 0 .. MaxFds /\ size \in 0 .. MaxFds /\ i \in 0 .. MaxFds
    /\ fds \in [Entries -> Clients \cup {Listener, Stdin, NoFd}]
    /\ revents \in [Entries -> {"none", "in", "other"}]
    /\ closeConn \in BOOLEAN
    /\ open \subseteq Clients \cup {Listener}
    /\ misclosed \subseteq Clients \cup {Listener, NoFd}
    /\ link \in [Clients -> {"none", "quiet", "data", "eof", "reset"}]
    /\ queue \subseteq Clients /\ clogged \subseteq Clients
    /\ reply \in [Clients -> {"none", "sent", "failed"}]

Polled == {fds[n] : n \in 0 .. nfds - 1}

\* The entries of fds that are polled are all the descriptors main() has
\* open, each once: none is lost, listed twice or polled after its close(),
\* and the compression leaves no gap.
TableIsOpen ==
    pc \notin {"exited", "killed", "overrun"} =>
        /\ \A m, n \in 0 .. nfds - 1 : fds[m] = fds[n] => m = n
        /\ Polled \ {NoFd} = open
        /\ pc # "compress" /\ sd # NoFd => NoFd \notin Polled

\* fds is overrun only by a connection that comes while all its entries are
\* in use and none has been closed, that is by the MaxFds-th client.
OverrunOnlyWhenFull ==
    pc = "overrun" => Cardinality(open \ {Listener}) = MaxFds

\* A descriptor that is not open is passed to close() only if it is the
\* listening socket, and only because send() failed in an earlier round and
\* left close_conn set, or because there never was a listening socket.
MisclosedOnlyAfterFailedSend ==
    misclosed # {} =>
        /\ misclosed = {sd}
        /\ sd = NoFd \/ \E c \in Clients : reply[c] = "failed"

\* send() waits for a client that has not read, is still there and does not
\* reset the connection.
Blocked == pc = "send" /\ link[fds[i]] # "reset" /\ fds[i] \in clogged

\* main() ends, and never loops over the entries without end, unless one
\* client that does not read stops it: then it waits in send() for ever, and
\* in no other place does it wait for a client.
EndsUnlessBlocked == <>Stopped \/ <>[]Blocked

\* "Connection should be closed since this is just a test": when main()
\* polls again, or is about to end, it has closed the connections it served.
ServedAreClosed ==
    pc \in {"poll", "end"} =>
        \A c \in Clients : reply[c] # "none" => c \notin open

=============================================================================
