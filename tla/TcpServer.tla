----------------------------- MODULE TcpServer ------------------------------
(***************************************************************************)
(* The select loop of Network/TcpServer.cpp, on which the manager runs:    *)
(* one thread that accepts connections into the slots of clientSockets and *)
(* reads those select reports ready.                                       *)
(*                                                                         *)
(* A socket is a file descriptor, a number the kernel hands out lowest     *)
(* first and reuses.  Other threads of the process hold descriptors too    *)
(* (the brokers are TcpClients of the manager in the same process).        *)
(* select looks only at descriptors up to fdmax, except on Windows, where  *)
(* its first argument is ignored.  Two more things differ there: an fd_set *)
(* is a list that can be full, and a socket is an unsigned number, so that *)
(* the test "accept(...) < 0" never finds a failure: INVALID_SOCKET is     *)
(* stored like the socket of a connection.                                 *)
(***************************************************************************)
EXTENDS Integers, SequencesExt

CONSTANTS
    MaxClient,      \* slots
    Clients,        \* connections ever made
    MaxData,        \* bound: pieces of data a client sends
    MaxFd,          \* descriptors the process may have are 1 .. MaxFd
    MaxOther,       \* bound: descriptors other threads hold at a time
    FdSetSize,      \* FD_SETSIZE: sockets a Windows fd_set can hold, 64 by default
                    \* (the manager has 500 slots)
    Windows,        \* the platform; MaxFd is below FD_SETSIZE on the others
    None, Other

ASSUME TcpServerAssumption ==
    /\ MaxClient \in Nat \ {0}
    /\ MaxData \in Nat
    /\ MaxFd \in Nat \ {0}
    /\ MaxOther \in Nat
    /\ FdSetSize \in Nat \ {0}
    /\ Windows \in BOOLEAN
    /\ None \notin Clients /\ Other \notin Clients /\ None # Other

Slots == 0 .. MaxClient - 1
Empty == 0                  \* a slot without a socket
listener == 1               \* opened before the sockets of any connection
Fds == 2 .. MaxFd
Invalid == -1               \* INVALID_SOCKET

VARIABLES
    \* the clients and the kernel
    phase,          \* of each client: "new", "open", "closed" (its end is), or
                    \* "reset" (the connection broke)
    backlog,        \* clients waiting to be accepted
    owner,          \* of each descriptor: a client, Other, or None when free
    sent, got,      \* pieces each client has sent, and the server has read
    \* the server
    clientSockets, master, fdmax, readfds,
    pc,             \* "select", "accept", "scan", "halt"
    i               \* next slot of the scan

kernel == <<phase, backlog, owner, sent, got>>
server == <<clientSockets, master, fdmax, readfds, pc, i>>
vars == <<kernel, server>>

Init ==
    /\ phase = [c \in Clients |-> "new"]
    /\ backlog = <<>>
    /\ owner = [f \in Fds |-> None]
    /\ sent = [c \in Clients |-> 0]
    /\ got = [c \in Clients |-> 0]
    /\ clientSockets = [s \in Slots |-> Empty]
    /\ master = {listener}
    /\ fdmax = listener
    /\ readfds = {}
    /\ pc = "select"
    /\ i = 0

FreeFds == {f \in Fds : owner[f] = None}
LowestFree == Min(FreeFds)

\* recv on the socket of client c would not block: data, the end of it, or an error.
Readable(c) == got[c] < sent[c] \/ phase[c] \in {"closed", "reset"}

Ready ==
    {f \in Fds : owner[f] \in Clients /\ Readable(owner[f])}
    \cup (IF backlog # <<>> THEN {listener} ELSE {})

\* The descriptors a call of select watches.
Watched == {f \in master : Windows \/ f <= fdmax}

FreeSlots == {s \in Slots : clientSockets[s] = Empty}

-----------------------------------------------------------------------------
(* Clients and other threads.                                              *)

Connect(c) ==
    /\ phase[c] = "new"
    /\ phase' = [phase EXCEPT ![c] = "open"]
    /\ backlog' = Append(backlog, c)
    /\ UNCHANGED <<owner, sent, got, server>>

SendData(c) ==
    /\ phase[c] = "open"
    /\ sent[c] < MaxData
    /\ sent' = [sent EXCEPT ![c] = @ + 1]
    /\ UNCHANGED <<phase, backlog, owner, got, server>>

Disconnect(c) ==
    /\ phase[c] = "open"
    /\ phase' = [phase EXCEPT ![c] = "closed"]
    /\ UNCHANGED <<backlog, owner, sent, got, server>>

\* The connection breaks; what is still under way may be lost with it.
Reset(c) ==
    /\ phase[c] \in {"open", "closed"}
    /\ phase' = [phase EXCEPT ![c] = "reset"]
    /\ UNCHANGED <<backlog, owner, sent, got, server>>

OtherOpens ==
    /\ FreeFds # {}
    /\ Cardinality({f \in Fds : owner[f] = Other}) < MaxOther
    /\ owner' = [owner EXCEPT ![LowestFree] = Other]
    /\ UNCHANGED <<phase, backlog, sent, got, server>>

OtherCloses(f) ==
    /\ owner[f] = Other
    /\ owner' = [owner EXCEPT ![f] = None]
    /\ UNCHANGED <<phase, backlog, sent, got, server>>

-----------------------------------------------------------------------------
(* server_loop.                                                            *)

\* Mutant: what select reports is looked at for the listener only.
selectOnCopy ==
    /\ pc = "select"
    /\ Invalid \notin master
    /\ Watched \cap Ready # {}
    /\ readfds' = (Watched \cap Ready) \cup (Watched \ {listener})
    /\ pc' = "accept"
    /\ UNCHANGED <<kernel, clientSockets, master, fdmax, i>>

\* Blocks until a watched descriptor is ready.
select ==
    /\ pc = "select"
    /\ Invalid \notin master
    /\ Watched \cap Ready # {}
    /\ readfds' = Watched \cap Ready
    /\ pc' = "accept"
    /\ UNCHANGED <<kernel, clientSockets, master, fdmax, i>>

\* select returns an error, and the server thread ends.
selectFails ==
    /\ pc = "select"
    /\ Invalid \in master
    /\ pc' = "halt"
    /\ UNCHANGED <<kernel, clientSockets, master, fdmax, readfds, i>>

\* FD_SET: nothing happens when the set is full.
FdSet(set, f) ==
    IF Windows /\ Cardinality(set) >= FdSetSize THEN set ELSE set \cup {f}

\* Mutant: any free slot.
AnySlot == FreeSlots

\* The loop over the slots stops at the first one that is empty.
SlotFor == {s \in FreeSlots : \A t \in FreeSlots : s <= t}

\* Mutant: slots counted from 1.
startScanLate == pc' = "scan" /\ i' = 1

startScan == pc' = "scan" /\ i' = 0

storeSocket(f) ==
    /\ \E s \in SlotFor : clientSockets' = [clientSockets EXCEPT ![s] = f]
    /\ master' = FdSet(master, f)
    /\ fdmax' = f

\* With all slots taken the new socket is in nobody's hands, and stays open.
leakSocket ==
    /\ SlotFor = {}
    /\ UNCHANGED <<clientSockets, master, fdmax>>

acceptOne ==
    /\ pc = "accept"
    /\ listener \in readfds
    /\ FreeFds # {}
    /\ backlog' = Tail(backlog)
    /\ owner' = [owner EXCEPT ![LowestFree] = Head(backlog)]
    /\ storeSocket(LowestFree) \/ leakSocket
    /\ startScan
    /\ UNCHANGED <<phase, sent, got, readfds>>

\* accept fails: no descriptor is left, or the connection broke while it waited.
Failing ==
    \/ FreeFds = {} /\ UNCHANGED backlog
    \/ phase[Head(backlog)] = "reset" /\ backlog' = Tail(backlog)

\* The server thread ends.
acceptFails ==
    /\ pc = "accept"
    /\ listener \in readfds
    /\ ~Windows
    /\ Failing
    /\ pc' = "halt"
    /\ UNCHANGED <<phase, owner, sent, got, clientSockets, master, fdmax, readfds, i>>

\* The failure is taken for a connection.
acceptInvalid ==
    /\ pc = "accept"
    /\ listener \in readfds
    /\ Windows
    /\ Failing
    /\ storeSocket(Invalid) \/ leakSocket
    /\ startScan
    /\ UNCHANGED <<phase, owner, sent, got, readfds>>

noConnection ==
    /\ pc = "accept"
    /\ listener \notin readfds
    /\ startScan
    /\ UNCHANGED <<kernel, clientSockets, master, fdmax, readfds>>

nextSlot ==
    IF i + 1 = MaxClient THEN pc' = "select" /\ i' = 0 ELSE pc' = pc /\ i' = i + 1

\* The descriptor the scan has come to, and the client at its other end.
here == clientSockets[i]
peer == owner[here]

skipSlot ==
    /\ pc = "scan"
    /\ here \notin readfds
    /\ nextSlot
    /\ UNCHANGED <<kernel, clientSockets, master, fdmax, readfds>>

\* recv returns what has arrived, as far as it fits into the buffer.
receive ==
    /\ pc = "scan"
    /\ here \in readfds
    /\ \E n \in got[peer] + 1 .. sent[peer] : got' = [got EXCEPT ![peer] = n]
    /\ nextSlot
    /\ UNCHANGED <<phase, backlog, owner, sent, clientSockets, master, fdmax, readfds>>

\* recv returns 0 at the end of what c sent, and -1 once the connection broke.
AtEnd(c) == \/ phase[c] = "closed" /\ got[c] = sent[c]
            \/ phase[c] = "reset"

\* Mutant: FD_CLR is left out.
CutWithoutClr ==
    /\ pc = "scan"
    /\ here \in readfds
    /\ AtEnd(peer)
    /\ owner' = [owner EXCEPT ![here] = None]
    /\ clientSockets' = [clientSockets EXCEPT ![i] = Empty]
    /\ nextSlot
    /\ UNCHANGED <<phase, backlog, sent, got, master, fdmax, readfds>>

\* recv returns 0 or -1: CutConnection closes the socket, takes it out of master and
\* empties the slot.
CutConnection ==
    /\ pc = "scan"
    /\ here \in readfds
    /\ AtEnd(peer)
    /\ owner' = [owner EXCEPT ![here] = None]
    /\ master' = master \ {here}
    /\ clientSockets' = [clientSockets EXCEPT ![i] = Empty]
    /\ nextSlot
    /\ UNCHANGED <<phase, backlog, sent, got, fdmax, readfds>>

server_loop ==
    \/ select \/ selectFails
    \/ acceptOne \/ acceptFails \/ acceptInvalid \/ noConnection
    \/ skipSlot \/ receive \/ CutConnection

Next ==
    \/ server_loop
    \/ \E c \in Clients : Connect(c) \/ SendData(c) \/ Disconnect(c) \/ Reset(c)
    \/ OtherOpens
    \/ \E f \in Fds : OtherCloses(f)

\* A thread of its own runs the loop.
Spec == Init /\ [][Next]_vars /\ WF_vars(server_loop)

-----------------------------------------------------------------------------
(* Properties.                                                             *)

Sockets == {clientSockets[s] : s \in Slots} \ {Empty}
ConnAt(s) ==
    IF clientSockets[s] \in Fds THEN owner[clientSockets[s]]
    ELSE IF clientSockets[s] = Invalid THEN Other ELSE None

TypeOK ==
    /\ phase \in [Clients -> {"new", "open", "closed", "reset"}]
    /\ backlog \in Seq(Clients)
    /\ owner \in [Fds -> Clients \cup {Other, None}]
    /\ sent \in [Clients -> 0 .. MaxData]
    /\ got \in [Clients -> 0 .. MaxData]
    /\ clientSockets \in [Slots -> Fds \cup {Empty, Invalid}]
    /\ master \subseteq Fds \cup {listener, Invalid}
    /\ fdmax \in Fds \cup {listener, Invalid}
    /\ readfds \subseteq Fds \cup {listener}
    /\ pc \in {"select", "accept", "scan", "halt"}
    /\ i \in Slots

\* However descriptors are reused, by new connections or by other threads: a slot in
\* use holds the open socket of a client (on Windows it may hold INVALID_SOCKET), no two
\* slots the same one, and select never watches a descriptor that is in no slot.
TableSound ==
    /\ TypeOK
    /\ \A s \in Slots : clientSockets[s] \in Fds => ConnAt(s) \in Clients
    /\ \A s, t \in Slots :
         clientSockets[s] = clientSockets[t] => s = t \/ clientSockets[s] \notin Fds
    /\ \A s \in Slots : clientSockets[s] = Invalid => Windows
    /\ master \subseteq {listener} \cup Sockets

\* The thread serves all connections, so recv must never block: a descriptor that
\* select reported still has something to read when the scan comes to it, though a
\* connection was accepted and others were cut in between.
RecvNeverBlocks ==
    pc = "scan" /\ here \in readfds => peer \in Clients /\ Readable(peer)

\* The loop keeps the table it promises (ConnectionTable).
Where(c) ==
    IF phase[c] = "new" THEN "new"
    ELSE IF c \in ToSet(backlog) THEN "waiting"
    ELSE IF \E s \in Slots : ConnAt(s) = c THEN "up"
    ELSE IF \E f \in Fds : owner[f] = c THEN "refused"
    ELSE "gone"

Table == INSTANCE ConnectionTable WITH
    where <- [c \in Clients |-> Where(c)],
    closed <- {c \in Clients : phase[c] \in {"closed", "reset"}},
    broken <- {c \in Clients : phase[c] = "reset"},
    conn <- [s \in Slots |-> ConnAt(s)],
    Lost <- Other

ConnectionTableSpec == Table!Spec

\* A connection in the table whose socket select is asked about.  FD_SET leaves the
\* others out (a full fd_set), and nothing they send, nor their end, is ever seen.
Followed(c) == \E s \in Slots : ConnAt(s) = c /\ clientSockets[s] \in master

\* What a client that is followed sends is read, whoever else connects, sends or leaves,
\* unless its connection breaks, accept or select fails and the thread ends.
Served ==
    \A c \in Clients : \A n \in 1 .. MaxData :
        Followed(c) /\ sent[c] >= n ~> got[c] >= n \/ phase[c] = "reset" \/ pc = "halt"

\* The slot of a client that is followed becomes free when it leaves or breaks.
SlotsReturn ==
    \A c \in Clients :
        Followed(c) /\ phase[c] \in {"closed", "reset"}
            ~> (\A s \in Slots : ConnAt(s) # c) \/ pc = "halt"

\* Nobody who is followed waits for ever: neither a client's data nor the slot of one
\* that left.
ServesAll == Served /\ SlotsReturn
=============================================================================
