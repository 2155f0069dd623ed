--------------------------- MODULE TcpServerProofs ---------------------------
(***************************************************************************)
(* TableSound, RecvNeverBlocks and the refinement of ConnectionTable for   *)
(* any number of slots, clients, descriptors and descriptors of other      *)
(* threads, on any platform.                                               *)
(*                                                                         *)
(* What carries them is that a client has one descriptor at most, from the *)
(* moment accept takes it off the backlog.  Only then does what is read at *)
(* one slot, or a slot that is cut, leave the reports of select about the  *)
(* other slots true.                                                       *)
(***************************************************************************)
EXTENDS TcpServer, SequenceLemmas

OneSocketEach ==
    \A f, g \in Fds : owner[f] \in Clients /\ owner[f] = owner[g] => f = g

\* A client waits in the backlog once, and has no descriptor yet.
Waiting ==
    /\ \A c \in ToSet(backlog) : phase[c] # "new"
    /\ \A m, n \in 1 .. Len(backlog) : backlog[m] = backlog[n] => m = n
    /\ \A c \in Clients :
         phase[c] = "new" \/ c \in ToSet(backlog) => \A f \in Fds : owner[f] # c

\* What select reported is still true when the loop comes to it.
Reported ==
    /\ \A c \in Clients : got[c] <= sent[c]
    /\ pc = "accept" =>
         /\ listener \in readfds => backlog # <<>>
         /\ \A f \in readfds \ {listener} : owner[f] \in Clients /\ Readable(owner[f])
    /\ pc = "scan" =>
         \A s \in Slots : s >= i /\ clientSockets[s] \in readfds =>
             Readable(owner[clientSockets[s]])

Inv == TableSound /\ OneSocketEach /\ Waiting /\ Reported

USE TcpServerAssumption

-----------------------------------------------------------------------------
(* Operators.                                                              *)

\* What stands for no descriptor of a connection.
LEMMA Numbers ==
    /\ Empty \notin Fds /\ Invalid \notin Fds /\ listener \notin Fds
    /\ Empty # Invalid /\ Empty # listener /\ Invalid # listener
BY DEF Empty, Invalid, listener, Fds

\* What is reported and in a slot is the socket of a connection.
LEMMA SlotSockets ==
    ASSUME TypeOK, NEW s \in Slots, clientSockets[s] \in readfds
    PROVE  clientSockets[s] \in Fds
BY Numbers DEF TypeOK

\* The kernel hands out a descriptor that nobody has.
LEMMA LowestFreeIsFree ==
    FreeFds # {} => LowestFree \in Fds /\ owner[LowestFree] = None
<1>1. FreeFds \in SUBSET Nat
  BY DEF FreeFds, Fds
<1>2. QED
  BY <1>1, MinIsLeast DEF LowestFree, FreeFds

\* The step to the next slot stays within the slots, or ends the scan.
LEMMA NextSlotStep ==
    ASSUME i \in Slots, nextSlot
    PROVE  /\ i' \in Slots
           /\ pc' = "select" \/ (pc' = pc /\ i' = i + 1)
BY DEF nextSlot, Slots

\* The slot a new connection gets is empty, and the lowest of those.
LEMMA SlotForIsFree ==
    ASSUME NEW s \in SlotFor
    PROVE  /\ s \in Slots /\ clientSockets[s] = Empty
           /\ \A t \in Slots : t < s => clientSockets[t] # Empty
BY DEF SlotFor, FreeSlots, Slots

\* No slot is found only when all are taken.
LEMMA NoSlotFor == SlotFor = {} => \A s \in Slots : clientSockets[s] # Empty
<1> SUFFICES ASSUME SlotFor = {}, NEW s \in Slots, clientSockets[s] = Empty
             PROVE  FALSE
  OBVIOUS
<1>1. FreeSlots \in SUBSET Nat /\ FreeSlots # {}
  BY DEF FreeSlots, Slots
<1>2. Min(FreeSlots) \in FreeSlots /\ \A t \in FreeSlots : Min(FreeSlots) <= t
  BY <1>1, MinIsLeast
<1>3. QED
  BY <1>2 DEF SlotFor

-----------------------------------------------------------------------------
(* The invariant.                                                          *)

LEMMA InitInv == Init => Inv
<1> SUFFICES ASSUME Init PROVE Inv
  OBVIOUS
<1>1. backlog \in Seq(Clients) /\ Len(backlog) = 0 /\ ToSet(backlog) = {}
  BY EmptySeq DEF Init, ToSet
<1>2. TableSound
  BY <1>1 DEF Init, TableSound, TypeOK, ConnAt, Sockets, Slots, Fds, Empty,
     Invalid, listener
<1>3. OneSocketEach /\ Waiting
  BY <1>1 DEF Init, OneSocketEach, Waiting
<1>4. Reported
  BY DEF Init, Reported
<1>5. QED
  BY <1>2, <1>3, <1>4 DEF Inv

\* Steps of the clients: descriptors, slots and reports stay; data and ends only
\* make more sockets readable.
LEMMA ClientStep ==
    ASSUME Inv, NEW c \in Clients, Connect(c) \/ SendData(c) \/ Disconnect(c) \/ Reset(c)
    PROVE  Inv'
<1>0. TypeOK /\ backlog \in Seq(Clients)
  BY DEF Inv, TableSound, TypeOK
<1>1. CASE Connect(c)
  <2>1. /\ phase[c] = "new" /\ phase' = [phase EXCEPT ![c] = "open"]
        /\ backlog' = Append(backlog, c)
        /\ UNCHANGED <<owner, sent, got, server>>
    BY <1>1 DEF Connect
  <2>2. /\ backlog' \in Seq(Clients)
        /\ Len(backlog') = Len(backlog) + 1
        /\ \A j \in 1 .. Len(backlog) : backlog'[j] = backlog[j]
        /\ backlog'[Len(backlog) + 1] = c
        /\ ToSet(backlog') = ToSet(backlog) \cup {c}
    BY <1>0, <2>1, AppendContents
  <2>3. Len(backlog) \in Nat /\ \A m \in 1 .. Len(backlog) : backlog[m] \in ToSet(backlog)
    BY <1>0, LenProperties DEF ToSet
  <2>4. \A m \in 1 .. Len(backlog) : backlog[m] # c
    BY <2>1, <2>3 DEF Inv, Waiting
  <2>5. backlog' # <<>>
    BY <2>2, <2>3, EmptySeq
  <2>6. TableSound'
    BY <1>0, <2>1, <2>2 DEF Inv, TableSound, TypeOK, ConnAt, Sockets, server
  <2>7. OneSocketEach'
    BY <2>1 DEF Inv, OneSocketEach
  <2>8. Waiting'
    <3>1. ASSUME NEW m \in 1 .. Len(backlog'), NEW n \in 1 .. Len(backlog'),
                 backlog'[m] = backlog'[n]
          PROVE  m = n
      BY <2>2, <2>3, <2>4, <3>1 DEF Inv, Waiting
    <3>2. \A d \in ToSet(backlog') : phase'[d] # "new"
      BY <1>0, <2>1, <2>2 DEF Inv, Waiting, TypeOK
    <3>3. \A d \in Clients : phase'[d] = "new" \/ d \in ToSet(backlog') =>
             \A f \in Fds : owner'[f] # d
      BY <1>0, <2>1, <2>2 DEF Inv, Waiting, TypeOK
    <3> QED
      BY <3>1, <3>2, <3>3 DEF Waiting
  <2>9. Reported'
    <3>1. ASSUME NEW d \in Clients, Readable(d) PROVE Readable(d)'
      BY <1>0, <2>1, <3>1 DEF Readable, TypeOK
    <3>2. \A s \in Slots : s >= i /\ clientSockets[s] \in readfds =>
            owner[clientSockets[s]] \in Clients
      BY <1>0 DEF Inv, TableSound, TypeOK, ConnAt, Empty, Invalid, Fds, listener
    <3> QED
      BY <2>1, <2>5, <3>1, <3>2 DEF Inv, Reported, server, Readable
  <2> QED
    BY <2>6, <2>7, <2>8, <2>9 DEF Inv
<1>2. CASE SendData(c)
  <2>1. /\ phase[c] = "open" /\ sent[c] < MaxData /\ sent' = [sent EXCEPT ![c] = @ + 1]
        /\ UNCHANGED <<phase, backlog, owner, got, server>>
    BY <1>2 DEF SendData
  <2>2. TableSound' /\ OneSocketEach' /\ Waiting'
    BY <1>0, <2>1 DEF Inv, TableSound, TypeOK, ConnAt, Sockets, server, OneSocketEach,
       Waiting
  <2>3. \A d \in Clients : sent[d] <= sent'[d] /\ sent'[d] \in Nat /\ got[d] \in Nat
    BY <1>0, <2>1 DEF TypeOK
  <2>4. \A d \in Clients : Readable(d) => Readable(d)'
    BY <1>0, <2>1, <2>3 DEF Readable, TypeOK
  <2>5. \A s \in Slots : s >= i /\ clientSockets[s] \in readfds =>
            owner[clientSockets[s]] \in Clients
    BY <1>0 DEF Inv, TableSound, TypeOK, ConnAt, Empty, Invalid, Fds, listener
  <2>6. Reported'
    BY <1>0, <2>1, <2>3, <2>4, <2>5 DEF Inv, Reported, server, Readable, TypeOK
  <2> QED
    BY <2>2, <2>6 DEF Inv
<1>3. CASE Disconnect(c) \/ Reset(c)
  <2>1. PICK p \in {"closed", "reset"} :
           /\ phase[c] # "new" /\ phase' = [phase EXCEPT ![c] = p]
           /\ UNCHANGED <<backlog, owner, sent, got, server>>
    BY <1>3 DEF Disconnect, Reset
  <2>2. TableSound' /\ OneSocketEach' /\ Waiting'
    BY <1>0, <2>1 DEF Inv, TableSound, TypeOK, ConnAt, Sockets, server, OneSocketEach,
       Waiting
  <2>3. \A d \in Clients : Readable(d) => Readable(d)'
    BY <1>0, <2>1 DEF Readable, TypeOK
  <2>4. \A s \in Slots : s >= i /\ clientSockets[s] \in readfds =>
            owner[clientSockets[s]] \in Clients
    BY <1>0 DEF Inv, TableSound, TypeOK, ConnAt, Empty, Invalid, Fds, listener
  <2>5. Reported'
    BY <2>1, <2>3, <2>4 DEF Inv, Reported, server, Readable
  <2> QED
    BY <2>2, <2>5 DEF Inv
<1> QED
  BY <1>1, <1>2, <1>3

\* Steps of other threads: they take free descriptors and give back their own, and
\* those are in no slot and in no report.
LEMMA OtherStep ==
    ASSUME Inv, OtherOpens \/ \E f \in Fds : OtherCloses(f)
    PROVE  Inv'
<1>1. PICK f \in Fds, x \in {Other, None} :
         owner[f] \notin Clients /\ owner' = [owner EXCEPT ![f] = x]
  BY LowestFreeIsFree DEF OtherOpens, OtherCloses
<1>2. UNCHANGED <<phase, backlog, sent, got, server>>
  BY DEF OtherOpens, OtherCloses
<1>3. TypeOK
  BY DEF Inv, TableSound
<1>4. \A g \in Fds : \/ owner'[g] = owner[g]
                     \/ owner'[g] \notin Clients /\ owner[g] \notin Clients
  BY <1>1, <1>3 DEF TypeOK
<1>5. TypeOK'
  BY <1>1, <1>2, <1>3 DEF TypeOK, server
<1>6. TableSound'
  BY <1>2, <1>3, <1>4, <1>5 DEF Inv, TableSound, TypeOK, ConnAt, Sockets, server
<1>7. OneSocketEach' /\ Waiting'
  BY <1>2, <1>4 DEF Inv, OneSocketEach, Waiting
<1>8. Reported'
  <2>1. ASSUME NEW s \in Slots, clientSockets[s] \in readfds
        PROVE  owner[clientSockets[s]] \in Clients /\ clientSockets[s] \in Fds
    BY <1>3, <2>1 DEF Inv, TableSound, TypeOK, ConnAt, Empty, Invalid, Fds, listener
  <2>2. ASSUME NEW g \in readfds \ {listener} PROVE g \in Fds
    BY <1>3 DEF TypeOK
  <2>3. QED
    BY <1>2, <1>4, <2>1, <2>2 DEF Inv, Reported, server, Readable
<1>9. QED
  BY <1>6, <1>7, <1>8 DEF Inv

\* select: what it reports is ready.
LEMMA SelectStep == ASSUME Inv, select PROVE Inv'
<1>1. /\ pc = "select" /\ readfds' = Watched \cap Ready /\ pc' = "accept"
      /\ UNCHANGED <<kernel, clientSockets, master, fdmax, i>>
  BY DEF select
<1>2. TableSound'
  <2>1. listener \in Fds \cup {listener} /\ Ready \subseteq Fds \cup {listener}
    BY DEF Ready
  <2>2. TypeOK'
    BY <1>1, <2>1 DEF Inv, TableSound, TypeOK, kernel
  <2>3. QED
    BY <1>1, <2>2 DEF Inv, TableSound, ConnAt, Sockets, kernel
<1>3. OneSocketEach' /\ Waiting'
  BY <1>1 DEF Inv, OneSocketEach, Waiting, kernel
<1>4. listener \notin Fds
  BY DEF listener, Fds
<1>5. Reported'
  BY <1>1, <1>4 DEF Inv, Reported, Ready, Readable, kernel
<1>6. QED
  BY <1>2, <1>3, <1>5 DEF Inv

\* A failing accept takes the connection from the backlog, or leaves it there.
LEMMA FailingFacts ==
    ASSUME Inv, pc = "accept", listener \in readfds, Failing
    PROVE  /\ backlog # <<>>
           /\ backlog' \in Seq(Clients)
           /\ ToSet(backlog') \subseteq ToSet(backlog)
           /\ \A m, n \in 1 .. Len(backlog') : backlog'[m] = backlog'[n] => m = n
           /\ \/ backlog' = backlog
              \/ /\ phase[Head(backlog)] = "reset"
                 /\ Head(backlog) \in ToSet(backlog) /\ Head(backlog) \in Clients
                 /\ ToSet(backlog') = ToSet(backlog) \ {Head(backlog)}
<1>1. /\ backlog \in Seq(Clients) /\ backlog # <<>>
      /\ \A m, n \in 1 .. Len(backlog) : backlog[m] = backlog[n] => m = n
  BY DEF Inv, TableSound, TypeOK, Reported, Waiting
<1>2. /\ Head(backlog) \in ToSet(backlog) /\ Head(backlog) \in Clients
      /\ Tail(backlog) \in Seq(Clients)
      /\ ToSet(Tail(backlog)) = ToSet(backlog) \ {Head(backlog)}
      /\ \A m, n \in 1 .. Len(Tail(backlog)) : Tail(backlog)[m] = Tail(backlog)[n] => m = n
  BY <1>1, TailContents
<1>3. backlog' = backlog \/ (backlog' = Tail(backlog) /\ phase[Head(backlog)] = "reset")
  BY DEF Failing
<1>4. CASE backlog' = backlog
  BY <1>1, <1>4
<1>5. CASE backlog' = Tail(backlog) /\ phase[Head(backlog)] = "reset"
  BY <1>1, <1>2, <1>5
<1>6. QED
  BY <1>3, <1>4, <1>5

\* What accept does, whether a slot is left for the connection or not.
LEMMA AcceptFacts ==
    ASSUME Inv, acceptOne, NEW f, f = LowestFree, NEW c, c = Head(backlog)
    PROVE  /\ f \in Fds /\ owner[f] = None /\ owner' = [owner EXCEPT ![f] = c]
           /\ c \in Clients /\ c \in ToSet(backlog)
           /\ \A g \in Fds : owner[g] # c
           /\ backlog' \in Seq(Clients)
           /\ ToSet(backlog') = ToSet(backlog) \ {c}
           /\ \A m, n \in 1 .. Len(backlog') : backlog'[m] = backlog'[n] => m = n
           /\ \A s \in Slots : clientSockets[s] # f
           /\ pc = "accept" /\ pc' = "scan" /\ i' = 0
           /\ UNCHANGED <<phase, sent, got, readfds>>
<1>1. /\ pc = "accept" /\ pc' = "scan" /\ i' = 0
      /\ listener \in readfds /\ FreeFds # {}
      /\ backlog' = Tail(backlog) /\ owner' = [owner EXCEPT ![f] = c]
      /\ UNCHANGED <<phase, sent, got, readfds>>
  BY DEF acceptOne, startScan
<1>2. f \in Fds /\ owner[f] = None
  BY <1>1, LowestFreeIsFree
<1>3. backlog \in Seq(Clients) /\ backlog # <<>>
      /\ \A m, n \in 1 .. Len(backlog) : backlog[m] = backlog[n] => m = n
  BY <1>1 DEF Inv, TableSound, TypeOK, Reported, Waiting
<1>4. /\ c \in ToSet(backlog) /\ c \in Clients
      /\ backlog' \in Seq(Clients)
      /\ ToSet(backlog') = ToSet(backlog) \ {c}
      /\ \A m, n \in 1 .. Len(backlog') : backlog'[m] = backlog'[n] => m = n
  <2>1. /\ Head(backlog) \in ToSet(backlog) /\ Head(backlog) \in Clients
        /\ Tail(backlog) \in Seq(Clients)
        /\ ToSet(Tail(backlog)) = ToSet(backlog) \ {Head(backlog)}
        /\ \A m, n \in 1 .. Len(Tail(backlog)) : Tail(backlog)[m] = Tail(backlog)[n] => m = n
    BY <1>3, TailContents
  <2>2. QED
    BY <1>1, <2>1
<1>5. \A g \in Fds : owner[g] # c
  BY <1>4 DEF Inv, Waiting
<1>6. \A s \in Slots : clientSockets[s] # f
  BY <1>2 DEF Inv, TableSound, ConnAt, Empty, Fds
<1>7. QED
  BY <1>1, <1>2, <1>4, <1>5, <1>6

\* accept: the new connection has no descriptor yet, and its descriptor is in no slot
\* and in no report, since it was free.
LEMMA AcceptStep == ASSUME Inv, acceptOne PROVE Inv'
<1> DEFINE f == LowestFree
           c == Head(backlog)
<1>0. TypeOK
  BY DEF Inv, TableSound
<1>1. /\ f \in Fds /\ owner[f] = None /\ owner' = [owner EXCEPT ![f] = c]
      /\ c \in Clients /\ c \in ToSet(backlog)
      /\ \A g \in Fds : owner[g] # c
      /\ backlog' \in Seq(Clients)
      /\ ToSet(backlog') = ToSet(backlog) \ {c}
      /\ \A m, n \in 1 .. Len(backlog') : backlog'[m] = backlog'[n] => m = n
      /\ \A s \in Slots : clientSockets[s] # f
      /\ pc = "accept" /\ pc' = "scan" /\ i' = 0
      /\ UNCHANGED <<phase, sent, got, readfds>>
  BY AcceptFacts
<1>2. storeSocket(f) \/ leakSocket
  BY DEF acceptOne
<1> HIDE DEF f, c
<1>3. /\ owner' \in [Fds -> Clients \cup {Other, None}]
      /\ owner'[f] = c
      /\ \A g \in Fds : g # f => owner'[g] = owner[g]
  BY <1>0, <1>1 DEF TypeOK
<1>4. OneSocketEach'
  BY <1>1, <1>3 DEF Inv, OneSocketEach
<1>5. Waiting'
  <2>1. \A d \in ToSet(backlog') : phase'[d] # "new"
    BY <1>1 DEF Inv, Waiting
  <2>2. ASSUME NEW d \in Clients, phase'[d] = "new" \/ d \in ToSet(backlog')
        PROVE  \A g \in Fds : owner'[g] # d
    <3>1. d # c /\ (phase[d] = "new" \/ d \in ToSet(backlog))
      BY <1>1, <2>2 DEF Inv, Waiting
    <3>2. QED
      BY <1>1, <1>3, <3>1 DEF Inv, Waiting
  <2>3. QED
    BY <1>1, <2>1, <2>2 DEF Waiting
<1>6. f \notin readfds
  BY <1>0, <1>1 DEF Inv, Reported, Fds, listener
<1>7. ASSUME NEW g \in readfds, g # listener PROVE Readable(owner[g])'
  <2>1. g \in Fds /\ g # f /\ owner[g] \in Clients /\ Readable(owner[g])
    BY <1>0, <1>1, <1>6, <1>7 DEF Inv, Reported, TypeOK
  <2>2. QED
    BY <1>1, <1>3, <2>1 DEF Readable
<1>8. /\ 0 \in Slots
      /\ \A s \in Slots : clientSockets[s] \in Fds \cup {Empty, Invalid}
      /\ listener \notin Fds /\ listener # Empty /\ Empty \notin Fds
      /\ Invalid \notin Fds /\ Invalid # listener
  BY <1>0, Numbers DEF TypeOK, Slots
<1>9. CASE storeSocket(f)
  <2>1. PICK s \in Slots : clientSockets[s] = Empty
                           /\ clientSockets' = [clientSockets EXCEPT ![s] = f]
    BY <1>9, SlotForIsFree DEF storeSocket
  <2>2. master' \subseteq master \cup {f} /\ fdmax' = f
    BY <1>9 DEF storeSocket, FdSet
  <2>3. /\ clientSockets' \in [Slots -> Fds \cup {Empty, Invalid}]
        /\ clientSockets'[s] = f
        /\ \A t \in Slots : t # s => clientSockets'[t] = clientSockets[t]
    BY <1>0, <1>1, <2>1 DEF TypeOK
  <2>4. TypeOK'
    BY <1>0, <1>1, <1>3, <1>8, <2>2, <2>3 DEF TypeOK
  <2>5. \A t \in Slots : clientSockets'[t] \in Fds => owner'[clientSockets'[t]] \in Clients
    BY <1>1, <1>3, <1>8, <2>3 DEF Inv, TableSound, ConnAt
  <2>6. \A t, u \in Slots : clientSockets'[t] = clientSockets'[u] =>
            t = u \/ clientSockets'[t] \notin Fds
    BY <1>1, <1>8, <2>3 DEF Inv, TableSound
  <2>7. Sockets' = Sockets \cup {f}
    <3>1. Sockets' = {clientSockets'[t] : t \in Slots} \ {Empty}
      BY DEF Sockets
    <3>2. f # Empty
      BY <1>1, <1>8
    <3>3. {clientSockets'[t] : t \in Slots} \ {Empty} =
             ({clientSockets[t] : t \in Slots} \ {Empty}) \cup {f}
      BY <2>1, <2>3, <3>2
    <3>4. QED
      BY <3>1, <3>3 DEF Sockets
  <2>8. \A t \in Slots : clientSockets'[t] = Invalid => Windows
    BY <1>1, <1>8, <2>3 DEF Inv, TableSound
  <2>9. TableSound'
    BY <2>2, <2>4, <2>5, <2>6, <2>7, <2>8 DEF Inv, TableSound, ConnAt
  <2>10. Reported'
    BY <1>1, <1>6, <1>7, <1>8, <2>3 DEF Inv, Reported
  <2>11. QED
    BY <1>4, <1>5, <2>9, <2>10 DEF Inv
<1>10. CASE leakSocket
  <2>1. UNCHANGED <<clientSockets, master, fdmax>>
    BY <1>10 DEF leakSocket
  <2>2. TypeOK'
    BY <1>0, <1>1, <1>3, <1>8, <2>1 DEF TypeOK
  <2>3. TableSound'
    BY <1>1, <1>3, <1>8, <2>1, <2>2 DEF Inv, TableSound, ConnAt, Sockets
  <2>4. Reported'
    BY <1>1, <1>7, <1>8, <2>1 DEF Inv, Reported
  <2>5. QED
    BY <1>4, <1>5, <2>3, <2>4 DEF Inv
<1>11. QED
  BY <1>2, <1>9, <1>10

\* No connection to accept, or the thread ends.
LEMMA NoAcceptStep == ASSUME Inv, noConnection \/ acceptFails \/ selectFails PROVE Inv'
<1>1. /\ UNCHANGED <<phase, owner, sent, got, clientSockets, master, fdmax, readfds>>
      /\ \/ pc = "accept" /\ listener \notin readfds /\ pc' = "scan" /\ i' = 0
         \/ pc' = "halt" /\ i' = i
  BY DEF noConnection, acceptFails, selectFails, startScan, kernel
<1>2. TypeOK /\ 0 \in Slots
  BY DEF Inv, TableSound, Slots
<1>3. /\ backlog' \in Seq(Clients)
      /\ ToSet(backlog') \subseteq ToSet(backlog)
      /\ \A m, n \in 1 .. Len(backlog') : backlog'[m] = backlog'[n] => m = n
  <2>1. CASE acceptFails /\ Failing
    BY <2>1, FailingFacts DEF acceptFails
  <2>2. CASE backlog' = backlog
    BY <1>2, <2>2 DEF Inv, Waiting, TypeOK
  <2>3. QED
    BY <2>1, <2>2 DEF noConnection, acceptFails, selectFails, kernel
<1>4. TableSound'
  BY <1>1, <1>2, <1>3 DEF Inv, TableSound, TypeOK, ConnAt, Sockets
<1>5. OneSocketEach' /\ Waiting'
  BY <1>1, <1>3 DEF Inv, OneSocketEach, Waiting
<1>6. Reported'
  BY <1>1, <1>2 DEF Inv, Reported, Readable, TypeOK
<1>7. QED
  BY <1>4, <1>5, <1>6 DEF Inv

\* A failure stored as a connection: a free slot is taken, and no descriptor.
LEMMA InvalidStep == ASSUME Inv, acceptInvalid PROVE Inv'
<1>0. TypeOK
  BY DEF Inv, TableSound
<1>1. /\ pc = "accept" /\ listener \in readfds /\ Windows /\ Failing
      /\ storeSocket(Invalid) \/ leakSocket
      /\ pc' = "scan" /\ i' = 0
      /\ UNCHANGED <<phase, owner, sent, got, readfds>>
  BY DEF acceptInvalid, startScan
<1>2. /\ backlog' \in Seq(Clients)
      /\ ToSet(backlog') \subseteq ToSet(backlog)
      /\ \A m, n \in 1 .. Len(backlog') : backlog'[m] = backlog'[n] => m = n
  BY <1>1, FailingFacts
<1>3. OneSocketEach' /\ Waiting'
  BY <1>1, <1>2 DEF Inv, OneSocketEach, Waiting
<1>4. /\ Invalid \notin Fds /\ Empty \notin Fds /\ Invalid # Empty
      /\ Invalid \notin readfds /\ 0 \in Slots
  BY <1>0 DEF TypeOK, Slots, Fds, listener, Empty, Invalid
<1>5. /\ clientSockets' \in [Slots -> Fds \cup {Empty, Invalid}]
      /\ \A t \in Slots : \/ clientSockets'[t] = clientSockets[t]
                          \/ clientSockets[t] = Empty /\ clientSockets'[t] = Invalid
      /\ fdmax' \in {fdmax, Invalid}
      /\ \/ master' = master
         \/ /\ master' \subseteq master \cup {Invalid}
            /\ \E t \in Slots : clientSockets'[t] = Invalid
  <2>1. CASE storeSocket(Invalid)
    <3>1. PICK s \in Slots : clientSockets[s] = Empty
                             /\ clientSockets' = [clientSockets EXCEPT ![s] = Invalid]
      BY <2>1, SlotForIsFree DEF storeSocket
    <3>2. master' \subseteq master \cup {Invalid} /\ fdmax' = Invalid
      BY <2>1 DEF storeSocket, FdSet
    <3>3. QED
      BY <1>0, <3>1, <3>2 DEF TypeOK
  <2>2. CASE leakSocket
    BY <1>0, <2>2 DEF leakSocket, TypeOK
  <2>3. QED
    BY <1>1, <2>1, <2>2
<1>6. TypeOK'
  BY <1>0, <1>1, <1>2, <1>4, <1>5 DEF TypeOK
<1>7. TableSound'
  <2>1. \A t \in Slots : clientSockets'[t] \in Fds => clientSockets'[t] = clientSockets[t]
    BY <1>4, <1>5
  <2>2. Sockets \subseteq Sockets'
    <3>1. ASSUME NEW t \in Slots, clientSockets[t] # Empty
          PROVE  clientSockets'[t] = clientSockets[t]
      BY <1>5, <3>1
    <3>2. QED
      BY <3>1 DEF Sockets
  <2>3. master' \subseteq {listener} \cup Sockets'
    BY <1>4, <1>5, <2>2 DEF Inv, TableSound, Sockets
  <2>4. QED
    BY <1>1, <1>6, <2>1, <2>3 DEF Inv, TableSound, ConnAt
<1>8. Reported'
  <2>1. ASSUME NEW t \in Slots, clientSockets'[t] \in readfds
        PROVE  clientSockets'[t] = clientSockets[t]
    BY <1>4, <1>5, <2>1
  <2>2. ASSUME NEW t \in Slots, clientSockets'[t] \in readfds
        PROVE  clientSockets[t] \in readfds \ {listener}
    BY <1>0, <2>1, <2>2, SlotSockets, Numbers
  <2>3. QED
    BY <1>1, <2>1, <2>2 DEF Inv, Reported, Readable
<1>9. QED
  BY <1>3, <1>7, <1>8 DEF Inv

\* A slot that is found in the report: its client has something to read, and no other
\* slot, nor any other descriptor, is that client's.
LEMMA ScanFacts ==
    ASSUME Inv, pc = "scan", here \in readfds
    PROVE  /\ i \in Slots /\ here \in Fds /\ here # Empty
           /\ peer \in Clients /\ owner[here] = peer /\ Readable(peer)
           /\ \A t \in Slots : t # i => clientSockets[t] # here
           /\ \A g \in Fds : g # here => owner[g] # peer
<1>1. TypeOK /\ i \in Slots
  BY DEF Inv, TableSound, TypeOK
<1>2. here \in Fds /\ here # Empty
  BY <1>1 DEF here, TypeOK, Empty, Invalid, Fds, listener
<1>3. peer \in Clients /\ owner[here] = peer /\ \A t \in Slots : t # i => clientSockets[t] # here
  BY <1>1, <1>2 DEF Inv, TableSound, ConnAt, here, peer
<1>4. Readable(peer)
  BY <1>1 DEF Inv, Reported, here, peer, Slots
<1>5. \A g \in Fds : g # here => owner[g] # peer
  BY <1>2, <1>3 DEF Inv, OneSocketEach
<1>6. QED
  BY <1>1, <1>2, <1>3, <1>4, <1>5

\* The reports about the slots the scan has still to come to outlive a step at this one.
LEMMA ReportsLeft ==
    ASSUME Inv, pc = "scan", nextSlot, readfds' = readfds,
           \A d \in Clients : got'[d] <= sent'[d],
           \A t \in Slots : t # i => clientSockets'[t] = clientSockets[t],
           \A t \in Slots : t # i /\ clientSockets[t] \in readfds =>
               (Readable(owner[clientSockets[t]]) => Readable(owner[clientSockets[t]])')
    PROVE  Reported'
<1>1. i \in Slots /\ (pc' = "select" \/ (pc' = "scan" /\ i' = i + 1))
  <2>1. i \in Slots
    BY DEF Inv, TableSound, TypeOK
  <2>2. QED
    BY <2>1, NextSlotStep
<1>2. CASE pc' = "select"
  BY <1>2 DEF Reported
<1>3. CASE pc' = "scan" /\ i' = i + 1
  <2>1. ASSUME NEW t \in Slots, t >= i', clientSockets'[t] \in readfds'
        PROVE  Readable(owner[clientSockets[t]])'
    <3>1. t # i /\ t >= i
      BY <1>1, <1>3, <2>1 DEF Slots
    <3>2. clientSockets[t] \in readfds
      BY <2>1, <3>1
    <3>3. Readable(owner[clientSockets[t]])
      BY <3>1, <3>2 DEF Inv, Reported
    <3>4. QED
      BY <3>1, <3>2, <3>3
  <2>2. QED
    BY <1>1, <1>3, <2>1 DEF Reported
<1>4. QED
  BY <1>1, <1>2, <1>3

\* The scan reads from the client at its slot, which changes nothing for the others.
LEMMA ReceiveStep == ASSUME Inv, receive PROVE Inv'
<1>1. /\ pc = "scan" /\ here \in readfds /\ nextSlot
      /\ \E n \in got[peer] + 1 .. sent[peer] : got' = [got EXCEPT ![peer] = n]
      /\ UNCHANGED <<phase, backlog, owner, sent, clientSockets, master, fdmax, readfds>>
  BY DEF receive
<1>2. /\ TypeOK /\ i \in Slots /\ peer \in Clients
      /\ \A g \in Fds : g # here => owner[g] # peer
      /\ \A t \in Slots : t # i => clientSockets[t] # here
  BY <1>1, ScanFacts DEF Inv, TableSound
<1>3. /\ got' \in [Clients -> 0 .. MaxData]
      /\ got'[peer] <= sent'[peer]
      /\ \A d \in Clients : d # peer => got'[d] = got[d]
  BY <1>1, <1>2 DEF TypeOK
<1>4. i' \in Slots /\ (pc' = "select" \/ pc' = "scan")
  BY <1>1, <1>2, NextSlotStep
<1>5. TableSound'
  BY <1>1, <1>2, <1>3, <1>4 DEF Inv, TableSound, TypeOK, ConnAt, Sockets
<1>6. OneSocketEach' /\ Waiting'
  BY <1>1 DEF Inv, OneSocketEach, Waiting
<1>7. Reported'
  <2>1. \A d \in Clients : got'[d] <= sent'[d]
    BY <1>1, <1>3 DEF Inv, Reported
  <2>2. ASSUME NEW t \in Slots, t # i, clientSockets[t] \in readfds,
               Readable(owner[clientSockets[t]])
        PROVE  Readable(owner[clientSockets[t]])'
    <3>1. clientSockets[t] \in Fds /\ clientSockets[t] # here
      BY <1>2, <2>2, SlotSockets
    <3>2. owner[clientSockets[t]] \in Clients /\ owner[clientSockets[t]] # peer
      BY <1>2, <3>1 DEF Inv, TableSound, ConnAt
    <3>3. QED
      BY <1>1, <1>3, <2>2, <3>2 DEF Readable
  <2>3. QED
    BY <1>1, <2>1, <2>2, ReportsLeft
<1>8. QED
  BY <1>5, <1>6, <1>7 DEF Inv

\* CutConnection takes the descriptor out of its slot and out of master in one step, and
\* no other slot holds it.
LEMMA CutStep == ASSUME Inv, CutConnection PROVE Inv'
<1>1. /\ pc = "scan" /\ here \in readfds /\ nextSlot
      /\ owner' = [owner EXCEPT ![here] = None]
      /\ master' = master \ {here}
      /\ clientSockets' = [clientSockets EXCEPT ![i] = Empty]
      /\ UNCHANGED <<phase, backlog, sent, got, fdmax, readfds>>
  BY DEF CutConnection
<1>2. /\ TypeOK /\ i \in Slots /\ here \in Fds /\ here # Empty
      /\ \A t \in Slots : t # i => clientSockets[t] # here
  BY <1>1, ScanFacts DEF Inv, TableSound
<1>3. /\ owner' \in [Fds -> Clients \cup {Other, None}]
      /\ owner'[here] = None
      /\ \A g \in Fds : g # here => owner'[g] = owner[g]
  BY <1>1, <1>2 DEF TypeOK
<1>4. /\ clientSockets' \in [Slots -> Fds \cup {Empty, Invalid}]
      /\ clientSockets'[i] = Empty
      /\ \A t \in Slots : t # i => clientSockets'[t] = clientSockets[t]
  BY <1>1, <1>2 DEF TypeOK
<1>5. i' \in Slots /\ (pc' = "select" \/ pc' = "scan")
  BY <1>1, <1>2, NextSlotStep
<1>6. TableSound'
  <2>1. TypeOK'
    BY <1>1, <1>2, <1>3, <1>4, <1>5 DEF TypeOK
  <2>2. \A t \in Slots : clientSockets'[t] \in Fds => owner'[clientSockets'[t]] \in Clients
    BY <1>2, <1>3, <1>4, Numbers DEF Inv, TableSound, ConnAt
  <2>3. \A t, u \in Slots : clientSockets'[t] = clientSockets'[u] =>
            t = u \/ clientSockets'[t] \notin Fds
    BY <1>2, <1>4, Numbers DEF Inv, TableSound
  <2>4. Sockets \ {here} \subseteq Sockets'
    BY <1>2, <1>4 DEF Sockets, here
  <2>5. \A t \in Slots : clientSockets'[t] = Invalid => Windows
    BY <1>4 DEF Inv, TableSound, Empty, Invalid
  <2>6. QED
    BY <1>1, <2>1, <2>2, <2>3, <2>4, <2>5 DEF Inv, TableSound, ConnAt
<1>7. OneSocketEach' /\ Waiting'
  BY <1>1, <1>3 DEF Inv, OneSocketEach, Waiting
<1>8. Reported'
  <2>1. ASSUME NEW t \in Slots, t # i, clientSockets[t] \in readfds,
               Readable(owner[clientSockets[t]])
        PROVE  Readable(owner[clientSockets[t]])'
    <3>1. clientSockets[t] \in Fds /\ clientSockets[t] # here
      BY <1>2, <2>1 DEF TypeOK, Empty, Invalid, Fds, listener
    <3>2. owner'[clientSockets'[t]] = owner[clientSockets[t]]
      BY <1>3, <1>4, <2>1, <3>1
    <3>3. QED
      BY <1>1, <2>1, <3>2 DEF Readable
  <2>2. QED
    BY <1>1, <1>4, <2>1, ReportsLeft DEF Inv, Reported
<1>9. QED
  BY <1>6, <1>7, <1>8 DEF Inv

\* A slot that is not in the report is passed over.
LEMMA SkipStep == ASSUME Inv, skipSlot PROVE Inv'
<1>1. /\ pc = "scan" /\ nextSlot
      /\ UNCHANGED <<kernel, clientSockets, master, fdmax, readfds>>
  BY DEF skipSlot
<1>2. TypeOK /\ i' \in Slots /\ (pc' = "select" \/ pc' = "scan")
  BY <1>1, NextSlotStep DEF Inv, TableSound, TypeOK
<1>3. TableSound' /\ OneSocketEach' /\ Waiting'
  BY <1>1, <1>2 DEF Inv, TableSound, TypeOK, ConnAt, Sockets, kernel, OneSocketEach, Waiting
<1>4. Reported'
  <2>1. /\ readfds' = readfds
        /\ \A d \in Clients : got'[d] <= sent'[d]
        /\ \A t \in Slots : clientSockets'[t] = clientSockets[t]
        /\ \A t \in Slots : Readable(owner[clientSockets[t]]) =>
                            Readable(owner[clientSockets[t]])'
    BY <1>1 DEF Inv, Reported, Readable, kernel
  <2>2. QED
    BY <1>1, <2>1, ReportsLeft
<1>5. QED
  BY <1>3, <1>4 DEF Inv

LEMMA InvStep == Inv /\ [Next]_vars => Inv'
<1> SUFFICES ASSUME Inv, [Next]_vars PROVE Inv'
  OBVIOUS
<1>1. CASE server_loop
  BY <1>1, SelectStep, AcceptStep, NoAcceptStep, InvalidStep, SkipStep, ReceiveStep, CutStep
     DEF server_loop
<1>2. CASE \E c \in Clients : Connect(c) \/ SendData(c) \/ Disconnect(c) \/ Reset(c)
  BY <1>2, ClientStep
<1>3. CASE OtherOpens \/ \E f \in Fds : OtherCloses(f)
  BY <1>3, OtherStep
<1>4. CASE UNCHANGED vars
  BY <1>4 DEF Inv, TableSound, TypeOK, ConnAt, Sockets, OneSocketEach, Waiting, Reported,
     Readable, vars, kernel, server
<1>5. QED
  BY <1>1, <1>2, <1>3, <1>4 DEF Next

LEMMA Invariant == Spec => []Inv
<1>1. QED
  BY InitInv, InvStep, PTL DEF Spec

-----------------------------------------------------------------------------
(* Theorems.                                                               *)

\* However descriptors are reused, a slot holds the open socket of a client, no two
\* slots the same one, and select watches no descriptor that is in no slot.
THEOREM TableCorrect == Spec => []TableSound
<1>1. Inv => TableSound
  BY DEF Inv
<1>2. QED
  BY <1>1, Invariant, PTL

\* The one thread that serves all connections never waits in recv for one of them.
THEOREM RecvPrompt == Spec => []RecvNeverBlocks
<1>1. Inv => RecvNeverBlocks
  BY ScanFacts DEF RecvNeverBlocks
<1>2. QED
  BY <1>1, Invariant, PTL

-----------------------------------------------------------------------------
(* The loop implements ConnectionTable.                                    *)

where == [c \in Clients |-> Where(c)]
closed == {c \in Clients : phase[c] \in {"closed", "reset"}}
broken == {c \in Clients : phase[c] = "reset"}
conn == [s \in Slots |-> ConnAt(s)]

\* Where a client is depends on four things only.
LEMMA WhereKept ==
    ASSUME NEW c \in Clients,
           phase'[c] = "new" <=> phase[c] = "new",
           c \in ToSet(backlog') <=> c \in ToSet(backlog),
           (\E s \in Slots : conn'[s] = c) <=> (\E s \in Slots : conn[s] = c),
           (\E f \in Fds : owner'[f] = c) <=> (\E f \in Fds : owner[f] = c)
    PROVE  where'[c] = where[c]
BY DEF where, Where, conn

\* The slots and their clients, in the terms of ConnectionTable.
LEMMA ConnFacts ==
    ASSUME Inv, NEW s \in Slots
    PROVE  /\ clientSockets[s] \in Fds \cup {Empty, Invalid}
           /\ conn[s] = None <=> clientSockets[s] = Empty
           /\ conn[s] = Other <=> clientSockets[s] = Invalid
           /\ conn[s] \in Clients <=> clientSockets[s] \in Fds
           /\ clientSockets[s] \in Fds => conn[s] = owner[clientSockets[s]]
<1>1. clientSockets[s] \in Fds \cup {Empty, Invalid}
  BY DEF Inv, TableSound, TypeOK
<1>2. conn[s] = IF clientSockets[s] \in Fds THEN owner[clientSockets[s]]
                ELSE IF clientSockets[s] = Invalid THEN Other ELSE None
  BY DEF conn, ConnAt
<1>3. clientSockets[s] \in Fds => owner[clientSockets[s]] \in Clients
  BY DEF Inv, TableSound, ConnAt
<1>4. QED
  BY <1>1, <1>2, <1>3, Numbers

\* A step that moves no descriptor and no connection stutters, as far as the table goes.
LEMMA Stutter ==
    ASSUME UNCHANGED <<kernel, clientSockets>>
    PROVE  UNCHANGED <<where, closed, broken, sent, got, conn>>
BY DEF where, Where, ConnAt, closed, broken, conn, kernel

LEMMA ClientRefines ==
    ASSUME Inv, NEW c \in Clients, Connect(c) \/ SendData(c) \/ Disconnect(c) \/ Reset(c)
    PROVE  Table!Next
<1>0. TypeOK
  BY DEF Inv, TableSound
<1>1. /\ UNCHANGED <<owner, clientSockets>>
      /\ conn' = conn
  BY DEF Connect, SendData, Disconnect, Reset, server, conn, ConnAt
<1>2. CASE Connect(c)
  <2>1. /\ phase[c] = "new" /\ phase' = [phase EXCEPT ![c] = "open"]
        /\ ToSet(backlog') = ToSet(backlog) \cup {c}
        /\ UNCHANGED <<sent, got>>
    BY <1>0, <1>2, AppendContents DEF Connect, TypeOK
  <2>2. where[c] = "new" /\ where'[c] = "waiting"
    BY <1>0, <2>1 DEF where, Where, TypeOK
  <2>3. \A d \in Clients : d # c => where'[d] = where[d]
    BY <1>0, <1>1, <2>1, WhereKept DEF TypeOK
  <2>4. where' = [where EXCEPT ![c] = "waiting"] /\ closed' = closed /\ broken' = broken
    BY <1>0, <2>1, <2>2, <2>3 DEF where, closed, broken, TypeOK
  <2>5. Table!Connect(c)
    BY <1>1, <2>1, <2>2, <2>4 DEF Table!Connect, where, closed, broken, conn
  <2> QED
    BY <2>5 DEF Table!Next
<1>3. CASE SendData(c)
  <2>1. /\ phase[c] = "open" /\ sent[c] < MaxData /\ sent' = [sent EXCEPT ![c] = @ + 1]
        /\ UNCHANGED <<phase, backlog, owner, got>>
    BY <1>3 DEF SendData
  <2>2. where' = where /\ closed' = closed /\ broken' = broken
    BY <1>1, <2>1 DEF where, Where, ConnAt, closed, broken
  <2>3. where[c] # "new" /\ c \notin closed
    BY <2>1 DEF where, Where, closed, broken
  <2>4. Table!Send(c)
    BY <1>1, <2>1, <2>2, <2>3 DEF Table!Send, where, closed, broken, conn
  <2> QED
    BY <2>4 DEF Table!Next
<1>4. CASE Disconnect(c) \/ Reset(c)
  <2>1. PICK p \in {"closed", "reset"} :
           /\ p = "closed" => phase[c] = "open"
           /\ phase[c] # "new" /\ phase' = [phase EXCEPT ![c] = p]
           /\ UNCHANGED <<backlog, owner, sent, got>>
    BY <1>4 DEF Disconnect, Reset
  <2>2. \A d \in Clients : where'[d] = where[d]
    BY <1>0, <1>1, <2>1, WhereKept DEF TypeOK
  <2>3. where' = where /\ closed' = closed \cup {c}
    BY <1>0, <2>1, <2>2 DEF where, closed, TypeOK
  <2>4. where[c] # "new"
    BY <2>1 DEF where, Where
  <2>5. CASE p = "closed"
    <3>1. broken' = broken
      BY <1>0, <2>1, <2>5 DEF broken, TypeOK
    <3>2. Table!Close(c)
      BY <1>1, <2>1, <2>3, <2>4, <3>1 DEF Table!Close, where, closed, broken, conn
    <3> QED
      BY <3>2 DEF Table!Next
  <2>6. CASE p = "reset"
    <3>1. broken' = broken \cup {c}
      BY <1>0, <2>1, <2>6 DEF broken, TypeOK
    <3>2. Table!Break(c)
      BY <1>1, <2>1, <2>3, <2>4, <3>1 DEF Table!Break, where, closed, broken, conn
    <3> QED
      BY <3>2 DEF Table!Next
  <2> QED
    BY <2>1, <2>5, <2>6
<1> QED
  BY <1>2, <1>3, <1>4

LEMMA OtherRefines ==
    ASSUME Inv, OtherOpens \/ \E f \in Fds : OtherCloses(f)
    PROVE  UNCHANGED <<where, closed, broken, sent, got, conn>>
<1>1. PICK f \in Fds, x \in {Other, None} :
         owner[f] \notin Clients /\ owner' = [owner EXCEPT ![f] = x]
  BY LowestFreeIsFree DEF OtherOpens, OtherCloses
<1>2. UNCHANGED <<phase, backlog, sent, got, clientSockets>>
  BY DEF OtherOpens, OtherCloses, server
<1>3. TypeOK
  BY DEF Inv, TableSound
<1>4. \A g \in Fds : \/ owner'[g] = owner[g]
                     \/ owner'[g] \notin Clients /\ owner[g] \notin Clients
  BY <1>1, <1>3 DEF TypeOK
<1>5. \A s \in Slots : ConnAt(s)' = ConnAt(s)
  BY <1>2, <1>3, <1>4 DEF Inv, TableSound, TypeOK, ConnAt
<1>6. conn' = conn
  BY <1>5 DEF conn
<1>7. \A d \in Clients : where'[d] = where[d]
  BY <1>2, <1>4, <1>6, WhereKept
<1>8. QED
  BY <1>2, <1>6, <1>7 DEF where, closed, broken

LEMMA AcceptRefines == ASSUME Inv, acceptOne PROVE Table!Next
<1> DEFINE f == LowestFree
           c == Head(backlog)
<1>0. TypeOK
  BY DEF Inv, TableSound
<1>1. /\ f \in Fds /\ owner[f] = None /\ owner' = [owner EXCEPT ![f] = c]
      /\ c \in Clients /\ c \in ToSet(backlog)
      /\ \A g \in Fds : owner[g] # c
      /\ ToSet(backlog') = ToSet(backlog) \ {c}
      /\ \A s \in Slots : clientSockets[s] # f
      /\ UNCHANGED <<phase, sent, got>>
  BY AcceptFacts
<1>2. storeSocket(f) \/ leakSocket
  BY DEF acceptOne
<1> HIDE DEF f, c
<1>3. /\ owner'[f] = c
      /\ \A g \in Fds : g # f => owner'[g] = owner[g]
  BY <1>0, <1>1 DEF TypeOK
<1>4. phase[c] # "new" /\ c # None /\ f # Empty
  BY <1>1 DEF Inv, Waiting, Fds, Empty
<1>5. where[c] = "waiting"
  BY <1>1, <1>4 DEF where, Where
<1>6. \A d \in Clients : d # c =>
          (\E g \in Fds : owner'[g] = d) <=> (\E g \in Fds : owner[g] = d)
  <2>1. \A d \in Clients : d # None
    OBVIOUS
  <2>2. QED
    BY <1>1, <1>3, <2>1
<1>7. closed' = closed /\ broken' = broken
  BY <1>1 DEF closed, broken
<1>8. ASSUME storeSocket(f) PROVE \E s \in Slots : Table!Admit(c, s)
  <2>1. PICK s \in Slots :
           /\ clientSockets[s] = Empty
           /\ \A t \in Slots : t < s => clientSockets[t] # Empty
           /\ clientSockets' = [clientSockets EXCEPT ![s] = f]
    BY <1>8, SlotForIsFree DEF storeSocket
  <2>2. clientSockets'[s] = f /\ \A t \in Slots : t # s => clientSockets'[t] = clientSockets[t]
    BY <1>0, <2>1 DEF TypeOK
  <2>3. conn[s] = None /\ \A t \in Slots : t < s => conn[t] # None
    BY <2>1, ConnFacts
  <2>4. conn'[s] = c
    BY <1>1, <1>3, <2>2 DEF conn, ConnAt
  <2>5. ASSUME NEW t \in Slots, t # s PROVE conn'[t] = conn[t]
    <3>1. clientSockets'[t] = clientSockets[t] /\ clientSockets[t] # f
      BY <1>1, <2>2, <2>5
    <3>2. QED
      BY <1>3, <3>1 DEF conn, ConnAt
  <2>6. conn' = [conn EXCEPT ![s] = c]
    BY <2>4, <2>5 DEF conn
  <2>7. where'[c] = "up"
    BY <1>1, <1>4, <2>4 DEF where, Where, conn
  <2>8. ASSUME NEW d \in Clients, d # c PROVE where'[d] = where[d]
    <3>1. (\E t \in Slots : conn'[t] = d) <=> (\E t \in Slots : conn[t] = d)
      BY <2>3, <2>4, <2>5, <2>8
    <3>2. d \in ToSet(backlog') <=> d \in ToSet(backlog)
      BY <1>1, <2>8
    <3>3. QED
      BY <1>1, <1>6, <2>8, <3>1, <3>2, WhereKept
  <2>9. where' = [where EXCEPT ![c] = "up"]
    BY <2>7, <2>8 DEF where
  <2>10. Table!Admit(c, s)
    BY <1>1, <1>5, <1>7, <2>3, <2>6, <2>9 DEF Table!Admit, Table!Slots, Slots, where, closed, broken, conn
  <2>11. QED
    BY <2>10
<1>9. ASSUME leakSocket PROVE Table!Refuse(c)
  <2>1. clientSockets' = clientSockets /\ \A s \in Slots : clientSockets[s] # Empty
    BY <1>9, NoSlotFor DEF leakSocket
  <2>2. \A s \in Slots : conn[s] # None
    BY <2>1, ConnFacts
  <2>3. ASSUME NEW t \in Slots PROVE conn'[t] = conn[t] /\ conn[t] # c
    <3>1. clientSockets[t] # f
      BY <1>1
    <3>2. conn'[t] = conn[t]
      BY <1>3, <2>1, <3>1 DEF conn, ConnAt
    <3>3. conn[t] = c => clientSockets[t] \in Fds /\ owner[clientSockets[t]] = c
      BY <1>1, ConnFacts
    <3>4. QED
      BY <1>1, <3>2, <3>3
  <2>4. conn' = conn
    BY <2>3 DEF conn
  <2>5. where'[c] = "refused"
    <3>1. /\ c \notin ToSet(backlog')
          /\ phase'[c] # "new"
          /\ \A t \in Slots : ConnAt(t)' # c
          /\ owner'[f] = c
      BY <1>1, <1>3, <1>4, <2>3 DEF conn
    <3>2. QED
      BY <1>1, <3>1 DEF where, Where
  <2>6. ASSUME NEW d \in Clients, d # c PROVE where'[d] = where[d]
    <3>1. d \in ToSet(backlog') <=> d \in ToSet(backlog)
      BY <1>1, <2>6
    <3>2. QED
      BY <1>1, <1>6, <2>4, <2>6, <3>1, WhereKept
  <2>7. where' = [where EXCEPT ![c] = "refused"]
    BY <2>5, <2>6 DEF where
  <2>8. QED
    BY <1>1, <1>5, <1>7, <2>2, <2>4, <2>7
       DEF Table!Refuse, Table!Full, Table!Slots, Slots, where, closed, broken, conn
<1>10. QED
  BY <1>1, <1>2, <1>8, <1>9 DEF Table!Next, Table!Slots, Slots

\* A failing accept may drop a connection that broke, and cost a slot.
LEMMA FailingRefines ==
    ASSUME Inv, acceptFails \/ acceptInvalid,
           ~ UNCHANGED <<where, closed, broken, sent, got, conn>>
    PROVE  Table!Next
<1>1. /\ pc = "accept" /\ listener \in readfds /\ Failing
      /\ UNCHANGED <<phase, owner, sent, got>>
      /\ clientSockets' = clientSockets \/ storeSocket(Invalid)
  BY DEF acceptFails, acceptInvalid, leakSocket
<1>2. TypeOK /\ closed' = closed /\ broken' = broken
  BY <1>1 DEF Inv, TableSound, closed, broken
<1>3. where' = where \/ \E c \in Clients : Table!Gone(c)
  <2>1. ASSUME NEW t \in Slots, NEW d \in Clients
        PROVE  conn'[t] = d <=> conn[t] = d
    <3>1. CASE clientSockets'[t] = clientSockets[t]
      BY <1>1, <3>1 DEF conn, ConnAt
    <3>2. CASE clientSockets[t] = Empty /\ clientSockets'[t] = Invalid
      BY <3>2, Numbers DEF conn, ConnAt
    <3>3. QED
      BY <1>1, <1>2, <3>1, <3>2, SlotForIsFree DEF storeSocket, TypeOK
  <2>2. CASE backlog' = backlog
    <3>1. ASSUME NEW d \in Clients PROVE where'[d] = where[d]
      BY <1>1, <2>1, <2>2, WhereKept
    <3>2. QED
      BY <3>1 DEF where
  <2>3. ASSUME NEW c \in Clients, c \in ToSet(backlog), phase[c] = "reset",
               ToSet(backlog') = ToSet(backlog) \ {c}
        PROVE  Table!Gone(c)
    <3>1. where[c] = "waiting" /\ c \in broken
      BY <2>3 DEF where, Where, broken
    <3>2. \A f \in Fds : owner[f] # c
      BY <2>3 DEF Inv, Waiting
    <3>3. \A t \in Slots : conn[t] # c
      BY <3>2, ConnFacts
    <3>4. \A t \in Slots : ConnAt(t)' # c
      BY <2>1, <3>3 DEF conn
    <3>5. where'[c] = "gone"
      BY <1>1, <2>3, <3>2, <3>4 DEF where, Where
    <3>6. ASSUME NEW d \in Clients, d # c PROVE where'[d] = where[d]
      BY <1>1, <2>1, <2>3, <3>6, WhereKept
    <3>7. where' = [where EXCEPT ![c] = "gone"]
      BY <3>5, <3>6 DEF where
    <3>8. QED
      BY <3>1, <3>7 DEF Table!Gone, where, broken
  <2>4. QED
    BY <1>1, <2>2, <2>3, FailingFacts
<1>4. CASE clientSockets' = clientSockets
  <2>1. conn' = conn
    BY <1>1, <1>4 DEF conn, ConnAt
  <2>2. PICK c \in Clients : Table!Gone(c)
    BY <1>1, <1>2, <1>3, <2>1
  <2>3. Table!Drop(c)
    BY <1>1, <1>2, <2>1, <2>2 DEF Table!Drop, where, closed, broken, conn
  <2>4. QED
    BY <2>3 DEF Table!Next
<1>5. CASE storeSocket(Invalid)
  <2>1. PICK s \in Slots :
           /\ clientSockets[s] = Empty
           /\ \A t \in Slots : t < s => clientSockets[t] # Empty
           /\ clientSockets' = [clientSockets EXCEPT ![s] = Invalid]
    BY <1>5, SlotForIsFree DEF storeSocket
  <2>2. conn[s] = None /\ \A t \in Slots : t < s => conn[t] # None
    BY <2>1, ConnFacts
  <2>3. clientSockets'[s] = Invalid /\ \A t \in Slots : t # s => clientSockets'[t] = clientSockets[t]
    BY <1>2, <2>1 DEF TypeOK
  <2>4. conn'[s] = Other
    BY <2>3, Numbers DEF conn, ConnAt
  <2>5. \A t \in Slots : t # s => conn'[t] = conn[t]
    BY <1>1, <2>3 DEF conn, ConnAt
  <2>6. conn' = [conn EXCEPT ![s] = Other]
    BY <2>4, <2>5 DEF conn
  <2>7. Table!Lose(s)
    BY <1>1, <1>2, <1>3, <2>2, <2>6 DEF Table!Lose, Table!Slots, Slots, where, closed, broken, conn
  <2>8. QED
    BY <2>7 DEF Table!Next, Table!Slots, Slots
<1>6. QED
  BY <1>1, <1>4, <1>5

LEMMA ReceiveRefines == ASSUME Inv, receive PROVE Table!Next
<1>1. /\ pc = "scan" /\ here \in readfds
      /\ \E n \in got[peer] + 1 .. sent[peer] : got' = [got EXCEPT ![peer] = n]
      /\ UNCHANGED <<phase, backlog, owner, sent, clientSockets>>
  BY DEF receive
<1>2. i \in Slots /\ here # Empty /\ peer \in Clients
  BY <1>1, ScanFacts
<1>3. conn[i] = peer /\ peer # None
  BY <1>1, <1>2, SlotSockets DEF conn, ConnAt, here, peer, Inv, TableSound
<1>4. UNCHANGED <<where, closed, broken, conn>>
  BY <1>1 DEF where, Where, ConnAt, closed, broken, conn
<1>5. Table!Deliver(i)
  BY <1>1, <1>2, <1>3, <1>4 DEF Table!Deliver, where, closed, broken, conn
<1>6. QED
  BY <1>2, <1>5 DEF Table!Next, Table!Slots, Slots

LEMMA CutRefines == ASSUME Inv, CutConnection PROVE Table!Next
<1>0. TypeOK
  BY DEF Inv, TableSound
<1>1. /\ pc = "scan" /\ here \in readfds /\ AtEnd(peer)
      /\ owner' = [owner EXCEPT ![here] = None]
      /\ clientSockets' = [clientSockets EXCEPT ![i] = Empty]
      /\ UNCHANGED <<phase, backlog, sent, got>>
  BY DEF CutConnection
<1>2. /\ i \in Slots /\ here \in Fds /\ here # Empty
      /\ peer \in Clients /\ owner[here] = peer
      /\ \A t \in Slots : t # i => clientSockets[t] # here
      /\ \A g \in Fds : g # here => owner[g] # peer
  BY <1>1, ScanFacts
<1>3. conn[i] = peer /\ peer # None
  BY <1>1, <1>2, SlotSockets DEF conn, ConnAt, here, peer, Inv, TableSound
<1>4. /\ owner'[here] = None
      /\ \A g \in Fds : g # here => owner'[g] = owner[g]
  BY <1>0, <1>1, <1>2 DEF TypeOK
<1>5. /\ clientSockets'[i] = Empty
      /\ \A t \in Slots : t # i => clientSockets'[t] = clientSockets[t]
  BY <1>0, <1>1, <1>2 DEF TypeOK
<1>6. conn'[i] = None
  BY <1>2, <1>5, Numbers DEF conn, ConnAt
<1>7. ASSUME NEW t \in Slots, t # i PROVE conn'[t] = conn[t] /\ conn[t] # peer
  <2>1. clientSockets'[t] = clientSockets[t] /\ clientSockets[t] # here
    BY <1>2, <1>5, <1>7
  <2>2. conn'[t] = conn[t]
    BY <1>4, <2>1 DEF conn, ConnAt
  <2>3. conn[t] = peer => clientSockets[t] \in Fds /\ owner[clientSockets[t]] = peer
    BY <1>2, ConnFacts
  <2>4. QED
    BY <1>2, <2>1, <2>2, <2>3
<1>8. conn' = [conn EXCEPT ![i] = None]
  BY <1>6, <1>7 DEF conn
<1>9. where'[peer] = "gone"
  <2>1. phase'[peer] # "new" /\ peer \notin ToSet(backlog')
    BY <1>1, <1>2 DEF Inv, Waiting
  <2>2. \A t \in Slots : conn'[t] # peer
    BY <1>3, <1>6, <1>7
  <2>3. \A g \in Fds : owner'[g] # peer
    BY <1>2, <1>3, <1>4
  <2>4. QED
    BY <1>2, <2>1, <2>2, <2>3 DEF where, Where, conn
<1>10. ASSUME NEW d \in Clients, d # peer PROVE where'[d] = where[d]
  <2>1. (\E t \in Slots : conn'[t] = d) <=> (\E t \in Slots : conn[t] = d)
    BY <1>3, <1>6, <1>7, <1>10
  <2>2. (\E g \in Fds : owner'[g] = d) <=> (\E g \in Fds : owner[g] = d)
    BY <1>2, <1>4, <1>10
  <2>3. QED
    BY <1>1, <2>1, <2>2, WhereKept
<1>11. where' = [where EXCEPT ![peer] = "gone"] /\ closed' = closed /\ broken' = broken
  BY <1>1, <1>9, <1>10 DEF where, closed, broken
<1>12. Table!Cut(i)
  BY <1>1, <1>2, <1>3, <1>8, <1>11 DEF AtEnd, Table!Cut, where, closed, broken, conn
<1>13. QED
  BY <1>2, <1>12 DEF Table!Next, Table!Slots, Slots

LEMMA RefinementStep == Inv /\ [Next]_vars => [Table!Next]_(Table!vars)
<1> SUFFICES ASSUME Inv, [Next]_vars PROVE [Table!Next]_(Table!vars)
  OBVIOUS
<1>1. CASE UNCHANGED <<where, closed, broken, sent, got, conn>>
  BY <1>1 DEF Table!vars, where, closed, broken, conn
<1>2. CASE \E c \in Clients : Connect(c) \/ SendData(c) \/ Disconnect(c) \/ Reset(c)
  BY <1>2, ClientRefines
<1>3. CASE OtherOpens \/ \E f \in Fds : OtherCloses(f)
  BY <1>1, <1>3, OtherRefines
<1>4. CASE acceptOne \/ receive \/ CutConnection
  BY <1>4, AcceptRefines, ReceiveRefines, CutRefines
<1>5. CASE acceptFails \/ acceptInvalid
  BY <1>1, <1>5, FailingRefines
<1>6. CASE select \/ selectFails \/ noConnection \/ skipSlot \/ UNCHANGED vars
  <2>1. UNCHANGED <<kernel, clientSockets>>
    BY <1>6 DEF select, selectFails, noConnection, skipSlot, vars, server
  <2>2. QED
    BY <1>1, <2>1, Stutter
<1>7. QED
  BY <1>2, <1>3, <1>4, <1>5, <1>6 DEF Next, server_loop

\* The select loop keeps the table its derived class relies on: lowest free slot first,
\* what is delivered comes at the slot of its sender, a slot is given up only after the
\* last of its data or because the connection broke, a connection is refused only when
\* the table is full, and a failing accept (on Windows) costs a free slot and no other.
THEOREM TableImplemented == Spec => ConnectionTableSpec
<1>1. Init => Table!Init
  <2> SUFFICES ASSUME Init PROVE Table!Init
    OBVIOUS
  <2>1. where = [c \in Clients |-> "new"] /\ closed = {}
    BY DEF Init, where, Where, closed, broken
  <2>2. conn = [s \in Slots |-> None]
    BY Numbers DEF Init, conn, ConnAt
  <2>3. QED
    BY <2>1, <2>2 DEF Init, Table!Init, Table!Slots, Slots, where, closed, broken, conn
<1>2. QED
  BY <1>1, RefinementStep, Invariant, PTL DEF Spec, ConnectionTableSpec, Table!Spec
=============================================================================
