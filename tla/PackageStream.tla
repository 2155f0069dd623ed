--------------------------- MODULE PackageStream ----------------------------
(***************************************************************************)
(* From bytes to packages: what the manager makes of the streams of its    *)
(* connections (Event_ReceivedData and handlePackage of IoTManager.cpp,    *)
(* the framing of IoTUtility.cpp).  TCP delivers the bytes of a connection *)
(* in order but in pieces of any size; the manager appends each piece to   *)
(* the packageBuffer of the connection's SLOT and takes complete packages  *)
(* off its head.  Nothing empties that buffer when the connection goes.    *)
(*                                                                         *)
(* A client is one connection: a broker that comes back is another client. *)
(***************************************************************************)
EXTENDS Framing

CONSTANTS
    MaxClient,      \* slots
    Clients,        \* connections ever made
    MaxPackages,    \* bound: packages a client sends
    MaxRecv,        \* cells one recv may return (maxReceiveBuffer)
    None

ASSUME StreamAssumption ==
    /\ MaxClient \in Nat \ {0}
    /\ MaxPackages \in Nat
    /\ MaxRecv \in Nat \ {0}
    /\ None \notin Clients /\ None \notin Nat

Slots == 0 .. MaxClient - 1

VARIABLES
    phase,      \* of each client: "new", "up", "closed" (no more bytes), "gone"
    sentCount,  \* packages each client has sent
    wire,       \* bytes on their way from each client
    conn,       \* client at each slot
    buf,        \* packageBuffer of each slot
    busy,       \* slot handlePackage is at work for, None in the select loop
    broken,     \* history: clients whose connection broke
    handled,    \* history: packages taken from each client's connection
    tainted,    \* history: clients that found bytes in their slot's buffer
    alive

client == <<phase, sentCount, wire>>
history == <<broken, handled, tainted>>
vars == <<client, conn, buf, busy, history, alive>>

Init ==
    /\ phase = [c \in Clients |-> "new"]
    /\ sentCount = [c \in Clients |-> 0]
    /\ wire = [c \in Clients |-> <<>>]
    /\ conn = [s \in Slots |-> None]
    /\ buf = [s \in Slots |-> <<>>]
    /\ busy = None
    /\ broken = {}
    /\ handled = [c \in Clients |-> <<>>]
    /\ tainted = {}
    /\ alive = TRUE

-----------------------------------------------------------------------------
(* Clients.                                                                *)

SendPackage(c, len) ==
    /\ phase[c] = "up"
    /\ sentCount[c] < MaxPackages
    /\ sentCount' = [sentCount EXCEPT ![c] = @ + 1]
    /\ wire' = [wire EXCEPT ![c] = @ \o Cells(c, sentCount[c] + 1, len)]
    /\ UNCHANGED <<phase, conn, buf, busy, history, alive>>

\* An orderly close: the manager still gets every byte sent.
Close(c) ==
    /\ phase[c] = "up"
    /\ phase' = [phase EXCEPT ![c] = "closed"]
    /\ UNCHANGED <<sentCount, wire, conn, buf, busy, history, alive>>

\* A broken connection: any tail of what the manager has not read is lost.
Break(c) ==
    /\ phase[c] = "up"
    /\ phase' = [phase EXCEPT ![c] = "closed"]
    /\ \E n \in 0 .. Len(wire[c]) : wire' = [wire EXCEPT ![c] = SubSeq(@, 1, n)]
    /\ broken' = broken \cup {c}
    /\ UNCHANGED <<sentCount, conn, buf, busy, handled, tainted, alive>>

-----------------------------------------------------------------------------
(* The server thread.                                                      *)

Idle == alive /\ busy = None

\* A new connection gets the lowest free slot, with the buffer as it is.
NewConnection(c) ==
    /\ Idle
    /\ phase[c] = "new"
    /\ phase' = [phase EXCEPT ![c] = "up"]
    /\ \E s \in Slots :
         /\ conn[s] = None
         /\ \A t \in Slots : t < s => conn[t] # None
         /\ conn' = [conn EXCEPT ![s] = c]
         /\ tainted' = IF buf[s] # <<>> THEN tainted \cup {c} ELSE tainted
    /\ UNCHANGED <<sentCount, wire, buf, busy, broken, handled, alive>>

\* recv returns some of what is on the wire, and Event_ReceivedData appends it.
ReceivedData(s) ==
    /\ Idle
    /\ conn[s] # None
    /\ \E n \in 1 .. MaxRecv :
         /\ n <= Len(wire[conn[s]])
         /\ buf' = [buf EXCEPT ![s] = @ \o SubSeq(wire[conn[s]], 1, n)]
         /\ wire' = [wire EXCEPT ![conn[s]] = SubSeq(@, n + 1, Len(@))]
    /\ busy' = s
    /\ UNCHANGED <<phase, sentCount, conn, history, alive>>

\* Mutant: one package per event (no do ... while).
OnePackageOnly ==
    /\ alive /\ busy # None
    /\ LET b == buf[busy]
       IN  \/ /\ Inspect(b) = "NoError"
              /\ buf' = [buf EXCEPT ![busy] = Rest(b)]
              /\ handled' = [handled EXCEPT ![conn[busy]] = Append(@, Package(b))]
              /\ busy' = None
              /\ UNCHANGED alive
           \/ /\ Inspect(b) # "NoError"
              /\ busy' = None
              /\ UNCHANGED <<buf, handled, alive>>
    /\ UNCHANGED <<client, conn, broken, tainted>>

\* One round of handlePackage's loop: a package, or the end of the event.
takePackage(b) ==
    /\ Inspect(b) = "NoError"
    /\ handled' = [handled EXCEPT ![conn[busy]] = Append(@, Package(b))]
    /\ buf' = [buf EXCEPT ![busy] = Rest(b)]
    /\ UNCHANGED <<busy, alive>>

awaitMore(b) ==
    /\ Inspect(b) \in NotCompleted
    /\ busy' = None
    /\ UNCHANGED <<buf, handled, alive>>

clearBuffer(b) ==
    /\ Inspect(b) \in DataErrors
    /\ buf' = [buf EXCEPT ![busy] = <<>>]
    /\ busy' = None
    /\ UNCHANGED <<handled, alive>>

throwOut(b) ==
    /\ Inspect(b) = "Throws"
    /\ alive' = FALSE
    /\ UNCHANGED <<buf, busy, handled>>

handlePackage ==
    /\ alive /\ busy # None
    /\ \/ takePackage(buf[busy])
       \/ awaitMore(buf[busy])
       \/ clearBuffer(buf[busy])
       \/ throwOut(buf[busy])
    /\ UNCHANGED <<client, conn, broken, tainted>>

\* recv returns 0 or an error: the slot is free again, its buffer is left.
CutConnection(s) ==
    /\ Idle
    /\ conn[s] # None
    /\ phase[conn[s]] = "closed" /\ wire[conn[s]] = <<>>
    /\ phase' = [phase EXCEPT ![conn[s]] = "gone"]
    /\ conn' = [conn EXCEPT ![s] = None]
    /\ UNCHANGED <<sentCount, wire, buf, busy, history, alive>>

Next ==
    \/ \E c \in Clients : \/ \E len \in PackageLengths : SendPackage(c, len)
                          \/ Close(c)
                          \/ Break(c)
                          \/ NewConnection(c)
    \/ \E s \in Slots : ReceivedData(s) \/ CutConnection(s)
    \/ handlePackage

\* The select loop serves every slot that is ready (TcpServer), and handlePackage
\* runs to its end.
Fairness ==
    /\ \A s \in Slots : SF_vars(ReceivedData(s)) /\ SF_vars(CutConnection(s))
    /\ WF_vars(handlePackage)

Spec == Init /\ [][Next]_vars /\ Fairness

-----------------------------------------------------------------------------
(* Properties.                                                             *)

\* Streams and buffers are cells of packages, and handlePackage only works for
\* slots that are connected.
Cell == [c : Clients, n : 1 .. MaxPackages, len : PackageLengths, k : Nat]
TypeOK ==
    /\ phase \in [Clients -> {"new", "up", "closed", "gone"}]
    /\ sentCount \in [Clients -> 0 .. MaxPackages]
    /\ wire \in [Clients -> Seq(Cell)]
    /\ conn \in [Slots -> Clients \cup {None}]
    /\ buf \in [Slots -> Seq(Cell)]
    /\ busy \in Slots \cup {None}
    /\ busy # None => conn[busy] # None
    /\ broken \subseteq Clients
    /\ handled \in [Clients -> Seq([c : Clients, n : 1 .. MaxPackages])]
    /\ tainted \subseteq Clients
    /\ alive \in BOOLEAN

\* The packages of client c that it has sent, in order.
Sent(c) == [n \in 1 .. sentCount[c] |-> [c |-> c, n |-> n]]

\* However the stream is cut into pieces, the manager handles the packages of a
\* connection whole, once each and in order - if no earlier connection left bytes
\* in the slot's buffer.
InOrder == \A c \in Clients \ tainted : IsPrefix(handled[c], Sent(c))

\* Nor does a slot with bytes of an earlier connection ever yield a package that
\* was not sent over the connection it is handled for, or one twice.
NothingForged ==
    \A c \in Clients :
        /\ \A i \in DOMAIN handled[c] : handled[c][i].c = c
        /\ \A i, j \in DOMAIN handled[c] : i < j => handled[c][i].n < handled[c][j].n

\* The two together.
HandledWasSent == TypeOK /\ InOrder /\ NothingForged

\* Every package sent over a connection that does not break is handled - unless
\* the slot's buffer held bytes of an earlier connection, or the process died.
AllHandled ==
    \A c \in Clients : \A n \in 1 .. MaxPackages :
        sentCount[c] = n ~> Len(handled[c]) >= n \/ c \in broken \cup tainted \/ ~ alive

\* "data error, need to clear the buffer" (handlePackage): a buffer that does not
\* hold a package is cleared, and the manager goes on.  Not so when a connection
\* broke off in a header and the next one in its slot completes it: std::stoi throws.
DataErrorsCleared == alive
=============================================================================
