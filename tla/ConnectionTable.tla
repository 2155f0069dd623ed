-------------------------- MODULE ConnectionTable ---------------------------
(***************************************************************************)
(* What TcpServer promises the class derived from it: a table of at most   *)
(* MaxClient connections.  A connection gets the lowest free slot, or none *)
(* when the table is full; what it sends is delivered at that slot, and    *)
(* the slot is given up only after the last of it, or when the connection  *)
(* broke.  A slot may be lost to a connection that failed.                 *)
(***************************************************************************)
EXTENDS Integers

CONSTANTS MaxClient, Clients, MaxData, None, Lost

Slots == 0 .. MaxClient - 1

VARIABLES
    where,      \* of each client: "new", "waiting", "up", "refused", "gone"
    closed,     \* clients whose end is closed
    broken,     \* those of them whose connection broke
    sent, got,  \* pieces of data sent by, and delivered from, each client
    conn        \* client at each slot, None, or Lost

vars == <<where, closed, broken, sent, got, conn>>

Init ==
    /\ where = [c \in Clients |-> "new"]
    /\ closed = {}
    /\ broken = {}
    /\ sent = [c \in Clients |-> 0]
    /\ got = [c \in Clients |-> 0]
    /\ conn = [s \in Slots |-> None]

Connect(c) ==
    /\ where[c] = "new"
    /\ where' = [where EXCEPT ![c] = "waiting"]
    /\ UNCHANGED <<closed, broken, sent, got, conn>>

Send(c) ==
    /\ where[c] # "new" /\ c \notin closed
    /\ sent[c] < MaxData
    /\ sent' = [sent EXCEPT ![c] = @ + 1]
    /\ UNCHANGED <<where, closed, broken, got, conn>>

Close(c) ==
    /\ where[c] # "new"
    /\ closed' = closed \cup {c}
    /\ UNCHANGED <<where, broken, sent, got, conn>>

Break(c) ==
    /\ where[c] # "new"
    /\ closed' = closed \cup {c}
    /\ broken' = broken \cup {c}
    /\ UNCHANGED <<where, sent, got, conn>>

Full == \A s \in Slots : conn[s] # None

Admit(c, s) ==
    /\ where[c] = "waiting"
    /\ conn[s] = None
    /\ \A t \in Slots : t < s => conn[t] # None
    /\ where' = [where EXCEPT ![c] = "up"]
    /\ conn' = [conn EXCEPT ![s] = c]
    /\ UNCHANGED <<closed, broken, sent, got>>

Refuse(c) ==
    /\ where[c] = "waiting"
    /\ Full
    /\ where' = [where EXCEPT ![c] = "refused"]
    /\ UNCHANGED <<closed, broken, sent, got, conn>>

\* A connection that broke before it was accepted.
Gone(c) ==
    /\ where[c] = "waiting"
    /\ c \in broken
    /\ where' = [where EXCEPT ![c] = "gone"]

Drop(c) ==
    /\ Gone(c)
    /\ UNCHANGED <<closed, broken, sent, got, conn>>

\* A slot goes to no connection, be it instead of one that broke.
Lose(s) ==
    /\ conn[s] = None
    /\ \A t \in Slots : t < s => conn[t] # None
    /\ conn' = [conn EXCEPT ![s] = Lost]
    /\ UNCHANGED where \/ \E c \in Clients : Gone(c)
    /\ UNCHANGED <<closed, broken, sent, got>>

Deliver(s) ==
    /\ conn[s] \in Clients
    /\ \E n \in got[conn[s]] + 1 .. sent[conn[s]] : got' = [got EXCEPT ![conn[s]] = n]
    /\ UNCHANGED <<where, closed, broken, sent, conn>>

Cut(s) ==
    /\ \/ conn[s] \in closed /\ got[conn[s]] = sent[conn[s]]
       \/ conn[s] \in broken
    /\ where' = [where EXCEPT ![conn[s]] = "gone"]
    /\ conn' = [conn EXCEPT ![s] = None]
    /\ UNCHANGED <<closed, broken, sent, got>>

Next ==
    \/ \E c \in Clients : Connect(c) \/ Send(c) \/ Close(c) \/ Break(c)
    \/ \E c \in Clients : Refuse(c) \/ Drop(c)
    \/ \E c \in Clients, s \in Slots : Admit(c, s)
    \/ \E s \in Slots : Lose(s) \/ Deliver(s) \/ Cut(s)

Spec == Init /\ [][Next]_vars
=============================================================================
