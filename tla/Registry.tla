------------------------------ MODULE Registry ------------------------------
(***************************************************************************)
(* What the manager promises about its device table, whatever threads and  *)
(* vectors it is built from.  A connection slot is free or holds a broker; *)
(* a device has at most one registration, made over a connection of the    *)
(* broker that hosts it; a registration is forgotten only after its        *)
(* connection was cut, and it is forgotten before the slot of that         *)
(* connection is given to anybody else.                                    *)
(***************************************************************************)
EXTENDS Integers

CONSTANTS
    Slots,      \* indexes of the connection table
    Brokers,    \* peers that connect
    Devices,    \* device ids
    Ips,        \* IoT ips the manager may hand out
    Host,       \* the broker each device sits behind
    None        \* a free slot, an absent registration

VARIABLES
    link,       \* [Slots -> Brokers \cup {None}]
    reg,        \* [Devices -> registrations \cup {None}]
    up          \* FALSE once the process has died

vars == <<link, reg, up>>

Init ==
    /\ link = [s \in Slots |-> None]
    /\ reg = [d \in Devices |-> None]
    /\ up = TRUE

\* A slot is reused only when nothing is registered behind it any more.
Connect(s, b) ==
    /\ up
    /\ link[s] = None
    /\ \A d \in Devices : reg[d] # None => reg[d].slot # s
    /\ link' = [link EXCEPT ![s] = b]
    /\ UNCHANGED <<reg, up>>

Cut(s) ==
    /\ up
    /\ link[s] # None
    /\ link' = [link EXCEPT ![s] = None]
    /\ UNCHANGED <<reg, up>>

\* A (re-)registration replaces the device's own entry and no other; no two
\* registered devices share an IoT ip.
Register(d, ip, s) ==
    /\ up
    /\ link[s] = Host[d]
    /\ \A e \in Devices \ {d} : reg[e] # None => reg[e].ip # ip
    /\ reg' = [reg EXCEPT ![d] = [ip |-> ip, dev |-> d, slot |-> s]]
    /\ UNCHANGED <<link, up>>

Forget(d) ==
    /\ up
    /\ reg[d] # None
    /\ link[reg[d].slot] = None
    /\ reg' = [reg EXCEPT ![d] = None]
    /\ UNCHANGED <<link, up>>

Crash ==
    /\ up' = FALSE
    /\ UNCHANGED <<link, reg>>

Next ==
    \/ \E s \in Slots, b \in Brokers : Connect(s, b)
    \/ \E s \in Slots : Cut(s)
    \/ \E d \in Devices, ip \in Ips, s \in Slots : Register(d, ip, s)
    \/ \E d \in Devices : Forget(d)
    \/ Crash

\* Registrations behind a cut connection do go away.
Spec == Init /\ [][Next]_vars /\ \A d \in Devices : WF_vars(Forget(d))
=============================================================================
