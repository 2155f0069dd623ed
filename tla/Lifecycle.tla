------------------------------ MODULE Lifecycle ------------------------------
(***************************************************************************)
(* The life of the process (main.cpp): main starts the broadcast server,   *)
(* the manager, its ruler and the brokers, waits for a key and stops them  *)
(* in the order brokers, ruler, manager, broadcast server.  A thread is    *)
(* stopped from outside, by SuspendThread and TerminateThread (thread.cpp; *)
(* main.cpp includes direct.h, so this is the Windows build).              *)
(*                                                                         *)
(* Brokers register through the select loop of the server thread: each     *)
(* askIoTIp is a connection of its own, opened and closed while the        *)
(* broker's connection stays open, and main waits for each answer.  What a *)
(* manager does with packages is in IoTManager, a rescan in LoRaBroker; of *)
(* both the module keeps what starting and stopping depend on.  A step     *)
(* that allocates holds the lock of the process heap, which a thread that  *)
(* is terminated there never releases.                                     *)
(***************************************************************************)
EXTENDS Integers, FiniteSets, SequencesExt

CONSTANTS
    MaxClient,      \* slots of clientSockets
    Brokers,        \* brokerList, a sequence
    LoRaDevices,    \* LoRaDevices[b]: the devices broker b finds, a sequence
    Peers,          \* programs that look for the manager and install rules
    MaxRules,       \* bound: rules ever installed
    None, Nobody

\* What broker b registers: its devices, and then itself.
ToRegister(b) == Append(LoRaDevices[b], b)
Asks == UNION { {b} \X DOMAIN ToRegister(b) : b \in ToSet(Brokers) }
Sockets == ToSet(Brokers) \cup Peers \cup Asks
Registrants == UNION { ToSet(ToRegister(b)) : b \in ToSet(Brokers) }
Slots == 0 .. MaxClient - 1
Threads == {"udp", "server", "ruler"}

ASSUME LifecycleAssumption ==
    /\ MaxClient \in Nat /\ MaxRules \in Nat
    \* one slot for the connection of each broker, one for an askIoTIp, one for the
    \* askIoTIp before it, of which the server has not yet seen the end
    /\ MaxClient >= Len(Brokers) + Cardinality(Peers) + 2

VARIABLES
    pc,         \* of main
    at,         \* the broker, and the device or rule, that main's loops are at
    run,        \* threads: "none", "running", "ended", "killed"
    listening,  \* threads whose socket is bound
    started,    \* brokers with IsStarted
    heapLock,   \* who holds the lock of the process heap
    rules,      \* Ruler::rules: the id of each, and the device it reads
    nextRuleId,
    freed,      \* ids of the rules that were deleted
    \* server thread
    server,     \* pc, and the slots select reported that are still to be read
    conn,       \* clientSockets
    devices,    \* registed_devices: the slot of each registrant, or None
    \* ruler thread
    scan,       \* pc, i and count of scanRules
    \* what is outside
    backlog,    \* connections not yet accepted
    inbox,      \* packages sent over each socket
    closed,     \* sockets their client closed
    answered,   \* sockets that got an ip
    hello,      \* peers that broadcast ("asked") and got "Hi"
    installed,  \* rules ever installed
    fails,      \* what does not work: the bind of a thread, the serial port
    prompt,     \* ms_sleep(100) is long enough for the server to listen
    fault       \* <<who, what>> that ended the process, or None

main == <<pc, at>>
process == <<run, listening, heapLock>>
ruleVars == <<rules, nextRuleId, freed>>
manager == <<ruleVars, server, conn, devices>>
network == <<backlog, inbox, closed, answered>>
world == <<hello, installed, fails, prompt>>
vars == <<main, process, started, manager, scan, network, world, fault>>

First == [broker |-> 1, i |-> 0, count |-> 0]

TypeOK ==
    /\ pc \in {"start udp", "start manager", "start ruler", "sleep", "connect", "open",
               "ask", "wait", "register", "pause", "stop", "stop ruler", "free",
               "stop manager", "stop udp", "return", "ended"}
    /\ run \in [Threads -> {"none", "running", "ended", "killed"}]
    /\ heapLock \in Threads \cup {Nobody}
    /\ conn \in [Slots -> Sockets \cup {None}]
    /\ devices \in [Registrants -> Slots \cup {None}]

Init ==
    /\ pc = "start udp" /\ at = First
    /\ run = [t \in Threads |-> "none"]
    /\ listening = {} /\ started = {} /\ heapLock = Nobody
    /\ rules = <<>> /\ nextRuleId = 0 /\ freed = {}
    /\ server = [pc |-> "select", ready |-> {}]
    /\ conn = [s \in Slots |-> None]
    /\ devices = [d \in Registrants |-> None]
    /\ scan = [pc |-> "sleep", i |-> 0, count |-> 0]
    /\ backlog = <<>> /\ inbox = [c \in Sockets |-> <<>>]
    /\ closed = {} /\ answered = {}
    /\ hello = [p \in Peers |-> "none"] /\ installed = 0
    /\ fails \in SUBSET {"udp", "server", "port"}
    /\ prompt \in BOOLEAN
    /\ fault = None

alive == fault = None /\ pc # "ended"
Runs(t) == alive /\ run[t] = "running"
Goto(next) == pc' = next /\ UNCHANGED at

-----------------------------------------------------------------------------
(* main: starting.                                                         *)

\* Thread_create and Thread_run.
Start(t, from, to) ==
    /\ alive /\ pc = from
    /\ run' = [run EXCEPT ![t] = "running"]
    /\ Goto(to)
    /\ UNCHANGED <<listening, heapLock, started, manager, scan, network, world, fault>>

\* ms_sleep: nothing says that a thread got to run meanwhile.
Sleep ==
    /\ alive /\ pc = "sleep"
    /\ prompt => run["server"] = "ended" \/ "server" \in listening
    /\ Goto(IF Brokers = <<>> THEN "pause" ELSE "connect")
    /\ UNCHANGED <<process, started, manager, scan, network, world, fault>>

broker == Brokers[at.broker]
ask == <<broker, at.i>>

\* StartAllBroker, StopAllBroker: on to the next broker.
NextBroker(again, done) ==
    IF at.broker < Len(Brokers)
      THEN pc' = again /\ at' = [First EXCEPT !.broker = at.broker + 1]
      ELSE pc' = done /\ at' = First

\* connect() returns once the listener has the connection in its backlog.
Connect(c) == backlog' = Append(backlog, c)

\* Start: the connection of the broker; if that is refused the broker never starts.
ConnectBroker ==
    /\ alive /\ pc = "connect"
    /\ IF "server" \in listening
         THEN Connect(broker) /\ Goto("open")
         ELSE UNCHANGED backlog /\ NextBroker("connect", "pause")
    /\ UNCHANGED <<process, started, manager, scan, inbox, closed, answered, world, fault>>

\* With the serial port not open the connection is left as it is.
OpenPort ==
    /\ alive /\ pc = "open"
    /\ IF "port" \in fails
         THEN NextBroker("connect", "pause") /\ UNCHANGED started
         ELSE /\ started' = started \cup {broker}
              /\ pc' = "ask" /\ at' = [at EXCEPT !.i = 1]
    /\ UNCHANGED <<process, manager, scan, network, world, fault>>

\* askIoTIp: a new connection, the package from "0" to "0" ...
AskIoTIp ==
    /\ alive /\ pc = "ask"
    /\ Connect(ask)
    /\ inbox' = [inbox EXCEPT ![ask] = << <<"ask", None>> >>]
    /\ Goto("wait")
    /\ UNCHANGED <<process, started, manager, scan, closed, answered, world, fault>>

\* Mutant: askIoTIp returns without Disconnect.
LeaveOpen(c) == UNCHANGED closed

Disconnect(c) == closed' = closed \cup {c}

\* ... and, when the answer is there, its end.
GotIoTIp ==
    /\ alive /\ pc = "wait"
    /\ ask \in answered
    /\ Disconnect(ask)
    /\ Goto("register")
    /\ UNCHANGED <<process, started, manager, scan, backlog, inbox, answered, world, fault>>

\* The description goes over the connection of the broker.
Register ==
    /\ alive /\ pc = "register"
    /\ inbox' = [inbox EXCEPT ![broker] = Append(@, <<"register", ToRegister(broker)[at.i]>>)]
    /\ IF at.i < Len(ToRegister(broker))
         THEN pc' = "ask" /\ at' = [at EXCEPT !.i = @ + 1]
         ELSE NextBroker("connect", "pause")
    /\ UNCHANGED <<process, started, manager, scan, backlog, closed, answered, world, fault>>

-----------------------------------------------------------------------------
(* main: stopping.                                                         *)

\* PAUSE ends.
Key ==
    /\ alive /\ pc = "pause"
    /\ pc' = (IF Brokers = <<>> THEN "stop ruler" ELSE "stop") /\ at' = First
    /\ UNCHANGED <<process, started, manager, scan, network, world, fault>>

\* The threads of a broker run on, with their socket closed.
StopBroker ==
    /\ alive /\ pc = "stop"
    /\ IF broker \in started THEN Disconnect(broker) ELSE UNCHANGED closed
    /\ NextBroker("stop", "stop ruler")
    /\ UNCHANGED <<process, started, manager, scan, backlog, inbox, answered, world, fault>>

\* Thread_stop and Thread_kill: whatever the thread was doing.
Kill(t) == run' = [run EXCEPT ![t] = IF @ = "running" THEN "killed" ELSE @]

\* Mutant: the ruler is killed after its rules were deleted.
KillLast ==
    /\ alive /\ pc = "stop ruler"
    /\ pc' = "free" /\ at' = [First EXCEPT !.i = 1, !.count = Len(rules)]
    /\ UNCHANGED <<process, started, manager, scan, network, world, fault>>

StopRuler ==
    /\ alive /\ pc = "stop ruler"
    /\ Kill("ruler")
    /\ pc' = "free" /\ at' = [First EXCEPT !.i = 1, !.count = Len(rules)]
    /\ UNCHANGED <<listening, heapLock, started, manager, scan, network, world, fault>>

\* delete rules.at(i).rule, for as many rules as there were.
FreeRule ==
    /\ alive /\ pc = "free"
    /\ at.i <= at.count
    /\ IF at.i > Len(rules)
         THEN fault' = <<"main", "range">> /\ UNCHANGED <<at, freed>>
         ELSE /\ heapLock = Nobody
              /\ freed' = freed \cup {rules[at.i].id}
              /\ at' = [at EXCEPT !.i = @ + 1]
              /\ UNCHANGED fault
    /\ UNCHANGED <<pc, process, started, rules, nextRuleId, server, conn, devices, scan,
                   network, world>>

RulesFreed ==
    /\ alive /\ pc = "free"
    /\ at.i > at.count
    /\ pc' = "stop manager" /\ at' = First
    /\ UNCHANGED <<process, started, manager, scan, network, world, fault>>

\* StopManager and, for the broadcast server, StopServer.
StopServer(t, from, to) ==
    /\ alive /\ pc = from
    /\ Kill(t)
    /\ Goto(to)
    /\ UNCHANGED <<listening, heapLock, started, manager, scan, network, world, fault>>

\* The destructors of main's locals free memory.
Return ==
    /\ alive /\ pc = "return"
    /\ heapLock = Nobody
    /\ Goto("ended")
    /\ UNCHANGED <<process, started, manager, scan, network, world, fault>>

-----------------------------------------------------------------------------
(* The threads.                                                            *)

\* The beginning of either server loop: the socket is bound, or the thread ends.
Bind(t) ==
    /\ Runs(t) /\ t \notin listening
    /\ IF t \in fails
         THEN run' = [run EXCEPT ![t] = "ended"] /\ UNCHANGED listening
         ELSE listening' = listening \cup {t} /\ UNCHANGED run
    /\ UNCHANGED <<main, heapLock, started, manager, scan, network, world, fault>>

Release(t) ==
    /\ Runs(t) /\ heapLock = t
    /\ heapLock' = Nobody
    /\ UNCHANGED <<main, run, listening, started, manager, scan, network, world, fault>>

\* BrocastServer: "Hi", from a socket that is bound.
AnswerBroadcast(p) ==
    /\ Runs("udp") /\ "udp" \in listening /\ heapLock = Nobody
    /\ hello[p] = "asked"
    /\ hello' = [hello EXCEPT ![p] = "Hi"]
    /\ heapLock' = "udp"
    /\ UNCHANGED <<main, run, listening, started, manager, scan, network, installed, fails,
                   prompt, fault>>

Readable(c) == inbox[c] # <<>> \/ c \in closed
freeSlots == { s \in Slots : conn[s] = None }
IsLowest(s, S) == s \in S /\ \A r \in S : s <= r
ServerRuns == Runs("server") /\ heapLock # "server"

\* select, and accept if the listener is among what it reports.  A connection for
\* which there is no slot is neither kept nor closed.
Select ==
    /\ ServerRuns /\ "server" \in listening /\ server.pc = "select" /\ server.ready = {}
    /\ LET ready == { s \in Slots : conn[s] # None /\ Readable(conn[s]) }
       IN  /\ ready # {} \/ backlog # <<>>
           /\ server' = [server EXCEPT !.ready = ready]
    /\ \/ backlog = <<>> /\ UNCHANGED <<backlog, conn>>
       \/ backlog # <<>> /\ freeSlots = {} /\ backlog' = Tail(backlog) /\ UNCHANGED conn
       \/ /\ backlog # <<>> /\ backlog' = Tail(backlog)
          /\ \E s \in freeSlots :
               IsLowest(s, freeSlots) /\ conn' = [conn EXCEPT ![s] = Head(backlog)]
    /\ UNCHANGED <<main, process, started, ruleVars, devices, scan, inbox, closed, answered,
                   world, fault>>

\* The slot the loop over select's result is at.
Reads(s) == ServerRuns /\ server.pc = "select" /\ IsLowest(s, server.ready)
ReadOn(s, next) == server' = [pc |-> next, ready |-> server.ready \ {s}]

\* recv and the handler of one package.
HandlePackage(s) ==
    /\ Reads(s) /\ inbox[conn[s]] # <<>>
    /\ heapLock = Nobody /\ heapLock' = "server"
    /\ inbox' = [inbox EXCEPT ![conn[s]] = Tail(@)]
    /\ LET package == Head(inbox[conn[s]])
       IN  \/ /\ package[1] = "ask"
              /\ answered' = answered \cup {conn[s]} /\ ReadOn(s, "select")
              /\ UNCHANGED <<devices, rules, nextRuleId>>
           \/ /\ package[1] = "register"
              /\ devices' = [devices EXCEPT ![package[2]] = s] /\ ReadOn(s, "reload")
              /\ UNCHANGED <<answered, rules, nextRuleId>>
           \/ /\ package[1] = "rule"
              /\ rules' = Append(rules, [id |-> nextRuleId, device |-> package[2]])
              /\ nextRuleId' = nextRuleId + 1 /\ ReadOn(s, "select")
              /\ UNCHANGED <<answered, devices>>
    /\ UNCHANGED <<main, run, listening, started, freed, conn, scan, backlog, closed, world,
                   fault>>

\* Mutant: the table is cleared.
clearDevices(s) == devices' = [d \in Registrants |-> None]

removeDeviceBySocketIndex(s) ==
    devices' = [d \in Registrants |-> IF devices[d] = s THEN None ELSE devices[d]]

\* recv returned 0: CutConnection, and the rules if a device was lost.
CutConnection(s) ==
    /\ Reads(s) /\ inbox[conn[s]] = <<>> /\ heapLock = Nobody
    /\ conn' = [conn EXCEPT ![s] = None]
    /\ removeDeviceBySocketIndex(s)
    /\ ReadOn(s, IF \E d \in Registrants : devices[d] = s THEN "reload" ELSE "select")
    /\ heapLock' = "server"
    /\ UNCHANGED <<main, run, listening, started, ruleVars, scan, network, world, fault>>

\* noticeReloadDeviceList: the rules are read up to the first whose device is gone,
\* which is erased (but not deleted); all over again until there is none.
noticeReloadDeviceList ==
    /\ ServerRuns /\ server.pc = "reload"
    /\ LET lost == SelectInSeq(rules, LAMBDA r : devices[r.device] = None)
           last == IF lost = 0 THEN Len(rules) ELSE lost
       IN  \/ /\ \E j \in 1 .. last : rules[j].id \in freed
              /\ fault' = <<"server", "freed">>
              /\ UNCHANGED <<rules, server>>
           \/ /\ \A j \in 1 .. last : rules[j].id \notin freed
              /\ IF lost = 0
                   THEN server' = [server EXCEPT !.pc = "select"] /\ UNCHANGED rules
                   ELSE rules' = RemoveAt(rules, lost) /\ UNCHANGED server
              /\ UNCHANGED fault
    /\ UNCHANGED <<main, process, started, nextRuleId, freed, conn, devices, scan, network,
                   world>>

\* mainLoop of the ruler: the rules there are when it wakes up ...
beginScan ==
    /\ Runs("ruler") /\ heapLock # "ruler" /\ scan.pc = "sleep" /\ rules # <<>>
    /\ scan' = [pc |-> "scan", i |-> 1, count |-> Len(rules)]
    /\ UNCHANGED <<main, process, started, manager, network, world, fault>>

Advance ==
    scan' = IF scan.i < scan.count THEN [scan EXCEPT !.i = @ + 1]
            ELSE [pc |-> "sleep", i |-> 0, count |-> 0]

\* ... one after the other: a rule that is due is read and a package made for it.
scanRules ==
    /\ Runs("ruler") /\ heapLock # "ruler" /\ scan.pc = "scan"
    /\ \/ /\ scan.i > Len(rules)
          /\ fault' = <<"ruler", "range">>
          /\ UNCHANGED <<scan, heapLock>>
       \/ /\ scan.i <= Len(rules) /\ rules[scan.i].id \in freed
          /\ fault' = <<"ruler", "freed">>
          /\ UNCHANGED <<scan, heapLock>>
       \/ /\ scan.i <= Len(rules) /\ rules[scan.i].id \notin freed
          /\ heapLock = Nobody /\ heapLock' = "ruler"
          /\ Advance
          /\ UNCHANGED fault
       \/ /\ scan.i <= Len(rules)            \* not due: WaitingTimeMs goes down
          /\ Advance
          /\ UNCHANGED <<heapLock, fault>>
    /\ UNCHANGED <<main, run, listening, started, manager, network, world>>

-----------------------------------------------------------------------------
(* The programs that use the manager.                                      *)

Broadcast(p) ==
    /\ alive /\ hello[p] = "none" /\ "udp" \in listening
    /\ hello' = [hello EXCEPT ![p] = "asked"]
    /\ UNCHANGED <<main, process, started, manager, scan, network, installed, fails, prompt,
                   fault>>

\* A peer that got "Hi" connects and asks for an ip, or is refused.
PeerConnects(p) ==
    /\ alive /\ hello[p] = "Hi"
    /\ hello' = [hello EXCEPT ![p] = IF "server" \in listening THEN "connected" ELSE "refused"]
    /\ IF "server" \in listening
         THEN Connect(p) /\ inbox' = [inbox EXCEPT ![p] = << <<"ask", None>> >>]
         ELSE UNCHANGED <<backlog, inbox>>
    /\ UNCHANGED <<main, process, started, manager, scan, closed, answered, installed, fails,
                   prompt, fault>>

PeerInstalls(p, d) ==
    /\ alive /\ p \in answered \ closed /\ installed < MaxRules
    /\ installed' = installed + 1
    /\ inbox' = [inbox EXCEPT ![p] = Append(@, <<"rule", d>>)]
    /\ UNCHANGED <<main, process, started, manager, scan, backlog, closed, answered, hello,
                   fails, prompt, fault>>

PeerLeaves(p) ==
    /\ alive /\ hello[p] = "connected" /\ p \notin closed
    /\ Disconnect(p)
    /\ UNCHANGED <<main, process, started, manager, scan, backlog, inbox, answered, world, fault>>

-----------------------------------------------------------------------------
Main ==
    \/ Start("udp", "start udp", "start manager")
    \/ Start("server", "start manager", "start ruler")
    \/ Start("ruler", "start ruler", "sleep")
    \/ Sleep \/ ConnectBroker \/ OpenPort \/ AskIoTIp \/ GotIoTIp \/ Register
    \/ StopBroker \/ StopRuler \/ FreeRule \/ RulesFreed
    \/ StopServer("server", "stop manager", "stop udp")
    \/ StopServer("udp", "stop udp", "return")
    \/ Return

UdpThread == Bind("udp") \/ Release("udp") \/ \E p \in Peers : AnswerBroadcast(p)
ServerThread ==
    \/ Bind("server") \/ Release("server") \/ Select \/ noticeReloadDeviceList
    \/ \E s \in Slots : HandlePackage(s) \/ CutConnection(s)
RulerThread == Release("ruler") \/ beginScan \/ scanRules
Outside ==
    \E p \in Peers :
        \/ Broadcast(p) \/ PeerConnects(p) \/ PeerLeaves(p)
        \/ \E d \in Registrants : PeerInstalls(p, d)

\* The process has ended, or hangs: no step is left.
Over == ~ alive /\ UNCHANGED vars

Next == Main \/ Key \/ UdpThread \/ ServerThread \/ RulerThread \/ Outside \/ Over

\* Every thread that can run does; nobody has to press the key, and no peer to come.
Spec ==
    /\ Init /\ [][Next]_vars
    /\ WF_vars(Main) /\ WF_vars(UdpThread) /\ SF_vars(ServerThread) /\ WF_vars(RulerThread)

-----------------------------------------------------------------------------
(* Properties.                                                             *)

orphaned == heapLock \in Threads /\ run[heapLock] = "killed"

\* The ruler never uses a rule StopRuler deleted, and nobody does before StopRuler.
\* The server, which is stopped last, may: StopAllBroker cuts the connections of the
\* brokers, and the server reads the rules when it sees that (Ruler.cpp:22-31,
\* main.cpp:344-349).
FreedRulesUnused ==
    fault # None /\ fault[2] = "freed" =>
        fault[1] = "server" /\ pc \in {"free", "stop manager"}

\* main comes to PAUSE: every askIoTIp of every broker is answered, whatever the peers
\* do; and after the key it comes to its end, unless a fault ended the process or a
\* thread was terminated while it held the heap (main.cpp:264-356, IBroker.cpp:18-45).
\* The fault is main's own only when a broker that StopAllBroker cut off took rules
\* with it: rules.at(i) then throws in StopRuler.
MainGoesOn ==
    /\ <>(pc = "pause" \/ fault # None)
    /\ pc = "stop" ~> pc = "ended" \/ fault # None \/ orphaned
    /\ []TypeOK
    /\ [](fault = <<"main", "range">> => \E b \in started : b \in closed)

\* With the serial port and the listener up in time, everything a broker has is in the
\* table while main waits for the key, and stays there (LoRaBroker.cpp:25-53).
AllRegistered == \A d \in Registrants : devices[d] # None
BrokersRegister ==
    prompt /\ fails \cap {"server", "port"} = {} =>
        <>[](AllRegistered \/ pc # "pause" \/ fault # None)
=============================================================================
