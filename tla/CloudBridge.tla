----------------------------- MODULE CloudBridge -----------------------------
(***************************************************************************)
(* The bridge from the manager's network to a cloud server                 *)
(* (Broker/CloudBridge.cpp).  managerLoop carries what the manager sends   *)
(* to the cloud, cloudLoop carries packages of the cloud to the manager,   *)
(* keepAliveLoop sends an ENQ to the cloud now and then; the first and the *)
(* third share the socket to the cloud under mutexLock.  On the package    *)
(* "discon" cloudLoop closes the connection to the manager, kills          *)
(* managerLoop and starts another one, which connects anew.                *)
(*                                                                         *)
(* The n-th managerLoop and its connection to the manager are both called  *)
(* n.  What the manager sends is cut into cells, numbered by connection;   *)
(* packages of the cloud come whole (see PackageStream for the framing).   *)
(* The manager and the cloud are external.                                 *)
(***************************************************************************)
EXTENDS Integers, SequencesExt

CONSTANTS
    KillStops,      \* Thread_stop and Thread_kill: TRUE on Windows, no-ops on Linux
    MaxDiscons,     \* bound: "discon" packages
    MaxPackages,    \* bound: other packages of the cloud
    MaxCells        \* bound: cells the manager sends over a connection

ASSUME BridgeAssumption ==
    /\ KillStops \in BOOLEAN
    /\ MaxDiscons \in Nat /\ MaxPackages \in Nat /\ MaxCells \in Nat

Loops == 1 .. MaxDiscons + 1
Wild == 0           \* socketToManager before its first assignment

VARIABLES
    caller,             \* the thread that calls Login, Start and Stop
    \* the threads of the bridge
    loop,               \* managerLoop n: pc, the connection it reads from, recvBuffer
    cloud, keepAlive,   \* pcs
    managerThread,      \* number of the latest managerLoop
    up,                 \* FALSE once a wild pointer was used: what follows is undefined
    hasty,              \* history: a "discon" came while there was no open connection
    \* what they share
    socketToManager,    \* the number of a connection, or Wild
    mutexLock,          \* its owner: Free, KeepAlive or a managerLoop
    heapLock, coutLock, \* the managerLoop inside the heap, inside cout, or Free
    \* the network
    conn,               \* state of connection n
    sent, taken,        \* cells the manager has sent over n, and the bridge received
    cloudGot,           \* cells the cloud has received
    discons, packages,  \* what the cloud has sent
    delivered           \* session and connection of the package sent in the last step

threads == <<loop, cloud, keepAlive, managerThread, up, hasty>>
network == <<conn, sent, taken, cloudGot, discons, packages>>
runtime == <<heapLock, coutLock>>
vars == <<caller, threads, socketToManager, mutexLock, runtime, network, delivered>>

Free == -1
KeepAlive == 0
Unborn == [pc |-> "none", on |-> Wild, recvBuffer |-> <<>>]

Init ==
    /\ caller = "login"
    /\ loop = [n \in Loops |-> Unborn]
    /\ cloud = "none" /\ keepAlive = "none"
    /\ managerThread = 0
    /\ up = TRUE
    /\ hasty = FALSE
    /\ socketToManager = Wild
    /\ mutexLock = Free /\ heapLock = Free /\ coutLock = Free
    /\ conn = [n \in Loops |-> "none"]
    /\ sent = [n \in Loops |-> 0] /\ taken = [n \in Loops |-> 0]
    /\ cloudGot = <<>>
    /\ discons = 0 /\ packages = 0
    /\ delivered = <<>>

-----------------------------------------------------------------------------
(* Threads.                                                                *)

Quiet == delivered' = <<>>

\* A thread that is killed leaves its mutex abandoned, which Windows gives to the next.
Abandon(owner) == mutexLock' = IF mutexLock = owner THEN Free ELSE mutexLock

\* The locks of the heap and of cout stay with a thread that is killed inside.
orphaned == \E n \in Loops : loop[n].pc = "dead" /\ n \in {heapLock, coutLock}

\* Mutant: nothing is killed.
killNothing(n) == UNCHANGED <<loop, mutexLock>>

killManagerLoop(n) ==
    IF KillStops THEN loop' = [loop EXCEPT ![n] = [Unborn EXCEPT !.pc = "dead"]] /\ Abandon(n)
                 ELSE UNCHANGED <<loop, mutexLock>>

\* Mutant: the new thread is never run.
startNothing ==
    /\ managerThread' = managerThread + 1
    /\ UNCHANGED loop

startManagerLoop ==
    /\ managerThread' = managerThread + 1
    /\ loop' = [loop EXCEPT ![managerThread'].pc = "print"]

-----------------------------------------------------------------------------
(* The caller: Login, Start, Stop.                                         *)

\* The first bytes the cloud answers are taken for the whole answer.
Login ==
    /\ caller = "login"
    /\ \E answer \in {"Success", "beginning of Success"} :
         caller' = IF answer = "Success" THEN "startCloud" ELSE "failed"
    /\ Quiet
    /\ UNCHANGED <<threads, socketToManager, mutexLock, runtime, network>>

startListener ==
    /\ \/ /\ caller = "startCloud"
          /\ cloud' = "recv"
          /\ caller' = "startManager"
          /\ UNCHANGED <<loop, managerThread, keepAlive>>
       \/ /\ caller = "startManager"
          /\ startManagerLoop
          /\ caller' = "startKeepAlive"
          /\ UNCHANGED <<cloud, keepAlive>>
       \/ /\ caller = "startKeepAlive"
          /\ keepAlive' = "sleep"
          /\ caller' = "running"
          /\ UNCHANGED <<loop, managerThread, cloud>>
    /\ Quiet
    /\ UNCHANGED <<up, hasty, socketToManager, mutexLock, runtime, network>>

\* Mutant: the thread that starts managerLoop outlives it.
StopOrderSwapped == <<"keepAlive", "manager", "cloud">>

StopOrder == <<"keepAlive", "cloud", "manager">>

stopThread(thread) ==
    \/ /\ thread = "keepAlive"
       /\ keepAlive' = IF KillStops THEN "dead" ELSE keepAlive
       /\ IF KillStops THEN Abandon(KeepAlive) ELSE UNCHANGED mutexLock
       /\ UNCHANGED <<cloud, loop>>
    \/ /\ thread = "cloud"
       /\ cloud' = IF KillStops THEN "dead" ELSE cloud
       /\ UNCHANGED <<keepAlive, loop, mutexLock>>
    \/ /\ thread = "manager"
       /\ killManagerLoop(managerThread)
       /\ UNCHANGED <<keepAlive, cloud>>

stopListener ==
    /\ \/ /\ caller = "running"
          /\ caller' = "stop1" /\ stopThread(StopOrder[1])
       \/ /\ caller = "stop1"
          /\ caller' = "stop2" /\ stopThread(StopOrder[2])
       \/ /\ caller = "stop2"
          /\ caller' = "stopped" /\ stopThread(StopOrder[3])
    /\ Quiet
    /\ UNCHANGED <<managerThread, up, hasty, socketToManager, runtime, network>>

-----------------------------------------------------------------------------
(* managerLoop n.                                                          *)

at(n, pc) == up /\ loop[n].pc = pc
goto(n, pc) == loop' = [loop EXCEPT ![n].pc = pc]
loopUnchanged ==
    /\ Quiet
    /\ UNCHANGED <<caller, cloud, keepAlive, managerThread, up, hasty, sent, discons, packages>>

\* It prints, allocates or frees: the thread goes inside, and comes out with the step
\* that does it.
enter(n) ==
    /\ \/ at(n, "print") /\ coutLock = Free /\ coutLock' = n /\ UNCHANGED heapLock
       \/ /\ at(n, "new") \/ at(n, "recv") \/ at(n, "free")
          /\ heapLock = Free /\ heapLock' = n /\ UNCHANGED coutLock
    /\ UNCHANGED <<loop, socketToManager, mutexLock, conn, taken, cloudGot>>
    /\ loopUnchanged

leaveHeap(n) == heapLock = n /\ heapLock' = Free /\ UNCHANGED coutLock

announce(n) ==
    /\ at(n, "print")
    /\ coutLock = n /\ coutLock' = Free
    /\ goto(n, "new")
    /\ UNCHANGED <<heapLock, socketToManager, mutexLock, conn, taken, cloudGot>>
    /\ loopUnchanged

\* new TcpClient makes a socket, ...
newClient(n) ==
    /\ at(n, "new") /\ leaveHeap(n)
    /\ socketToManager' = n
    /\ conn' = [conn EXCEPT ![n] = "created"]
    /\ goto(n, "connect")
    /\ UNCHANGED <<mutexLock, taken, cloudGot>>
    /\ loopUnchanged

\* ... which is connected, unless cloudLoop has closed it already.
connect(n) ==
    /\ at(n, "connect")
    /\ conn' = IF conn[n] = "created" THEN [conn EXCEPT ![n] = "open"] ELSE conn
    /\ goto(n, "recv")
    /\ UNCHANGED <<socketToManager, mutexLock, runtime, taken, cloudGot>>
    /\ loopUnchanged

\* With a new buffer recv is called on the socket of that moment: it fails at once if
\* that is not open, ...
callRecv(n) ==
    /\ at(n, "recv") /\ leaveHeap(n)
    /\ loop' = [loop EXCEPT ![n].pc = IF conn[socketToManager] = "open" THEN "blocked" ELSE "free",
                            ![n].on = socketToManager]
    /\ UNCHANGED <<socketToManager, mutexLock, conn, taken, cloudGot>>
    /\ loopUnchanged

\* ... and returns what has come; closesocket ends it, close does not.
RecviveData(n) ==
    /\ at(n, "blocked")
    /\ LET c == loop[n].on
       IN  \/ /\ conn[c] = "open" \/ ~ KillStops
              /\ \E k \in taken[c] + 1 .. sent[c] :
                   /\ taken' = [taken EXCEPT ![c] = k]
                   /\ loop' = [loop EXCEPT ![n].pc = "free",
                                 ![n].recvBuffer = @ \o [j \in 1 .. k - taken[c] |-> <<c, taken[c] + j>>]]
           \/ /\ conn[c] = "closed" /\ KillStops
              /\ goto(n, "free")
              /\ UNCHANGED taken
    /\ UNCHANGED <<socketToManager, mutexLock, runtime, conn, cloudGot>>
    /\ loopUnchanged

freeBuffer(n) ==
    /\ at(n, "free") /\ leaveHeap(n)
    /\ goto(n, IF loop[n].recvBuffer = <<>> THEN "recv" ELSE "lock")
    /\ UNCHANGED <<socketToManager, mutexLock, conn, taken, cloudGot>>
    /\ loopUnchanged

lockMutex(n) ==
    /\ at(n, "lock")
    /\ mutexLock = Free
    /\ mutexLock' = n
    /\ goto(n, "send")
    /\ UNCHANGED <<socketToManager, runtime, conn, taken, cloudGot>>
    /\ loopUnchanged

sendToCloud(n) ==
    /\ at(n, "send")
    /\ cloudGot' = cloudGot \o loop[n].recvBuffer
    /\ mutexLock' = Free
    /\ loop' = [loop EXCEPT ![n].pc = "recv", ![n].recvBuffer = <<>>]
    /\ UNCHANGED <<socketToManager, runtime, conn, taken>>
    /\ loopUnchanged

managerLoop(n) ==
    \/ enter(n) \/ announce(n) \/ newClient(n) \/ connect(n)
    \/ callRecv(n) \/ RecviveData(n) \/ freeBuffer(n) \/ lockMutex(n) \/ sendToCloud(n)

-----------------------------------------------------------------------------
(* keepAliveLoop.                                                          *)

keepAliveLoop ==
    /\ up
    /\ \/ keepAlive = "sleep" /\ keepAlive' = "lock" /\ UNCHANGED mutexLock
       \/ /\ keepAlive = "lock" /\ mutexLock = Free
          /\ keepAlive' = "send" /\ mutexLock' = KeepAlive
       \/ /\ keepAlive = "send" /\ coutLock = Free
          /\ keepAlive' = "sleep" /\ mutexLock' = Free
    /\ Quiet
    /\ UNCHANGED <<caller, loop, cloud, managerThread, up, hasty, socketToManager, runtime, network>>

-----------------------------------------------------------------------------
(* cloudLoop.                                                              *)

cloudUnchanged == UNCHANGED <<caller, keepAlive, runtime, sent, taken, cloudGot>>

\* Mostly the process ends.  Nothing is claimed of what happens if it does not.
wildPointer ==
    /\ socketToManager = Wild
    /\ up' = FALSE

Connected ==
    /\ socketToManager = managerThread
    /\ managerThread > 0 /\ conn[managerThread] = "open"

\* A package for the manager goes over the connection of this moment, if it is open.
forward ==
    /\ cloud = "recv" /\ heapLock = Free
    /\ packages < MaxPackages
    /\ packages' = packages + 1
    /\ \/ wildPointer /\ Quiet
       \/ /\ socketToManager # Wild
          /\ UNCHANGED up
          /\ delivered' = IF conn[socketToManager] = "open"
                            THEN <<[session |-> discons + 1, over |-> socketToManager]>>
                            ELSE <<>>
    /\ UNCHANGED <<cloud, loop, managerThread, socketToManager, mutexLock, conn, discons, hasty>>

\* Mutant: the connection stays open.
disconnectNothing ==
    /\ cloud = "recv" /\ heapLock = Free /\ coutLock = Free
    /\ discons < MaxDiscons
    /\ discons' = discons + 1
    /\ cloud' = "kill"
    /\ Quiet
    /\ UNCHANGED <<loop, managerThread, socketToManager, mutexLock, conn, packages, up, hasty>>

\* "discon": close the connection, ...
disconnect ==
    /\ cloud = "recv" /\ heapLock = Free /\ coutLock = Free
    /\ discons < MaxDiscons
    /\ discons' = discons + 1
    /\ cloud' = "kill"
    /\ hasty' = (hasty \/ ~ Connected)
    /\ \/ wildPointer /\ UNCHANGED conn
       \/ /\ socketToManager # Wild
          /\ conn' = [conn EXCEPT ![socketToManager] = "closed"]
          /\ UNCHANGED up
    /\ Quiet
    /\ UNCHANGED <<loop, managerThread, socketToManager, mutexLock, packages>>

\* ... kill its thread ...
kill ==
    /\ cloud = "kill"
    /\ cloud' = "create"
    /\ killManagerLoop(managerThread)
    /\ Quiet
    /\ UNCHANGED <<managerThread, up, hasty, socketToManager, conn, discons, packages>>

\* ... and start another one.
create ==
    /\ cloud = "create" /\ heapLock = Free /\ coutLock = Free
    /\ cloud' = "recv"
    /\ startManagerLoop
    /\ Quiet
    /\ UNCHANGED <<up, hasty, socketToManager, mutexLock, conn, discons, packages>>

cloudLoop ==
    /\ up
    /\ forward \/ disconnect \/ kill \/ create
    /\ cloudUnchanged

-----------------------------------------------------------------------------
(* The manager's side of connection n, which is open for it as long as the *)
(* bridge has not closed it or a recv still holds it.                      *)

Held(n) == ~ KillStops /\ \E m \in Loops : loop[m].pc = "blocked" /\ loop[m].on = n

ManagerSends(n) ==
    /\ conn[n] = "open" \/ (conn[n] = "closed" /\ Held(n))
    /\ sent[n] < MaxCells
    /\ sent' = [sent EXCEPT ![n] = @ + 1]
    /\ Quiet
    /\ UNCHANGED <<caller, threads, socketToManager, mutexLock, runtime, conn, taken, cloudGot, discons, packages>>

Next ==
    \/ up /\ (Login \/ startListener \/ stopListener)
    \/ keepAliveLoop
    \/ cloudLoop
    \/ \E n \in Loops : managerLoop(n) \/ ManagerSends(n)

\* Every thread runs.  Neither the cloud nor the manager need send anything, and
\* nobody need call Stop.
Fairness ==
    /\ WF_vars(up /\ (Login \/ startListener))
    /\ WF_vars(keepAliveLoop)
    /\ WF_vars(up /\ (kill \/ create) /\ cloudUnchanged)
    /\ \A n \in Loops : WF_vars(managerLoop(n))

Spec == Init /\ [][Next]_vars /\ Fairness

-----------------------------------------------------------------------------
(* Properties, as long as no wild pointer was used.                        *)

Cells == {<<n, k>> : n \in Loops, k \in 1 .. MaxCells}

\* The threads are where their code can be, and who holds the mutex is about to send.
TypeOK ==
    /\ loop \in [Loops -> [pc : {"none", "print", "new", "connect", "recv", "blocked", "free",
                                 "lock", "send", "dead"},
                           on : Loops \cup {Wild}, recvBuffer : Seq(Cells)]]
    /\ cloud \in {"none", "recv", "kill", "create", "dead"}
    /\ keepAlive \in {"none", "sleep", "lock", "send", "dead"}
    /\ managerThread \in Loops \cup {0}
    /\ socketToManager \in Loops \cup {Wild}
    /\ conn \in [Loops -> {"none", "created", "open", "closed"}]
    /\ sent \in [Loops -> 0 .. MaxCells] /\ taken \in [Loops -> 0 .. MaxCells]
    /\ \A n \in Loops : taken[n] <= sent[n]
    /\ heapLock \in Loops \cup {Free} /\ coutLock \in Loops \cup {Free}
    /\ \A n \in Loops : mutexLock = n <=> loop[n].pc = "send"
    /\ mutexLock = KeepAlive <=> keepAlive = "send"

\* What the manager sends over one connection reaches the cloud in order and once,
\* and nothing of an older connection comes after something of a newer one.
ToCloudInOrder ==
    /\ TypeOK
    /\ \A i, j \in DOMAIN cloudGot : i < j =>
           \/ cloudGot[i][1] < cloudGot[j][1]
           \/ cloudGot[i][1] = cloudGot[j][1] /\ cloudGot[i][2] < cloudGot[j][2]

\* "restart the socket path to manager" (reconnectToManager): what the cloud sends after
\* a "discon" never goes over a connection of before it.  Not so when a second "discon"
\* comes before the thread started for the first has connected: it closes the old
\* connection once more, and the one that is made before the thread is killed stays open.
SessionsSeparate == delivered # <<>> => delivered[1].session = delivered[1].over

\* It never does if every "discon" finds the connection to the manager open.
PatientSessionsSeparate == hasty \/ SessionsSeparate

\* When Stop has returned, no thread of the bridge is left that could send something.
StopStops ==
    caller = "stopped" =>
        /\ cloud = "dead" /\ keepAlive = "dead"
        /\ \A n \in Loops : loop[n].pc \in {"none", "dead"}

\* keepAliveLoop sends again and again, whatever threads were killed with the mutex in
\* their hands.  Only a lock of the runtime that a killed thread has kept may stop it.
KeepsAlive == keepAlive \in {"lock", "send"} ~> keepAlive \in {"sleep", "dead"} \/ ~ up \/ orphaned

\* After any number of "discon", the bridge is connected to the manager again, unless a
\* thread was killed inside the heap or inside cout.
Reconnects == caller = "running" ~> Connected \/ caller # "running" \/ ~ up \/ orphaned

\* No thread of the bridge waits for ever for what another was to do.
BridgeGoesOn == KeepsAlive /\ Reconnects
=============================================================================
