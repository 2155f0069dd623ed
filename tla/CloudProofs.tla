----------------------------- MODULE CloudProofs -----------------------------
(***************************************************************************)
(* The two clients of the cloud.                                           *)
(*                                                                         *)
(* CloudBridge: ToCloudInOrder, PatientSessionsSeparate and StopStops for  *)
(* any number of "discon", packages and cells, where Thread_kill kills     *)
(* (Windows).  What carries them is that one managerLoop lives at a time,  *)
(* and works on the connection it made itself, whoever starts and kills it *)
(* when.                                                                   *)
(*                                                                         *)
(* CloudUploader: RightLabel for any devices, subscriptions and lengths of *)
(* the queues.  What carries it is that an ip is granted once, and that    *)
(* all that is under way for a component comes from the ip the uploader    *)
(* subscribed to it with.                                                  *)
(***************************************************************************)
EXTENDS CloudClients, SequenceLemmas, FiniteSetTheorems

Early == {"login", "failed", "startCloud"}
Working == {"connect", "recv", "blocked", "free", "lock", "send"}

Pcs == {"none", "print", "new", "connect", "recv", "blocked", "free", "lock", "send", "dead"}
LoopState == [pc : Pcs, on : Loops \cup {Wild}, recvBuffer : Seq(Cells)]

\* TypeOK by its parts: no step disturbs more than a few of them.
Mutex == /\ \A n \in Loops : mutexLock = n <=> loop[n].pc = "send"
         /\ mutexLock = KeepAlive <=> keepAlive = "send"
Counts == /\ sent \in [Loops -> 0 .. MaxCells] /\ taken \in [Loops -> 0 .. MaxCells]
          /\ \A n \in Loops : taken[n] <= sent[n]
Places == /\ cloud \in {"none", "recv", "kill", "create", "dead"}
          /\ keepAlive \in {"none", "sleep", "lock", "send", "dead"}
          /\ managerThread \in Loops \cup {0}
          /\ socketToManager \in Loops \cup {Wild}
          /\ conn \in [Loops -> {"none", "created", "open", "closed"}]

\* Of the loops that were started all are dead but the latest, and that one too when
\* cloudLoop is about to start the next.
OneLoop ==
    /\ \A n \in Loops : n < managerThread => loop[n].pc = "dead"
    /\ \A n \in Loops : n > managerThread => loop[n] = Unborn /\ conn[n] = "none"
    /\ managerThread > 0 => loop[managerThread].pc # "none"
    /\ managerThread > 0 /\ cloud = "create" => loop[managerThread].pc = "dead"
    /\ managerThread = 0 => socketToManager = Wild

\* One loop for each "discon", and the first.
Counted ==
    /\ discons \in 0 .. MaxDiscons
    /\ managerThread <= discons + 1
    /\ up /\ cloud \in {"kill", "create"} => 0 < managerThread /\ managerThread <= discons

\* How far the caller is says which threads there are.
Course ==
    /\ caller \in Early \cup {"startManager", "startKeepAlive", "running",
                              "stop1", "stop2", "stopped"}
    /\ caller \in Early => cloud = "none"
    /\ caller \in Early \cup {"startManager", "startKeepAlive"} => keepAlive = "none"
    /\ caller \in Early \cup {"startManager"} <=> managerThread = 0
    /\ caller \in {"stop1", "stop2", "stopped"} => keepAlive = "dead"
    /\ caller \in {"stop2", "stopped"} => cloud = "dead"
    /\ caller = "stopped" => loop[managerThread].pc = "dead"

\* A loop works on the connection it made.
OwnConnection ==
    \A n \in Loops :
        /\ loop[n].pc \in {"none", "print", "new"} => conn[n] = "none" /\ socketToManager # n
        /\ loop[n].pc \in Working => socketToManager = n
        /\ loop[n].pc \in {"blocked", "free", "lock", "send"} => loop[n].on = n

\* What is on its way to the cloud was taken from the loop's own connection, after
\* all that is there already.
Buffered ==
    \A n \in Loops :
        /\ loop[n].pc \notin {"free", "lock", "send"} => loop[n].recvBuffer = <<>>
        /\ \A i \in DOMAIN loop[n].recvBuffer :
             /\ loop[n].recvBuffer[i][1] = n
             /\ loop[n].recvBuffer[i][2] <= taken[n]
             /\ \A j \in DOMAIN loop[n].recvBuffer :
                  i < j => loop[n].recvBuffer[i][2] < loop[n].recvBuffer[j][2]
             /\ \A j \in DOMAIN cloudGot :
                  cloudGot[j][1] = n => cloudGot[j][2] < loop[n].recvBuffer[i][2]

Arrived ==
    /\ cloudGot \in Seq(Cells)
    /\ \A i \in DOMAIN cloudGot : /\ cloudGot[i][1] <= managerThread
                                  /\ cloudGot[i][2] <= taken[cloudGot[i][1]]

Ascending ==
    \A i, j \in DOMAIN cloudGot : i < j =>
        \/ cloudGot[i][1] < cloudGot[j][1]
        \/ cloudGot[i][1] = cloudGot[j][1] /\ cloudGot[i][2] < cloudGot[j][2]

\* Every "discon" that found the connection open has closed the one of its session.
SessionsClosed == hasty \/ \A n \in Loops : n <= discons => conn[n] = "closed"

Control ==
    /\ loop \in [Loops -> LoopState] /\ Mutex /\ Counts /\ Places
    /\ OneLoop /\ Counted /\ Course /\ OwnConnection
Flow == Buffered /\ Arrived /\ Ascending
Sessions == SessionsClosed /\ PatientSessionsSeparate

Runtime == heapLock \in Loops \cup {Free} /\ coutLock \in Loops \cup {Free}

Inv == Control /\ Flow /\ Sessions /\ Runtime

USE BridgeAssumption

-----------------------------------------------------------------------------
(* Threads.                                                                *)

\* One thread moves on: the others stay where they are.
LEMMA Moves ==
    ASSUME loop \in [Loops -> LoopState], NEW n \in Loops, NEW to \in Pcs,
           loop' = [loop EXCEPT ![n].pc = to]
    PROVE  /\ loop' \in [Loops -> LoopState]
           /\ loop'[n].pc = to /\ loop'[n].on = loop[n].on
           /\ loop'[n].recvBuffer = loop[n].recvBuffer
           /\ \A m \in Loops : m # n => loop'[m] = loop[m]
BY DEF LoopState

\* Only the latest loop can do anything.
LEMMA LatestOnly ==
    ASSUME Control, NEW n \in Loops, loop[n].pc \notin {"none", "dead"}
    PROVE  n = managerThread /\ cloud # "create" /\ caller # "stopped"
<1>1. managerThread \in Nat /\ n \in Nat \ {0}
  BY DEF Control, Places, Loops
<1>2. QED
  BY <1>1 DEF Control, OneLoop, Course, Unborn

\* A killed loop is dead, holds nothing, and has left the mutex.
LEMMA Killed ==
    ASSUME KillStops, Control, NEW n \in Loops, killManagerLoop(n)
    PROVE  /\ loop' \in [Loops -> LoopState]
           /\ loop'[n].pc = "dead" /\ loop'[n].recvBuffer = <<>>
           /\ \A m \in Loops : m # n => loop'[m] = loop[m]
           /\ \A m \in Loops : mutexLock' = m <=> loop'[m].pc = "send"
           /\ mutexLock' = KeepAlive <=> mutexLock = KeepAlive
<1>1. loop' = [loop EXCEPT ![n] = [Unborn EXCEPT !.pc = "dead"]]
      /\ mutexLock' = IF mutexLock = n THEN Free ELSE mutexLock
  BY DEF killManagerLoop, Abandon
<1>2. <<>> \in Seq(Cells)
  BY EmptySeq
<1>3. [Unborn EXCEPT !.pc = "dead"] = [pc |-> "dead", on |-> Wild, recvBuffer |-> <<>>]
  BY DEF Unborn
<1>4. [pc |-> "dead", on |-> Wild, recvBuffer |-> <<>>] \in LoopState
  BY <1>2 DEF LoopState, Pcs
<1>5. loop \in [Loops -> LoopState]
  BY DEF Control
<1>6. /\ loop' \in [Loops -> LoopState]
      /\ loop'[n].pc = "dead" /\ loop'[n].recvBuffer = <<>>
      /\ \A m \in Loops : m # n => loop'[m] = loop[m]
  BY <1>1, <1>3, <1>4, <1>5
<1>7. \A m \in Loops : m \in Nat \ {0} /\ m # Free
  BY DEF Loops, Free
<1>8. /\ \A m \in Loops : mutexLock = m <=> loop[m].pc = "send"
      /\ Free # KeepAlive /\ n # KeepAlive
  BY <1>7 DEF Control, Mutex, Free, KeepAlive
<1>9. QED
  BY <1>1, <1>6, <1>7, <1>8

\* A started loop is the next one, and new.
LEMMA Started ==
    ASSUME Control, managerThread + 1 \in Loops, startManagerLoop
    PROVE  /\ managerThread' = managerThread + 1
           /\ loop' \in [Loops -> LoopState]
           /\ loop'[managerThread'].pc = "print" /\ loop'[managerThread'].recvBuffer = <<>>
           /\ \A m \in Loops : m # managerThread' => loop'[m] = loop[m]
           /\ loop[managerThread'] = Unborn
           /\ \A m \in Loops : mutexLock = m <=> loop'[m].pc = "send"
<1> DEFINE n == managerThread + 1
<1>1. managerThread' = n /\ loop' = [loop EXCEPT ![n].pc = "print"]
  BY DEF startManagerLoop
<1>2. loop \in [Loops -> LoopState] /\ managerThread \in Nat
  BY DEF Control, Places, Loops
<1>3. loop[n] = Unborn
  BY <1>2 DEF Control, OneLoop
<1>4. "print" \in Pcs
  BY DEF Pcs
<1> HIDE DEF n
<1>5. /\ loop' \in [Loops -> LoopState]
      /\ loop'[n].pc = "print" /\ loop'[n].recvBuffer = loop[n].recvBuffer
      /\ \A m \in Loops : m # n => loop'[m] = loop[m]
  BY <1>1, <1>2, <1>4, Moves DEF n
<1>6. loop[n].pc = "none" /\ loop[n].recvBuffer = <<>>
  BY <1>3 DEF Unborn
<1>7. \A m \in Loops : mutexLock = m <=> loop[m].pc = "send"
  BY DEF Control, Mutex
<1>8. QED
  BY <1>1, <1>3, <1>5, <1>6, <1>7 DEF n

-----------------------------------------------------------------------------
(* Control.                                                                *)

LEMMA InitControl == Init => Control
<1> SUFFICES ASSUME Init PROVE Control
  OBVIOUS
<1>1. <<>> \in Seq(Cells)
  BY EmptySeq
<1>2. Unborn \in LoopState /\ Unborn.pc = "none"
  BY <1>1 DEF Unborn, LoopState, Pcs
<1>3. loop \in [Loops -> LoopState] /\ Mutex /\ Counts /\ Places
  <2>1. Mutex
    BY <1>2 DEF Init, Mutex, Free, KeepAlive, Loops
  <2>2. Counts /\ Places
    BY DEF Init, Counts, Places
  <2>3. QED
    BY <1>2, <2>1, <2>2 DEF Init
<1>4. OneLoop /\ Counted /\ Course /\ OwnConnection
  BY <1>2 DEF Init, OneLoop, Counted, Course, OwnConnection, Early, Working, Loops, Wild
<1>5. QED
  BY <1>3, <1>4 DEF Control

LEMMA CallerKeepsControl ==
    ASSUME KillStops, Control, up, Login \/ startListener \/ stopListener
    PROVE  Control'
<1>1. loop \in [Loops -> LoopState] /\ Mutex /\ Counts /\ Places
  BY DEF Control
<1>2. UNCHANGED <<socketToManager, conn, discons, sent, taken, up>>
  BY DEF Login, startListener, stopListener, threads, network
<1>3. CASE Login
  BY <1>1, <1>2, <1>3 DEF Control, Login, threads, network, Mutex, Counts, Places, OneLoop,
     Counted, Course, OwnConnection, Early
<1>4. ASSUME caller = "startCloud", cloud' = "recv", caller' = "startManager",
             UNCHANGED <<loop, managerThread, keepAlive, mutexLock>>
      PROVE  Control'
  BY <1>1, <1>2, <1>4 DEF Control, Mutex, Counts, Places, OneLoop, Counted, Course, OwnConnection, Early
<1>5. ASSUME caller = "startManager", startManagerLoop, caller' = "startKeepAlive",
             UNCHANGED <<cloud, keepAlive, mutexLock>>
      PROVE  Control'
  <2>1. managerThread = 0 /\ managerThread + 1 \in Loops
    BY <1>5 DEF Control, Course, Loops
  <2>2. /\ managerThread' = 1
        /\ loop' \in [Loops -> LoopState]
        /\ loop'[1].pc = "print"
        /\ \A m \in Loops : m # 1 => loop'[m] = loop[m]
        /\ loop[1] = Unborn
        /\ \A m \in Loops : mutexLock = m <=> loop'[m].pc = "send"
    BY <1>5, <2>1, Started
  <2>3. Mutex' /\ Counts' /\ Places'
    BY <1>1, <1>2, <1>5, <2>1, <2>2 DEF Mutex, Counts, Places
  <2>4. cloud \notin {"kill", "create"} /\ cloud' = cloud /\ socketToManager = Wild
    BY <1>5, <2>1 DEF Control, Counted, OneLoop
  <2>5. OneLoop'
    BY <1>2, <2>1, <2>2, <2>4 DEF Control, OneLoop, Loops
  <2>6. Counted' /\ Course'
    BY <1>2, <1>5, <2>1, <2>2, <2>4 DEF Control, Counted, Course, Early
  <2>7. OwnConnection'
    BY <1>2, <2>1, <2>2, <2>4 DEF Control, OneLoop, OwnConnection, Unborn, Loops, Wild, Working
  <2>8. QED
    BY <2>2, <2>3, <2>5, <2>6, <2>7 DEF Control
<1>6. ASSUME caller = "startKeepAlive", keepAlive' = "sleep", caller' = "running",
             UNCHANGED <<loop, managerThread, cloud, mutexLock>>
      PROVE  Control'
  <2>1. keepAlive # "send"
    BY <1>6 DEF Control, Course
  <2>2. QED
    BY <1>1, <1>2, <1>6, <2>1 DEF Control, Mutex, Counts, Places, OneLoop, Counted, Course, OwnConnection, Early
<1>7. ASSUME caller \in {"running", "stop1"}, caller' = (IF caller = "running" THEN "stop1" ELSE "stop2"),
             stopThread(IF caller = "running" THEN "keepAlive" ELSE "cloud"),
             UNCHANGED managerThread
      PROVE  Control'
  <2>1. loop' = loop
    BY <1>7 DEF stopThread
  <2>2. CASE caller = "running"
    <3>1. /\ keepAlive' = "dead" /\ cloud' = cloud
          /\ mutexLock' = IF mutexLock = KeepAlive THEN Free ELSE mutexLock
      BY <1>7, <2>2 DEF stopThread, Abandon
    <3>2. \A m \in Loops : m # KeepAlive /\ m # Free
      BY DEF Loops, KeepAlive, Free
    <3>3. Mutex'
      BY <1>1, <2>1, <3>1, <3>2 DEF Mutex, KeepAlive, Free
    <3>4. QED
      BY <1>1, <1>2, <1>7, <2>1, <2>2, <3>1, <3>3
         DEF Control, Counts, Places, OneLoop, Counted, Course, OwnConnection, Early
  <2>3. CASE caller = "stop1"
    <3>1. cloud' = "dead" /\ UNCHANGED <<keepAlive, mutexLock>>
      BY <1>7, <2>3 DEF stopThread
    <3>2. QED
      BY <1>1, <1>2, <1>7, <2>1, <2>3, <3>1
         DEF Control, Mutex, Counts, Places, OneLoop, Counted, Course, OwnConnection, Early
  <2>4. QED
    BY <1>7, <2>2, <2>3
<1>8. ASSUME caller = "stop2", caller' = "stopped", stopThread("manager"), UNCHANGED managerThread
      PROVE  Control'
  <2>1. /\ managerThread \in Loops /\ managerThread > 0
        /\ cloud = "dead" /\ keepAlive = "dead"
    BY <1>1, <1>8 DEF Control, Course, Early, Places, Loops
  <2>2. killManagerLoop(managerThread) /\ UNCHANGED <<keepAlive, cloud>>
    BY <1>8 DEF stopThread
  <2>3. /\ loop' \in [Loops -> LoopState]
        /\ loop'[managerThread].pc = "dead"
        /\ \A m \in Loops : m # managerThread => loop'[m] = loop[m]
        /\ \A m \in Loops : mutexLock' = m <=> loop'[m].pc = "send"
        /\ mutexLock' = KeepAlive <=> mutexLock = KeepAlive
    BY <2>1, <2>2, Killed
  <2>4. Mutex' /\ Counts' /\ Places'
    BY <1>1, <1>2, <1>8, <2>2, <2>3 DEF Mutex, Counts, Places
  <2>5. OneLoop'
    BY <1>2, <1>8, <2>1, <2>2, <2>3 DEF Control, OneLoop, Loops
  <2>6. Counted'
    BY <1>2, <1>8, <2>1, <2>2 DEF Control, Counted
  <2>7. Course'
    BY <1>8, <2>1, <2>2, <2>3 DEF Course, Early
  <2>8. OwnConnection'
    BY <1>2, <2>1, <2>3 DEF Control, OwnConnection, Working
  <2>9. QED
    BY <2>3, <2>4, <2>5, <2>6, <2>7, <2>8 DEF Control
<1>9. QED
  BY <1>3, <1>4, <1>5, <1>6, <1>7, <1>8 DEF startListener, stopListener, StopOrder

\* keepAliveLoop takes the mutex when it is free, and gives back its own.
LEMMA KeepAliveKeepsControl == ASSUME Control, keepAliveLoop PROVE Control'
<1>1. UNCHANGED <<caller, loop, cloud, managerThread, up, socketToManager, conn, discons, sent, taken>>
  BY DEF keepAliveLoop, network
<1>2. \A m \in Loops : m # KeepAlive /\ m # Free
  BY DEF Loops, KeepAlive, Free
<1>3. Mutex'
  BY <1>1, <1>2 DEF keepAliveLoop, Control, Mutex, KeepAlive, Free
<1>4. keepAlive' \in {"sleep", "lock", "send"} /\ keepAlive \notin {"none", "dead"}
  BY DEF keepAliveLoop
<1>5. Counts' /\ Places' /\ OneLoop' /\ Counted' /\ OwnConnection'
  BY <1>1, <1>4 DEF Control, Counts, Places, OneLoop, Counted, OwnConnection
<1>6. Course'
  BY <1>1, <1>4 DEF Control, Course
<1>7. QED
  BY <1>1, <1>3, <1>5, <1>6 DEF Control

\* While cloudLoop is at work the caller has started it and not yet stopped it.
LEMMA CloudCourse ==
    ASSUME Control, cloud \in {"recv", "kill", "create"}
    PROVE  caller \notin Early \cup {"stop2", "stopped"}
BY DEF Control, Course

LEMMA CloudKeepsControl == ASSUME KillStops, Control, cloudLoop PROVE Control'
<1>0. /\ loop \in [Loops -> LoopState] /\ Mutex /\ Counts /\ Places
      /\ up /\ UNCHANGED <<caller, keepAlive, sent, taken>>
  BY DEF Control, cloudLoop, cloudUnchanged
<1>1. CASE forward
  BY <1>0, <1>1 DEF forward, Control, Mutex, Counts, Places, OneLoop, Counted, Course,
     OwnConnection
<1>2. CASE disconnect
  <2>1. /\ cloud = "recv" /\ discons < MaxDiscons /\ discons' = discons + 1 /\ cloud' = "kill"
        /\ UNCHANGED <<loop, managerThread, socketToManager, mutexLock>>
        /\ \/ socketToManager = Wild /\ ~ up' /\ conn' = conn
           \/ /\ socketToManager # Wild /\ up' = up
              /\ conn' = [conn EXCEPT ![socketToManager] = "closed"]
    BY <1>2 DEF disconnect, wildPointer
  <2>2. /\ conn' \in [Loops -> {"none", "created", "open", "closed"}]
        /\ \A n \in Loops : n # socketToManager => conn'[n] = conn[n]
    BY <1>0, <2>1 DEF Places
  <2>3. Mutex' /\ Counts' /\ Places'
    BY <1>0, <2>1, <2>2 DEF Mutex, Counts, Places
  <2>4. up' => managerThread # 0 /\ managerThread \in Loops /\ managerThread <= discons'
    BY <1>0, <2>1 DEF Control, OneLoop, Counted, Places
  <2>5. ASSUME NEW n \in Loops, n > managerThread
        PROVE  loop[n] = Unborn /\ conn'[n] = "none" /\ n # socketToManager
    BY <2>2, <2>5 DEF Control, OneLoop, OwnConnection, Unborn
  <2>6. OneLoop'
    BY <2>1, <2>5 DEF Control, OneLoop
  <2>7. Counted'
    <3>1. managerThread \in Nat /\ discons \in Nat /\ managerThread <= discons'
      BY <1>0, <2>1 DEF Control, Counted, Places, Loops
    <3>2. discons' \in 0 .. MaxDiscons
      BY <2>1 DEF Control, Counted
    <3>3. QED
      BY <2>1, <2>4, <3>1, <3>2 DEF Counted, Loops
  <2>8. Course'
    BY <1>0, <2>1 DEF Control, Course, Early
  <2>9. OwnConnection'
    BY <2>1, <2>2 DEF Control, OwnConnection
  <2>10. QED
    BY <1>0, <2>1, <2>3, <2>6, <2>7, <2>8, <2>9 DEF Control
<1>3. CASE kill
  <2>1. /\ cloud = "kill" /\ cloud' = "create" /\ killManagerLoop(managerThread)
        /\ UNCHANGED <<managerThread, up, socketToManager, conn, discons>>
    BY <1>3 DEF kill
  <2>2. managerThread \in Loops /\ managerThread > 0 /\ managerThread <= discons
    BY <1>0, <2>1 DEF Control, Counted, Places
  <2>3. /\ loop' \in [Loops -> LoopState]
        /\ loop'[managerThread].pc = "dead"
        /\ \A m \in Loops : m # managerThread => loop'[m] = loop[m]
        /\ \A m \in Loops : mutexLock' = m <=> loop'[m].pc = "send"
        /\ mutexLock' = KeepAlive <=> mutexLock = KeepAlive
    BY <2>1, <2>2, Killed
  <2>4. Mutex' /\ Counts' /\ Places'
    BY <1>0, <2>1, <2>3 DEF Mutex, Counts, Places
  <2>5. OneLoop'
    BY <2>1, <2>2, <2>3 DEF Control, OneLoop, Loops
  <2>6. Counted'
    BY <1>0, <2>1, <2>2 DEF Control, Counted
  <2>7. Course'
    BY <1>0, <2>1, CloudCourse DEF Control, Course
  <2>8. OwnConnection'
    BY <2>1, <2>2, <2>3 DEF Control, OwnConnection, Working
  <2>9. QED
    BY <2>3, <2>4, <2>5, <2>6, <2>7, <2>8 DEF Control
<1>4. CASE create
  <2>1. /\ cloud = "create" /\ cloud' = "recv" /\ startManagerLoop
        /\ UNCHANGED <<up, socketToManager, mutexLock, conn, discons>>
    BY <1>4 DEF create
  <2>2. /\ managerThread > 0 /\ managerThread \in Loops
        /\ managerThread + 1 \in Loops /\ managerThread + 1 <= discons + 1
    BY <1>0, <2>1 DEF Control, Counted, Places, Loops
  <2>3. /\ managerThread' = managerThread + 1
        /\ loop' \in [Loops -> LoopState]
        /\ loop'[managerThread'].pc = "print"
        /\ \A m \in Loops : m # managerThread' => loop'[m] = loop[m]
        /\ loop[managerThread'] = Unborn
        /\ \A m \in Loops : mutexLock = m <=> loop'[m].pc = "send"
    BY <2>2, <2>1, Started
  <2>4. Mutex' /\ Counts' /\ Places'
    BY <1>0, <2>1, <2>2, <2>3 DEF Mutex, Counts, Places
  <2>5. loop[managerThread].pc = "dead"
    BY <2>1, <2>2 DEF Control, OneLoop
  <2>6. OneLoop'
    BY <2>1, <2>2, <2>3, <2>5 DEF Control, OneLoop, Loops
  <2>7. Counted'
    BY <2>1, <2>2, <2>3 DEF Control, Counted
  <2>8. Course'
    <3>1. managerThread # 0 /\ managerThread' # 0
      BY <2>2, <2>3 DEF Loops
    <3>2. QED
      BY <1>0, <2>1, <3>1, CloudCourse DEF Control, Course
  <2>9. OwnConnection'
    BY <2>1, <2>2, <2>3 DEF Control, OwnConnection, Unborn, Working
  <2>10. QED
    BY <2>3, <2>4, <2>6, <2>7, <2>8, <2>9 DEF Control
<1>5. QED
  BY <1>1, <1>2, <1>3, <1>4 DEF cloudLoop

\* A step of a living loop: what is left to show is what it does to itself, to its own
\* connection and to the mutex.
LEMMA LoopStep ==
    ASSUME Control, NEW n \in Loops, loop[n].pc \notin {"none", "dead"},
           loop' \in [Loops -> LoopState], loop'[n].pc \notin {"none", "dead"},
           \A m \in Loops : m # n => loop'[m] = loop[m] /\ conn'[m] = conn[m],
           socketToManager' \in {socketToManager, n},
           UNCHANGED <<caller, cloud, keepAlive, managerThread, up, discons>>,
           Mutex', Counts', Places',
           /\ loop'[n].pc \in {"print", "new"} => conn'[n] = "none" /\ socketToManager' # n
           /\ loop'[n].pc \in Working => socketToManager' = n
           /\ loop'[n].pc \in {"blocked", "free", "lock", "send"} => loop'[n].on = n
    PROVE  Control'
<1>1. n = managerThread /\ cloud # "create" /\ caller # "stopped" /\ managerThread > 0
  BY LatestOnly DEF Loops
<1>2. OneLoop'
  BY <1>1 DEF Control, OneLoop, Loops
<1>3. Counted' /\ Course'
  BY <1>1 DEF Control, Counted, Course
<1>4. OwnConnection'
  <2>1. ASSUME NEW m \in Loops, m # n
        PROVE  /\ loop'[m].pc \in {"none", "print", "new"} => conn'[m] = "none" /\ socketToManager' # m
               /\ loop'[m].pc \in Working => socketToManager' = m
               /\ loop'[m].pc \in {"blocked", "free", "lock", "send"} => loop'[m].on = m
    <3>1. loop[m].pc \in {"none", "dead"}
      BY <1>1, <2>1, LatestOnly
    <3>2. QED
      BY <2>1, <3>1 DEF Control, OwnConnection, Working
  <2>2. QED
    BY <2>1 DEF OwnConnection
<1>5. QED
  BY <1>2, <1>3, <1>4 DEF Control

\* What recv returns: nothing, or the next cells of the loop's own connection.
LEMMA RecvFacts ==
    ASSUME KillStops, Control, NEW n \in Loops, RecviveData(n)
    PROVE  /\ loop[n].pc = "blocked" /\ loop[n].on = n
           /\ loop' \in [Loops -> LoopState]
           /\ \A m \in Loops : m # n => loop'[m] = loop[m]
           /\ UNCHANGED <<socketToManager, mutexLock, conn, cloudGot>>
           /\ loopUnchanged
           /\ \/ /\ loop'[n].pc = "free" /\ loop'[n].on = n
                 /\ loop'[n].recvBuffer = loop[n].recvBuffer /\ taken' = taken
              \/ \E k \in taken[n] + 1 .. sent[n] : \E cells \in Seq(Cells) :
                   /\ taken' = [taken EXCEPT ![n] = k]
                   /\ loop'[n].pc = "free" /\ loop'[n].on = n
                   /\ loop'[n].recvBuffer = loop[n].recvBuffer \o cells
                   /\ Len(cells) = k - taken[n]
                   /\ \A j \in 1 .. k - taken[n] : cells[j] = <<n, taken[n] + j>>
<1>0. loop \in [Loops -> LoopState] /\ Counts
  BY DEF Control
<1>1. /\ loop[n].pc = "blocked" /\ UNCHANGED <<socketToManager, mutexLock, conn, cloudGot>>
      /\ loopUnchanged
  BY DEF RecviveData, at
<1> DEFINE c == loop[n].on
<1>2. c = n
  BY <1>1 DEF Control, OwnConnection
<1>3. ASSUME NEW k \in taken[c] + 1 .. sent[c], taken' = [taken EXCEPT ![c] = k],
             loop' = [loop EXCEPT ![n].pc = "free",
                        ![n].recvBuffer = @ \o [j \in 1 .. k - taken[c] |-> <<c, taken[c] + j>>]]
      PROVE  \E cells \in Seq(Cells) :
                /\ loop' \in [Loops -> LoopState]
                /\ \A m \in Loops : m # n => loop'[m] = loop[m]
                /\ loop'[n].pc = "free" /\ loop'[n].on = n
                /\ loop'[n].recvBuffer = loop[n].recvBuffer \o cells
                /\ Len(cells) = k - taken[n]
                /\ \A j \in 1 .. k - taken[n] : cells[j] = <<n, taken[n] + j>>
  <2> DEFINE d == k - taken[c]
             cells == [j \in 1 .. d |-> <<c, taken[c] + j>>]
  <2>1. taken[n] \in Nat /\ sent[n] \in 0 .. MaxCells /\ d \in Nat
    BY <1>0, <1>2 DEF Counts
  <2>2. \A j \in 1 .. d : taken[n] + j \in 1 .. MaxCells
    BY <1>2, <2>1
  <2>3. cells \in [1 .. d -> Cells]
    BY <1>2, <2>2 DEF Cells
  <2>4. loop' = [loop EXCEPT ![n].pc = "free", ![n].recvBuffer = @ \o cells]
    BY <1>3
  <2>5. d = k - taken[n] /\ \A j \in 1 .. d : cells[j] = <<n, taken[n] + j>>
    BY <1>2
  <2> HIDE DEF d, cells
  <2>6. cells \in Seq(Cells) /\ Len(cells) = d
    BY <2>1, <2>3, FunctionIsSeq
  <2>7. loop[n].recvBuffer \in Seq(Cells)
    BY <1>0 DEF LoopState
  <2>8. loop[n].recvBuffer \o cells \in Seq(Cells)
    BY <2>6, <2>7, ConcatProperties
  <2>9. /\ loop' \in [Loops -> LoopState]
        /\ \A m \in Loops : m # n => loop'[m] = loop[m]
        /\ loop'[n].pc = "free" /\ loop'[n].on = n
        /\ loop'[n].recvBuffer = loop[n].recvBuffer \o cells
    BY <1>0, <1>2, <2>4, <2>8 DEF LoopState, Pcs
  <2>10. QED
    BY <2>5, <2>6, <2>9
<1>4. ASSUME goto(n, "free"), taken' = taken
      PROVE  /\ loop' \in [Loops -> LoopState]
             /\ \A m \in Loops : m # n => loop'[m] = loop[m]
             /\ loop'[n].pc = "free" /\ loop'[n].on = n
             /\ loop'[n].recvBuffer = loop[n].recvBuffer
  BY <1>0, <1>2, <1>4, Moves DEF goto, Pcs
<1>5. \/ goto(n, "free") /\ taken' = taken
      \/ \E k \in taken[c] + 1 .. sent[c] :
            /\ taken' = [taken EXCEPT ![c] = k]
            /\ loop' = [loop EXCEPT ![n].pc = "free",
                        ![n].recvBuffer = @ \o [j \in 1 .. k - taken[c] |-> <<c, taken[c] + j>>]]
  BY DEF RecviveData
<1> HIDE DEF c
<1>6. CASE goto(n, "free") /\ taken' = taken
  BY <1>1, <1>2, <1>4, <1>6 DEF c
<1>7. CASE ~ (goto(n, "free") /\ taken' = taken)
  <2>1. PICK k \in taken[c] + 1 .. sent[c] :
            /\ taken' = [taken EXCEPT ![c] = k]
            /\ loop' = [loop EXCEPT ![n].pc = "free",
                        ![n].recvBuffer = @ \o [j \in 1 .. k - taken[c] |-> <<c, taken[c] + j>>]]
    BY <1>5, <1>7
  <2>2. k \in taken[n] + 1 .. sent[n] /\ taken' = [taken EXCEPT ![n] = k]
    BY <1>2, <2>1
  <2>3. QED
    BY <1>1, <1>2, <1>3, <2>1, <2>2 DEF c
<1>8. QED
  BY <1>6, <1>7

LEMMA LoopKeepsControl ==
    ASSUME KillStops, Control, NEW n \in Loops, managerLoop(n)
    PROVE  Control'
<1>0. /\ loop \in [Loops -> LoopState] /\ Mutex /\ Counts /\ Places
      /\ UNCHANGED <<caller, cloud, keepAlive, managerThread, up, discons, sent>>
      /\ n # Wild /\ n # Free /\ n # KeepAlive
  BY DEF Control, managerLoop, enter, announce, newClient, connect, callRecv, RecviveData, freeBuffer,
     lockMutex, sendToCloud, loopUnchanged, Loops, Wild, Free, KeepAlive
<1>1. CASE newClient(n)
  <2>1. /\ loop[n].pc = "new" /\ socketToManager' = n
        /\ conn' = [conn EXCEPT ![n] = "created"]
        /\ loop' = [loop EXCEPT ![n].pc = "connect"]
        /\ UNCHANGED <<mutexLock, taken>>
    BY <1>1 DEF newClient, at, goto
  <2>2. /\ loop' \in [Loops -> LoopState]
        /\ loop'[n].pc = "connect"
        /\ \A m \in Loops : m # n => loop'[m] = loop[m]
    BY <1>0, <2>1, Moves DEF Pcs
  <2>3. Mutex' /\ Counts' /\ Places'
    BY <1>0, <2>1, <2>2 DEF Mutex, Counts, Places
  <2>4. \A m \in Loops : m # n => conn'[m] = conn[m]
    BY <1>0, <2>1 DEF Places
  <2>5. QED
    BY <1>0, <2>1, <2>2, <2>3, <2>4, LoopStep DEF Working
<1>2. CASE connect(n)
  <2>1. /\ loop[n].pc = "connect" /\ socketToManager' = socketToManager
        /\ conn' = IF conn[n] = "created" THEN [conn EXCEPT ![n] = "open"] ELSE conn
        /\ loop' = [loop EXCEPT ![n].pc = "recv"]
        /\ UNCHANGED <<mutexLock, taken>>
    BY <1>2 DEF connect, at, goto
  <2>2. /\ loop' \in [Loops -> LoopState]
        /\ loop'[n].pc = "recv"
        /\ \A m \in Loops : m # n => loop'[m] = loop[m]
    BY <1>0, <2>1, Moves DEF Pcs
  <2>3. /\ conn' \in [Loops -> {"none", "created", "open", "closed"}]
        /\ \A m \in Loops : m # n => conn'[m] = conn[m]
    BY <1>0, <2>1 DEF Places
  <2>4. Mutex' /\ Counts' /\ Places'
    BY <1>0, <2>1, <2>2, <2>3 DEF Mutex, Counts, Places
  <2>5. socketToManager = n
    BY <2>1 DEF Control, OwnConnection, Working
  <2>6. QED
    BY <1>0, <2>1, <2>2, <2>3, <2>4, <2>5, LoopStep DEF Working
<1>3. CASE callRecv(n)
  <2>1. /\ loop[n].pc = "recv"
        /\ \E to \in {"blocked", "free"} :
              loop' = [loop EXCEPT ![n].pc = to, ![n].on = socketToManager]
        /\ UNCHANGED <<socketToManager, mutexLock, taken, conn>>
    BY <1>3 DEF callRecv, at
  <2>2. socketToManager = n
    BY <2>1 DEF Control, OwnConnection, Working
  <2>3. /\ loop' \in [Loops -> LoopState]
        /\ loop'[n].pc \in {"blocked", "free"} /\ loop'[n].on = n
        /\ \A m \in Loops : m # n => loop'[m] = loop[m]
    <3>1. PICK to \in {"blocked", "free"} :
             loop' = [loop EXCEPT ![n].pc = to, ![n].on = socketToManager]
      BY <2>1
    <3>2. QED
      BY <1>0, <2>2, <3>1 DEF LoopState, Pcs
  <2>4. Mutex' /\ Counts' /\ Places'
    BY <1>0, <2>1, <2>3 DEF Mutex, Counts, Places
  <2>5. QED
    BY <1>0, <2>1, <2>2, <2>3, <2>4, LoopStep DEF Working
<1>4. CASE RecviveData(n)
  <2>1. /\ loop[n].pc = "blocked" /\ loop[n].on = n
        /\ loop' \in [Loops -> LoopState]
        /\ \A m \in Loops : m # n => loop'[m] = loop[m]
        /\ UNCHANGED <<socketToManager, mutexLock, conn>>
        /\ loop'[n].pc = "free" /\ loop'[n].on = n
        /\ \/ taken' = taken
           \/ \E k \in taken[n] + 1 .. sent[n] : taken' = [taken EXCEPT ![n] = k]
    BY <1>4, RecvFacts
  <2>2. socketToManager = n
    BY <2>1 DEF Control, OwnConnection, Working
  <2>3. Mutex' /\ Counts' /\ Places'
    BY <1>0, <2>1 DEF Mutex, Counts, Places
  <2>4. QED
    BY <1>0, <2>1, <2>2, <2>3, LoopStep DEF Working
<1>5. CASE lockMutex(n)
  <2>1. /\ loop[n].pc = "lock" /\ mutexLock = Free /\ mutexLock' = n
        /\ loop' = [loop EXCEPT ![n].pc = "send"]
        /\ UNCHANGED <<socketToManager, taken, conn>>
    BY <1>5 DEF lockMutex, at, goto
  <2>2. /\ loop' \in [Loops -> LoopState]
        /\ loop'[n].pc = "send" /\ loop'[n].on = loop[n].on
        /\ \A m \in Loops : m # n => loop'[m] = loop[m]
    BY <1>0, <2>1, Moves DEF Pcs
  <2>3. socketToManager = n /\ loop[n].on = n
    BY <2>1 DEF Control, OwnConnection, Working
  <2>4. \A m \in Loops : m # Free
    BY DEF Loops, Free
  <2>5. Mutex' /\ Counts' /\ Places'
    BY <1>0, <2>1, <2>2, <2>4 DEF Mutex, Counts, Places, Free, KeepAlive
  <2>6. QED
    BY <1>0, <2>1, <2>2, <2>3, <2>5, LoopStep DEF Working
<1>6. CASE sendToCloud(n)
  <2>1. /\ loop[n].pc = "send" /\ mutexLock' = Free
        /\ loop' = [loop EXCEPT ![n].pc = "recv", ![n].recvBuffer = <<>>]
        /\ UNCHANGED <<socketToManager, taken, conn>>
    BY <1>6 DEF sendToCloud, at
  <2>2. /\ loop' \in [Loops -> LoopState]
        /\ loop'[n].pc = "recv"
        /\ \A m \in Loops : m # n => loop'[m] = loop[m]
    <3>1. <<>> \in Seq(Cells)
      BY EmptySeq
    <3>2. QED
      BY <1>0, <2>1, <3>1 DEF LoopState, Pcs
  <2>3. socketToManager = n
    BY <2>1 DEF Control, OwnConnection, Working
  <2>4. \A m \in Loops : m # Free
    BY DEF Loops, Free
  <2>5. Mutex' /\ Counts' /\ Places'
    BY <1>0, <2>1, <2>2, <2>4 DEF Mutex, Counts, Places, Free, KeepAlive
  <2>6. QED
    BY <1>0, <2>1, <2>2, <2>3, <2>5, LoopStep DEF Working
<1>7. CASE enter(n)
  BY <1>0, <1>7 DEF enter, Control, Mutex, Counts, Places, OneLoop, Counted, Course, OwnConnection
<1>8. CASE announce(n)
  <2>1. /\ loop[n].pc = "print"
        /\ loop' = [loop EXCEPT ![n].pc = "new"]
        /\ UNCHANGED <<socketToManager, mutexLock, taken, conn>>
    BY <1>8 DEF announce, at, goto
  <2>2. /\ loop' \in [Loops -> LoopState]
        /\ loop'[n].pc = "new"
        /\ \A m \in Loops : m # n => loop'[m] = loop[m]
    BY <1>0, <2>1, Moves DEF Pcs
  <2>3. conn[n] = "none" /\ socketToManager # n
    BY <2>1 DEF Control, OwnConnection
  <2>4. Mutex' /\ Counts' /\ Places'
    BY <1>0, <2>1, <2>2 DEF Mutex, Counts, Places
  <2>5. QED
    BY <1>0, <2>1, <2>2, <2>3, <2>4, LoopStep DEF Working
<1>9. CASE freeBuffer(n)
  <2> DEFINE to == IF loop[n].recvBuffer = <<>> THEN "recv" ELSE "lock"
  <2>1. /\ loop[n].pc = "free"
        /\ loop' = [loop EXCEPT ![n].pc = to]
        /\ UNCHANGED <<socketToManager, mutexLock, taken, conn>>
    BY <1>9 DEF freeBuffer, at, goto
  <2>2. to \in {"recv", "lock"}
    OBVIOUS
  <2> HIDE DEF to
  <2>3. /\ loop' \in [Loops -> LoopState]
        /\ loop'[n].pc = to /\ loop'[n].on = loop[n].on
        /\ \A m \in Loops : m # n => loop'[m] = loop[m]
    BY <1>0, <2>1, <2>2, Moves DEF Pcs
  <2>4. socketToManager = n /\ loop[n].on = n
    BY <2>1 DEF Control, OwnConnection, Working
  <2>5. Mutex' /\ Counts' /\ Places'
    BY <1>0, <2>1, <2>2, <2>3 DEF Mutex, Counts, Places
  <2>6. QED
    BY <1>0, <2>1, <2>2, <2>3, <2>4, <2>5, LoopStep DEF Working
<1>10. QED
  BY <1>1, <1>2, <1>3, <1>4, <1>5, <1>6, <1>7, <1>8, <1>9 DEF managerLoop

LEMMA ManagerKeepsControl ==
    ASSUME Control, NEW n \in Loops, ManagerSends(n)
    PROVE  Control'
<1>1. /\ sent[n] < MaxCells /\ sent' = [sent EXCEPT ![n] = @ + 1]
      /\ UNCHANGED <<caller, threads, socketToManager, mutexLock, conn, taken, discons>>
  BY DEF ManagerSends
<1>2. Counts'
  BY <1>1 DEF Control, Counts
<1>3. QED
  BY <1>1, <1>2 DEF Control, threads, Mutex, Places, OneLoop, Counted, Course, OwnConnection

LEMMA ControlStep == KillStops /\ Control /\ [Next]_vars => Control'
<1> SUFFICES ASSUME KillStops, Control, [Next]_vars PROVE Control'
  OBVIOUS
<1>1. CASE UNCHANGED vars
  BY <1>1 DEF vars, threads, network, Control, Mutex, Counts, Places, OneLoop, Counted, Course,
     OwnConnection
<1>2. QED
  BY <1>1, CallerKeepsControl, KeepAliveKeepsControl, CloudKeepsControl, LoopKeepsControl,
     ManagerKeepsControl DEF Next

-----------------------------------------------------------------------------
(* What goes to the cloud.                                                 *)

LEMMA CellFacts ==
    ASSUME NEW q \in Seq(Cells)
    PROVE  /\ Len(q) \in Nat /\ DOMAIN q = 1 .. Len(q)
           /\ \A i \in DOMAIN q : /\ q[i][1] \in Loops /\ q[i][1] \in Nat
                                  /\ q[i][2] \in Nat
<1>1. Len(q) \in Nat /\ DOMAIN q = 1 .. Len(q)
  BY LenProperties
<1>2. \A i \in 1 .. Len(q) : q[i] \in Cells
  BY ElementOfSeq
<1>3. \A x \in Cells : x[1] \in Loops /\ x[1] \in Nat /\ x[2] \in Nat
  BY DEF Cells, Loops
<1>4. QED
  BY <1>1, <1>2, <1>3

\* Steps that take and send nothing: a loop may lose what it holds, when it is killed.
LEMMA FlowKept ==
    ASSUME Flow, managerThread \in Nat, managerThread' \in Nat, managerThread <= managerThread',
           UNCHANGED <<taken, cloudGot>>,
           \A n \in Loops :
              \/ loop'[n].recvBuffer = <<>>
              \/ /\ loop'[n].recvBuffer = loop[n].recvBuffer
                 /\ loop[n].pc \in {"free", "lock", "send"} =>
                      loop'[n].pc \in {"free", "lock", "send"}
    PROVE  Flow'
<1>1. DOMAIN <<>> = {}
  OBVIOUS
<1>2. ASSUME NEW n \in Loops
      PROVE  /\ loop'[n].pc \notin {"free", "lock", "send"} => loop'[n].recvBuffer = <<>>
             /\ \A i \in DOMAIN loop'[n].recvBuffer :
                  /\ loop'[n].recvBuffer[i][1] = n
                  /\ loop'[n].recvBuffer[i][2] <= taken[n]
                  /\ \A j \in DOMAIN loop'[n].recvBuffer :
                       i < j => loop'[n].recvBuffer[i][2] < loop'[n].recvBuffer[j][2]
                  /\ \A j \in DOMAIN cloudGot :
                       cloudGot[j][1] = n => cloudGot[j][2] < loop'[n].recvBuffer[i][2]
  <2>1. CASE loop'[n].recvBuffer = <<>>
    BY <1>1, <2>1
  <2>2. CASE loop'[n].recvBuffer # <<>>
    BY <2>2 DEF Flow, Buffered
  <2>3. QED
    BY <2>1, <2>2
<1>3. Buffered'
  BY <1>2 DEF Buffered
<1>4. Arrived'
  <2>1. \A i \in DOMAIN cloudGot : cloudGot[i][1] \in Nat
    BY CellFacts DEF Flow, Arrived
  <2>2. QED
    BY <2>1 DEF Flow, Arrived
<1>5. Ascending'
  BY DEF Flow, Ascending
<1>6. QED
  BY <1>3, <1>4, <1>5 DEF Flow

\* The cells recv returns come after all that is there of this connection.
LEMMA RecvKeepsFlow ==
    ASSUME KillStops, Control, Flow, NEW n \in Loops, RecviveData(n)
    PROVE  Flow'
<1>0. Counts /\ managerThread \in Nat
  BY DEF Control, Places, Loops
<1>1. /\ loop[n].pc = "blocked" /\ loop[n].recvBuffer = <<>>
      /\ \A m \in Loops : m # n => loop'[m] = loop[m]
      /\ UNCHANGED <<cloudGot, managerThread>>
  BY RecvFacts DEF loopUnchanged, Flow, Buffered
<1>2. CASE loop'[n].recvBuffer = loop[n].recvBuffer /\ taken' = taken
  BY <1>0, <1>1, <1>2, FlowKept
<1>3. ASSUME NEW k \in taken[n] + 1 .. sent[n], NEW cells \in Seq(Cells),
             taken' = [taken EXCEPT ![n] = k],
             loop'[n].pc = "free",
             loop'[n].recvBuffer = loop[n].recvBuffer \o cells,
             Len(cells) = k - taken[n],
             \A j \in 1 .. k - taken[n] : cells[j] = <<n, taken[n] + j>>
      PROVE  Flow'
  <2>1. taken[n] \in Nat /\ k \in Nat /\ taken[n] < k
    BY <1>0, <1>3 DEF Counts
  <2>2. taken'[n] = k /\ \A m \in Loops : m # n => taken'[m] = taken[m]
    BY <1>0, <1>3 DEF Counts
  <2>3. loop'[n].recvBuffer = cells
    BY <1>1, <1>3, ConcatEmptySeq
  <2>4. /\ DOMAIN cells = 1 .. k - taken[n]
        /\ \A i \in DOMAIN cells : cells[i][1] = n /\ cells[i][2] = taken[n] + i
    <3>1. DOMAIN cells = 1 .. k - taken[n]
      BY <1>3, CellFacts
    <3>2. QED
      BY <1>3, <3>1
  <2>5. \A i \in DOMAIN cloudGot : /\ cloudGot[i][1] \in Loops /\ cloudGot[i][2] \in Nat
                                   /\ cloudGot[i][2] <= taken[cloudGot[i][1]]
    BY CellFacts DEF Flow, Arrived
  <2>6. /\ \A i \in DOMAIN cells :
             /\ cells[i][1] = n
             /\ cells[i][2] <= taken'[n]
             /\ \A j \in DOMAIN cells : i < j => cells[i][2] < cells[j][2]
             /\ \A j \in DOMAIN cloudGot : cloudGot[j][1] = n => cloudGot[j][2] < cells[i][2]
    BY <2>1, <2>2, <2>4, <2>5
  <2>7. ASSUME NEW m \in Loops
        PROVE  /\ loop'[m].pc \notin {"free", "lock", "send"} => loop'[m].recvBuffer = <<>>
               /\ \A i \in DOMAIN loop'[m].recvBuffer :
                    /\ loop'[m].recvBuffer[i][1] = m
                    /\ loop'[m].recvBuffer[i][2] <= taken'[m]
                    /\ \A j \in DOMAIN loop'[m].recvBuffer :
                         i < j => loop'[m].recvBuffer[i][2] < loop'[m].recvBuffer[j][2]
                    /\ \A j \in DOMAIN cloudGot' :
                         cloudGot'[j][1] = m => cloudGot'[j][2] < loop'[m].recvBuffer[i][2]
    <3>1. CASE m = n
      BY <1>1, <1>3, <2>3, <2>6, <3>1
    <3>2. CASE m # n
      BY <1>1, <2>2, <3>2 DEF Flow, Buffered
    <3>3. QED
      BY <3>1, <3>2
  <2>8. Buffered'
    BY <2>7 DEF Buffered
  <2>9. Arrived'
    BY <1>1, <2>1, <2>2, <2>5 DEF Flow, Arrived
  <2>10. Ascending'
    BY <1>1 DEF Flow, Ascending
  <2>11. QED
    BY <2>8, <2>9, <2>10 DEF Flow
<1>4. CASE \E k \in taken[n] + 1 .. sent[n] : \E cells \in Seq(Cells) :
              /\ taken' = [taken EXCEPT ![n] = k]
              /\ loop'[n].pc = "free"
              /\ loop'[n].recvBuffer = loop[n].recvBuffer \o cells
              /\ Len(cells) = k - taken[n]
              /\ \A j \in 1 .. k - taken[n] : cells[j] = <<n, taken[n] + j>>
  BY <1>3, <1>4
<1>5. QED
  <2>1. \/ loop'[n].recvBuffer = loop[n].recvBuffer /\ taken' = taken
        \/ \E k \in taken[n] + 1 .. sent[n] : \E cells \in Seq(Cells) :
              /\ taken' = [taken EXCEPT ![n] = k]
              /\ loop'[n].pc = "free"
              /\ loop'[n].recvBuffer = loop[n].recvBuffer \o cells
              /\ Len(cells) = k - taken[n]
              /\ \A j \in 1 .. k - taken[n] : cells[j] = <<n, taken[n] + j>>
    <3>1. \/ loop'[n].recvBuffer = loop[n].recvBuffer /\ taken' = taken
          \/ \E k \in taken[n] + 1 .. sent[n] : \E cells \in Seq(Cells) :
                /\ taken' = [taken EXCEPT ![n] = k]
                /\ loop'[n].pc = "free" /\ loop'[n].on = n
                /\ loop'[n].recvBuffer = loop[n].recvBuffer \o cells
                /\ Len(cells) = k - taken[n]
                /\ \A j \in 1 .. k - taken[n] : cells[j] = <<n, taken[n] + j>>
      BY RecvFacts, Zenon
    <3>2. QED
      BY <3>1, Zenon
  <2>2. QED
    BY <1>2, <1>4, <2>1

\* What the latest loop sends comes after all that older loops have sent.
LEMMA SendKeepsFlow ==
    ASSUME Control, Flow, NEW n \in Loops, sendToCloud(n)
    PROVE  Flow'
<1> DEFINE buf == loop[n].recvBuffer
           a == Len(cloudGot)
           b == Len(buf)
<1>1. /\ loop[n].pc = "send" /\ cloudGot' = cloudGot \o buf
      /\ loop' = [loop EXCEPT ![n].pc = "recv", ![n].recvBuffer = <<>>]
      /\ UNCHANGED <<taken, managerThread>>
  BY DEF sendToCloud, at, loopUnchanged
<1>2. n = managerThread /\ n \in Nat /\ managerThread \in Nat
  BY <1>1, LatestOnly DEF Loops
<1>3. loop \in [Loops -> LoopState] /\ buf \in Seq(Cells) /\ cloudGot \in Seq(Cells)
  BY DEF Control, LoopState, Flow, Arrived
<1>4. /\ a \in Nat /\ DOMAIN cloudGot = 1 .. a /\ b \in Nat /\ DOMAIN buf = 1 .. b
      /\ \A i \in DOMAIN cloudGot : /\ cloudGot[i][1] \in Nat /\ cloudGot[i][2] \in Nat
                                    /\ cloudGot[i][1] <= n
                                    /\ cloudGot[i][2] <= taken[cloudGot[i][1]]
      /\ \A i \in DOMAIN buf : buf[i][2] \in Nat
  BY <1>2, <1>3, CellFacts DEF Flow, Arrived
<1>5. \A i \in DOMAIN buf :
         /\ buf[i][1] = n /\ buf[i][2] <= taken[n]
         /\ \A j \in DOMAIN buf : i < j => buf[i][2] < buf[j][2]
         /\ \A j \in DOMAIN cloudGot : cloudGot[j][1] = n => cloudGot[j][2] < buf[i][2]
  BY DEF Flow, Buffered
<1> HIDE DEF buf
<1>6. /\ cloudGot' \in Seq(Cells) /\ Len(cloudGot') = a + b
      /\ \A i \in 1 .. a + b : cloudGot'[i] = IF i <= a THEN cloudGot[i] ELSE buf[i - a]
  BY <1>1, <1>3, ConcatProperties
<1> HIDE DEF a, b
<1>7. DOMAIN cloudGot' = 1 .. a + b
  BY <1>6, LenProperties
<1>8. \A m \in Loops : loop'[m].recvBuffer = <<>>
  <2>1. ASSUME NEW m \in Loops, m # n PROVE loop[m].recvBuffer = <<>>
    BY <1>2, <2>1, LatestOnly DEF Flow, Buffered
  <2>2. QED
    BY <1>1, <1>3, <2>1 DEF LoopState
<1>9. Buffered'
  BY <1>8 DEF Buffered
<1>10. ASSUME NEW i \in 1 .. a + b
       PROVE  \/ i \in DOMAIN cloudGot /\ cloudGot'[i] = cloudGot[i]
              \/ i > a /\ i - a \in DOMAIN buf /\ cloudGot'[i] = buf[i - a]
  BY <1>4, <1>6
<1>11. Arrived'
  BY <1>1, <1>2, <1>4, <1>5, <1>6, <1>7, <1>10, SMTT(30) DEF Arrived
<1>12. Ascending'
  <2>1. ASSUME NEW i \in 1 .. a + b, NEW j \in 1 .. a + b, i < j
        PROVE  \/ cloudGot'[i][1] < cloudGot'[j][1]
               \/ cloudGot'[i][1] = cloudGot'[j][1] /\ cloudGot'[i][2] < cloudGot'[j][2]
    <3>1. CASE j \in DOMAIN cloudGot /\ cloudGot'[j] = cloudGot[j]
      <4>1. i \in DOMAIN cloudGot /\ cloudGot'[i] = cloudGot[i]
        BY <1>4, <1>6, <2>1, <3>1
      <4>2. QED
        BY <2>1, <3>1, <4>1 DEF Flow, Ascending
    <3>2. CASE j > a /\ j - a \in DOMAIN buf /\ cloudGot'[j] = buf[j - a]
      <4>1. CASE i \in DOMAIN cloudGot /\ cloudGot'[i] = cloudGot[i]
        BY <1>2, <1>4, <1>5, <3>2, <4>1
      <4>2. CASE i > a /\ i - a \in DOMAIN buf /\ cloudGot'[i] = buf[i - a]
        <5>1. i - a < j - a
          BY <1>4, <2>1
        <5>2. QED
          BY <1>5, <3>2, <4>2, <5>1
      <4>3. QED
        BY <1>10, <4>1, <4>2
    <3>3. QED
      BY <1>10, <3>1, <3>2
  <2>2. QED
    BY <1>7, <2>1 DEF Ascending
<1>13. QED
  BY <1>9, <1>11, <1>12 DEF Flow

LEMMA FlowStep == KillStops /\ Control /\ Flow /\ [Next]_vars => Flow'
<1> SUFFICES ASSUME KillStops, Control, Flow, [Next]_vars PROVE Flow'
  OBVIOUS
<1>0. managerThread \in Nat /\ loop \in [Loops -> LoopState]
  BY DEF Control, Places, Loops
<1>1. ASSUME UNCHANGED <<loop, managerThread, taken, cloudGot>> PROVE Flow'
  BY <1>0, <1>1, FlowKept
<1>2. ASSUME killManagerLoop(managerThread), managerThread \in Loops,
             UNCHANGED <<managerThread, taken, cloudGot>>
      PROVE  Flow'
  <2>1. /\ loop'[managerThread].recvBuffer = <<>>
        /\ \A m \in Loops : m # managerThread => loop'[m] = loop[m]
    BY <1>2, Killed
  <2>2. \A n \in Loops :
           \/ loop'[n].recvBuffer = <<>>
           \/ /\ loop'[n].recvBuffer = loop[n].recvBuffer
              /\ loop[n].pc \in {"free", "lock", "send"} => loop'[n].pc \in {"free", "lock", "send"}
    BY <2>1
  <2>3. managerThread' \in Nat /\ managerThread <= managerThread'
    BY <1>0, <1>2
  <2>4. UNCHANGED <<taken, cloudGot>>
    BY <1>2
  <2>5. QED
    BY <1>0, <2>2, <2>3, <2>4, FlowKept
<1>3. ASSUME startManagerLoop, managerThread + 1 \in Loops, UNCHANGED <<taken, cloudGot>>
      PROVE  Flow'
  <2>1. /\ managerThread' = managerThread + 1
        /\ loop'[managerThread'].recvBuffer = <<>>
        /\ \A m \in Loops : m # managerThread' => loop'[m] = loop[m]
    BY <1>3, Started
  <2>2. QED
    BY <1>0, <1>3, <2>1, FlowKept
<1>4. CASE up /\ (Login \/ startListener \/ stopListener)
  <2>1. UNCHANGED <<taken, cloudGot>>
    BY <1>4 DEF Login, startListener, stopListener, network
  <2>2. \/ UNCHANGED <<loop, managerThread>>
        \/ caller = "startManager" /\ startManagerLoop
        \/ caller = "stop2" /\ killManagerLoop(managerThread) /\ UNCHANGED managerThread
    BY <1>4 DEF Login, startListener, stopListener, threads, stopThread, StopOrder
  <2>3. CASE caller = "startManager" /\ startManagerLoop
    <3>1. managerThread + 1 \in Loops
      BY <2>3 DEF Control, Course, Loops
    <3>2. QED
      BY <1>3, <2>1, <2>3, <3>1
  <2>4. CASE caller = "stop2" /\ killManagerLoop(managerThread) /\ UNCHANGED managerThread
    <3>1. managerThread \in Loops
      BY <2>4 DEF Control, Course, Early, Places
    <3>2. QED
      BY <1>2, <2>1, <2>4, <3>1
  <2>5. QED
    BY <1>1, <2>1, <2>2, <2>3, <2>4
<1>5. CASE cloudLoop
  <2>1. up /\ UNCHANGED <<taken, cloudGot>>
    BY <1>5 DEF cloudLoop, cloudUnchanged
  <2>2. CASE forward \/ disconnect
    BY <1>1, <2>1, <2>2 DEF forward, disconnect
  <2>3. CASE kill
    <3>1. managerThread \in Loops
      BY <2>1, <2>3 DEF kill, Control, Counted, Places
    <3>2. QED
      BY <1>2, <2>1, <2>3, <3>1 DEF kill
  <2>4. CASE create
    <3>1. managerThread + 1 \in Loops
      BY <2>1, <2>4 DEF create, Control, Counted, Places, Loops
    <3>2. QED
      BY <1>3, <2>1, <2>4, <3>1 DEF create
  <2>5. QED
    BY <1>5, <2>2, <2>3, <2>4 DEF cloudLoop
<1>6. ASSUME NEW n \in Loops,
             \/ announce(n) \/ newClient(n) \/ connect(n) \/ callRecv(n)
             \/ freeBuffer(n) \/ lockMutex(n)
      PROVE  Flow'
  <2>1. UNCHANGED <<managerThread, taken, cloudGot>>
    BY <1>6 DEF announce, newClient, connect, callRecv, freeBuffer, lockMutex, loopUnchanged
  <2>2. /\ loop'[n].recvBuffer = loop[n].recvBuffer
        /\ \A m \in Loops : m # n => loop'[m] = loop[m]
        /\ \/ loop[n].pc \in {"free", "lock", "send"} => loop'[n].pc \in {"lock", "send"}
           \/ loop[n].recvBuffer = <<>>
    BY <1>0, <1>6 DEF announce, newClient, connect, callRecv, freeBuffer, lockMutex, at, goto, LoopState
  <2>3. QED
    BY <1>0, <2>1, <2>2, FlowKept
<1>7. ASSUME NEW n \in Loops, managerLoop(n) PROVE Flow'
  <2>1. CASE enter(n)
    BY <1>1, <2>1 DEF enter, loopUnchanged
  <2>2. QED
    BY <1>6, <1>7, <2>1, RecvKeepsFlow, SendKeepsFlow DEF managerLoop
<1>8. ASSUME NEW n \in Loops, ManagerSends(n) PROVE Flow'
  BY <1>1, <1>8 DEF ManagerSends, threads
<1>9. CASE keepAliveLoop \/ UNCHANGED vars
  BY <1>1, <1>9 DEF keepAliveLoop, vars, threads, network
<1>10. QED
  BY <1>4, <1>5, <1>7, <1>8, <1>9 DEF Next

-----------------------------------------------------------------------------
(* What comes from the cloud.                                              *)

\* A connection that was closed stays so, unless its loop is yet to make it; and
\* what is forwarded goes over the one connection that no "discon" has closed.
LEMMA SessionsStep == Control /\ Sessions /\ [Next]_vars => Sessions'
<1> SUFFICES ASSUME Control, Sessions, [Next]_vars PROVE Sessions'
  OBVIOUS
<1>0. /\ managerThread \in Nat /\ discons \in Nat /\ managerThread <= discons + 1
      /\ conn \in [Loops -> {"none", "created", "open", "closed"}]
      /\ socketToManager \in Loops \cup {Wild}
      /\ \A n \in Loops : n \in Nat \ {0}
  BY DEF Control, Places, Counted, Loops
<1>1. ASSUME discons' = discons, hasty' = hasty, delivered' = <<>>,
             \A n \in Loops : conn[n] = "closed" => conn'[n] = "closed"
      PROVE  Sessions'
  BY <1>1 DEF Sessions, SessionsClosed, PatientSessionsSeparate, SessionsSeparate
<1>2. CASE up /\ (Login \/ startListener \/ stopListener)
  BY <1>1, <1>2 DEF Login, startListener, stopListener, threads, network, Quiet
<1>3. CASE keepAliveLoop
  BY <1>1, <1>3 DEF keepAliveLoop, network, Quiet
<1>4. ASSUME NEW n \in Loops, ManagerSends(n) PROVE Sessions'
  BY <1>1, <1>4 DEF ManagerSends, threads, Quiet
<1>5. ASSUME NEW n \in Loops, managerLoop(n) PROVE Sessions'
  <2>1. discons' = discons /\ hasty' = hasty /\ delivered' = <<>>
    BY <1>5 DEF managerLoop, enter, announce, newClient, connect, callRecv, RecviveData, freeBuffer,
       lockMutex, sendToCloud, loopUnchanged, Quiet
  <2>2. CASE newClient(n)
    <3>1. conn[n] = "none" /\ conn' = [conn EXCEPT ![n] = "created"]
      BY <2>2 DEF newClient, at, Control, OwnConnection
    <3>2. QED
      BY <1>0, <1>1, <2>1, <3>1
  <2>3. CASE connect(n)
    <3>1. conn' = IF conn[n] = "created" THEN [conn EXCEPT ![n] = "open"] ELSE conn
      BY <2>3 DEF connect
    <3>2. QED
      BY <1>0, <1>1, <2>1, <3>1
  <2>4. CASE \/ enter(n) \/ announce(n) \/ callRecv(n) \/ RecviveData(n)
             \/ freeBuffer(n) \/ lockMutex(n) \/ sendToCloud(n)
    <3>1. conn' = conn
      BY <2>4 DEF enter, announce, callRecv, RecviveData, freeBuffer, lockMutex, sendToCloud
    <3>2. QED
      BY <1>1, <2>1, <3>1
  <2>5. QED
    BY <1>5, <2>2, <2>3, <2>4 DEF managerLoop
<1>6. CASE cloudLoop
  <2>1. CASE forward
    <3>1. UNCHANGED <<conn, discons, hasty>>
      BY <2>1 DEF forward
    <3>2. CASE delivered' = <<>>
      BY <1>1, <3>1, <3>2
    <3>3. CASE delivered' # <<>>
      <4>1. /\ socketToManager # Wild /\ conn[socketToManager] = "open"
            /\ delivered' = <<[session |-> discons + 1, over |-> socketToManager]>>
        BY <2>1, <3>3 DEF forward, Quiet
      <4>2. socketToManager \in Loops /\ socketToManager <= managerThread
        BY <1>0, <4>1 DEF Control, OneLoop
      <4>3. hasty \/ socketToManager = discons + 1
        BY <1>0, <4>1, <4>2 DEF Sessions, SessionsClosed
      <4>4. QED
        BY <3>1, <4>1, <4>3
           DEF Sessions, SessionsClosed, PatientSessionsSeparate, SessionsSeparate
    <3>4. QED
      BY <3>2, <3>3
  <2>2. CASE disconnect
    <3>1. /\ discons' = discons + 1 /\ hasty' = (hasty \/ ~ Connected) /\ delivered' = <<>>
          /\ \/ socketToManager = Wild
             \/ conn' = [conn EXCEPT ![socketToManager] = "closed"]
      BY <2>2 DEF disconnect, wildPointer, Quiet
    <3>2. CASE hasty'
      BY <3>2 DEF Sessions, SessionsClosed, PatientSessionsSeparate
    <3>3. CASE ~ hasty'
      <4>1. /\ ~ hasty /\ socketToManager = managerThread
            /\ managerThread > 0 /\ conn[managerThread] = "open"
        BY <3>1, <3>3 DEF Connected
      <4>2. managerThread \in Loops
        BY <1>0, <4>1 DEF Wild
      <4>3. managerThread = discons'
        BY <1>0, <3>1, <4>1, <4>2 DEF Sessions, SessionsClosed
      <4>4. conn' = [conn EXCEPT ![managerThread] = "closed"]
        BY <1>0, <3>1, <4>1 DEF Wild
      <4>5. \A n \in Loops : n <= discons' => conn'[n] = "closed"
        BY <1>0, <3>1, <4>1, <4>2, <4>3, <4>4 DEF Sessions, SessionsClosed
      <4>6. QED
        BY <3>1, <4>5 DEF Sessions, SessionsClosed, PatientSessionsSeparate, SessionsSeparate
    <3>4. QED
      BY <3>2, <3>3
  <2>3. CASE kill \/ create
    BY <1>1, <2>3 DEF kill, create, Quiet
  <2>4. QED
    BY <1>6, <2>1, <2>2, <2>3 DEF cloudLoop
<1>7. CASE UNCHANGED vars
  BY <1>7 DEF vars, threads, network, Sessions, SessionsClosed, PatientSessionsSeparate,
     SessionsSeparate
<1>8. QED
  BY <1>2, <1>3, <1>4, <1>5, <1>6, <1>7 DEF Next

\* Only a managerLoop ever goes inside the heap or cout for longer than a step.
LEMMA RuntimeStep == Runtime /\ [Next]_vars => Runtime'
<1> SUFFICES ASSUME Runtime, [Next]_vars PROVE Runtime'
  OBVIOUS
<1>1. ASSUME NEW n \in Loops, managerLoop(n) PROVE Runtime'
  BY <1>1 DEF managerLoop, enter, announce, newClient, connect, callRecv, RecviveData, freeBuffer,
     lockMutex, sendToCloud, leaveHeap, runtime, Runtime
<1>2. ASSUME UNCHANGED runtime PROVE Runtime'
  BY <1>2 DEF runtime, Runtime
<1>3. QED
  BY <1>1, <1>2 DEF Next, Login, startListener, stopListener, keepAliveLoop, cloudLoop,
     cloudUnchanged, ManagerSends, vars

-----------------------------------------------------------------------------
(* Theorems about the bridge.                                              *)

LEMMA InitInv == Init => Inv
<1> SUFFICES ASSUME Init PROVE Inv
  OBVIOUS
<1>1. <<>> \in Seq(Cells) /\ DOMAIN <<>> = {}
  BY EmptySeq
<1>2. Flow
  BY <1>1 DEF Init, Unborn, Flow, Buffered, Arrived, Ascending
<1>3. Sessions
  BY DEF Init, Sessions, SessionsClosed, PatientSessionsSeparate, SessionsSeparate, Loops
<1>4. Runtime
  BY DEF Init, Runtime
<1>5. QED
  BY <1>2, <1>3, <1>4, InitControl DEF Inv

LEMMA Invariant == ASSUME KillStops PROVE Spec => []Inv
<1>1. Inv /\ [Next]_vars => Inv'
  BY ControlStep, FlowStep, SessionsStep, RuntimeStep DEF Inv
<1>2. QED
  BY <1>1, InitInv, PTL DEF Spec

\* Whatever "discon" and Stop interrupt: what the manager sends over one connection
\* reaches the cloud in order and once, and before what it sends over the next.
THEOREM ToCloudOrdered == ASSUME KillStops PROVE Spec => []ToCloudInOrder
<1>1. Inv => ToCloudInOrder
  BY DEF Inv, Control, LoopState, Pcs, Mutex, Counts, Places, Flow, Ascending, Runtime,
     ToCloudInOrder, TypeOK
<1>2. QED
  BY <1>1, Invariant, PTL

\* If every "discon" finds the connection open, nothing that the cloud sends goes over
\* the connection of an earlier session.
THEOREM SessionsSeparated == ASSUME KillStops PROVE Spec => []PatientSessionsSeparate
<1>1. Inv => PatientSessionsSeparate
  BY DEF Inv, Sessions
<1>2. QED
  BY <1>1, Invariant, PTL

\* When Stop has returned no thread of the bridge is left, though the thread it stops
\* last is one that another of them starts anew.
THEOREM StopComplete == ASSUME KillStops PROVE Spec => []StopStops
<1>1. Inv => StopStops
  <2> SUFFICES ASSUME Inv, caller = "stopped"
               PROVE  /\ cloud = "dead" /\ keepAlive = "dead"
                      /\ \A n \in Loops : loop[n].pc \in {"none", "dead"}
    BY DEF StopStops
  <2>1. cloud = "dead" /\ keepAlive = "dead"
    BY DEF Inv, Control, Course
  <2>2. \A n \in Loops : loop[n].pc \in {"none", "dead"}
    BY LatestOnly DEF Inv
  <2>3. QED
    BY <2>1, <2>2
<1>2. QED
  BY <1>1, Invariant, PTL

-----------------------------------------------------------------------------
(* The uploader: its packages, and where each has its ip from.             *)

\* The packages of each connection.
NewDevices == [kind : {"dev"}, ip : U!Ips, dev : Devices]
Reads == [ip : U!Ips, com : U!Coms]
ReadAnswers == [kind : {"res"}, ip : U!Ips, com : U!Coms]
NewRules == [kind : {"rule"}, from : U!Ips, com : U!Coms, freq : Int]
Orders == [kind : {"Dis_All"}] \cup NewRules
DeviceLists == [kind : {"list"}, devices : Seq(U!Entry)]
Uploaded == [kind : {"value"}, from : U!Ips, com : U!Coms, src : U!Ips, read : U!Coms]

FromBroker == NewDevices \cup ReadAnswers
ToUploader == DeviceLists \cup Uploaded

UploaderTypes ==
    /\ U!TypeOK
    /\ todo \in Seq(Devices)
    /\ fromBroker \in Seq(FromBroker)
    /\ toBroker \in Seq(Reads)
    /\ fromUploader \in Seq(Orders)
    /\ toUploader \in Seq(ToUploader)

\* An ip names one device: in the table, on its way to it, in what the uploader saw of it.
OneEach(t) == \A j, k \in 1 .. Len(t) : t[j].ip = t[k].ip => j = k

IpsOnce ==
    /\ OneEach(table) /\ OneEach(allDevices)
    /\ \A j \in 1 .. Len(table) : table[j].ip < ip_count
    /\ \A j \in 1 .. Len(fromBroker) : fromBroker[j].kind = "dev" =>
          /\ fromBroker[j].ip < ip_count
          /\ \A k \in 1 .. Len(table) : table[k].ip # fromBroker[j].ip
          /\ \A k \in 1 .. Len(fromBroker) :
                fromBroker[k].kind = "dev" /\ fromBroker[k].ip = fromBroker[j].ip => k = j

\* Until the table is there, nothing is asked for and nothing comes but the table.
Asking == pc \in {"start", "wait"}
Stages ==
    /\ Asking => /\ rules = <<>> /\ toBroker = <<>> /\ upload = None
                 /\ \A p \in ToSet(fromBroker) : p.kind = "dev"
    /\ pc = "start" => fromUploader = <<>> /\ toUploader = <<>>
    /\ pc = "wait" =>
          \/ fromUploader = <<[kind |-> "Dis_All"]>> /\ toUploader = <<>>
          \/ /\ fromUploader = <<>>
             /\ \E t \in Seq(U!Entry) : OneEach(t) /\ toUploader = <<[kind |-> "list", devices |-> t]>>
    /\ ~ Asking => /\ ToSet(fromUploader) \subseteq NewRules
                   /\ ToSet(toUploader) \subseteq Uploaded

\* The ip the subscription to a component was made with: that of the first entry of its
\* device in the table the uploader saw.
Subscribed(ip, com) ==
    \E i \in 1 .. Len(allDevices), k \in 1 .. Len(subscriptObjs) :
        /\ allDevices[i].ip = ip /\ com \in Components[allDevices[i].dev]
        /\ subscriptObjs[k].com = com /\ subscriptObjs[k].dev = allDevices[i].dev
        /\ \A j \in 1 .. i - 1 : allDevices[j].dev # allDevices[i].dev

\* Whatever is under way for a component comes from there.
ComFromOne ==
    /\ \A r \in ToSet(rules) : Subscribed(r.from, r.com)
    /\ \A p \in ToSet(fromUploader) : p.kind = "rule" => Subscribed(p.from, p.com)
    /\ \A p \in ToSet(toBroker) : Subscribed(p.ip, p.com)
    /\ \A p \in ToSet(fromBroker) : p.kind = "res" => Subscribed(p.ip, p.com)
    /\ \A p \in ToSet(toUploader) : p.kind = "value" =>
          Subscribed(p.from, p.com) /\ p.src = p.from /\ p.read = p.com

Labelled ==
    upload # None =>
         /\ upload.as # None
         /\ upload.as.com = upload.read /\ upload.as.com \in Components[upload.as.dev]
         /\ \E i \in 1 .. Len(allDevices) :
              allDevices[i] = [ip |-> upload.ip, dev |-> upload.as.dev]

UInv == UploaderTypes /\ IpsOnce /\ Stages /\ ComFromOne /\ Labelled

-----------------------------------------------------------------------------
(* The parts of the manager and the uploader.                              *)

\* Of the two kinds of packages that share a connection.
LEMMA Kinds ==
    /\ NewDevices \subseteq FromBroker /\ ReadAnswers \subseteq FromBroker
    /\ DeviceLists \subseteq ToUploader /\ Uploaded \subseteq ToUploader
BY DEF FromBroker, ToUploader

\* The instance has the operators of the library.
LEMMA InstanceMin == ASSUME NEW S PROVE U!Min(S) = Min(S)
BY DEF U!Min, Min

LEMMA InstanceCardinality == ASSUME NEW S PROVE U!Cardinality(S) = Cardinality(S)
BY DEF U!Cardinality, Cardinality

\* What is in a sequence is of its type.
LEMMA InSeq ==
    ASSUME NEW S, NEW s \in Seq(S)
    PROVE  /\ ToSet(s) \subseteq S /\ Len(s) \in Nat
           /\ \A k \in 1 .. Len(s) : s[k] \in ToSet(s)
           /\ \A x \in ToSet(s) : \E k \in 1 .. Len(s) : s[k] = x
BY LenProperties, ElementOfSeq DEF ToSet

\* What removeRule leaves was there before.
LEMMA LeftFacts ==
    ASSUME NEW S, NEW s \in Seq(S), NEW keep \in SUBSET (1 .. Len(s)), NEW t \in U!Left(s, keep)
    PROVE  t \in Seq(S) /\ ToSet(t) \subseteq ToSet(s)
<1>1. Len(s) \in Nat /\ DOMAIN s = 1 .. Len(s) /\ \A k \in 1 .. Len(s) : s[k] \in S
  BY LenProperties, ElementOfSeq
<1>2. Cardinality(keep) \in Nat
  <2>1. IsFiniteSet(1 .. Len(s))
    BY <1>1, FS_Interval
  <2>2. IsFiniteSet(keep)
    BY <2>1, FS_Subset
  <2>3. QED
    BY <2>2, FS_CardinalityType
<1>3. PICK f \in [1 .. Cardinality(keep) -> keep] : t = [k \in DOMAIN f |-> s[f[k]]]
  BY InstanceCardinality DEF U!Left
<1>4. \A k \in 1 .. Cardinality(keep) : f[k] \in 1 .. Len(s)
  OBVIOUS
<1>5. t \in [1 .. Cardinality(keep) -> S] /\ \A k \in 1 .. Cardinality(keep) : t[k] = s[f[k]]
  BY <1>1, <1>3, <1>4
<1>6. t \in Seq(S) /\ DOMAIN t = 1 .. Cardinality(keep)
  BY <1>2, <1>5, FunctionIsSeq
<1>7. ToSet(t) \subseteq ToSet(s)
  BY <1>1, <1>4, <1>5, <1>6 DEF ToSet
<1>8. QED
  BY <1>6, <1>7

\* findComponentIndex finds the first entry of the device, getUploadDeviceId that of the ip.
LEMMA ComponentFound ==
    ASSUME allDevices \in Seq(U!Entry), NEW d, NEW com, NEW k, k = U!findComponentIndex(d, com)
    PROVE  /\ k \in 0 .. Len(allDevices)
           /\ k # 0 => /\ k \in 1 .. Len(allDevices)
                       /\ allDevices[k].dev = d /\ com \in Components[d]
                       /\ \A j \in 1 .. k - 1 : allDevices[j].dev # d
<1> DEFINE I == {i \in 1 .. Len(allDevices) : allDevices[i].dev = d}
<1>1. PICK m : /\ m = IF I # {} THEN Min(I) ELSE 0
               /\ k = IF m > 0 /\ com \in Components[d] THEN m ELSE 0
  BY InstanceMin DEF U!findComponentIndex, U!SelectInSeq
<1>2. Len(allDevices) \in Nat /\ I \in SUBSET (1 .. Len(allDevices))
  BY LenProperties
<1> HIDE DEF I
<1>3. /\ m \in 0 .. Len(allDevices) /\ (m > 0 => m \in I)
      /\ \A j \in I : m > 0 /\ m <= j
  BY <1>1, <1>2, FirstIndex
<1>4. \A j \in 1 .. m - 1 : m > 0 /\ m \in 0 .. Len(allDevices) => j \in 1 .. Len(allDevices) /\ ~ (m <= j)
  BY <1>2, <1>3
<1>5. m > 0 => m \in 1 .. Len(allDevices) /\ allDevices[m].dev = d
  BY <1>2, <1>3 DEF I
<1>6. \A j \in 1 .. m - 1 : m > 0 => allDevices[j].dev # d
  BY <1>3, <1>4 DEF I
<1>7. m \in Nat
  BY <1>2, <1>3
<1>8. k = 0 \/ (k = m /\ m > 0 /\ com \in Components[d])
  BY <1>1, <1>7
<1>9. QED
  BY <1>3, <1>5, <1>6, <1>8

LEMMA IdFound ==
    ASSUME allDevices \in Seq(U!Entry), NEW ip, NEW com,
           \E j \in 1 .. Len(allDevices) : allDevices[j].ip = ip
    PROVE  \E k \in 1 .. Len(allDevices) :
             /\ allDevices[k].ip = ip
             /\ U!getUploadDeviceId(ip, com) = [dev |-> allDevices[k].dev, com |-> com]
<1> DEFINE I == {i \in 1 .. Len(allDevices) : allDevices[i].ip = ip}
<1>1. PICK m : /\ m = IF I # {} THEN Min(I) ELSE 0
               /\ U!getUploadDeviceId(ip, com) =
                    IF m = 0 THEN None ELSE [dev |-> allDevices[m].dev, com |-> com]
  BY InstanceMin DEF U!getUploadDeviceId, U!SelectInSeq
<1>2. Len(allDevices) \in Nat /\ I \in SUBSET (1 .. Len(allDevices)) /\ I # {}
  BY LenProperties
<1> HIDE DEF I
<1>3. m \in 0 .. Len(allDevices) /\ m > 0 /\ m \in I
  BY <1>1, <1>2, FirstIndex
<1>4. m \in 1 .. Len(allDevices) /\ allDevices[m].ip = ip
  BY <1>2, <1>3 DEF I
<1>5. m # 0
  BY <1>2, <1>3
<1>6. U!getUploadDeviceId(ip, com) = [dev |-> allDevices[m].dev, com |-> com]
  BY <1>1, <1>5
<1>7. QED
  BY <1>4, <1>6

LEMMA RuleThatWaits ==
    ASSUME rules \in Seq(U!Rule), NEW com, NEW k, k = U!waitingRule(com)
    PROVE  /\ k \in 0 .. Len(rules)
           /\ k # 0 => k \in 1 .. Len(rules) /\ rules[k].com = com
<1> DEFINE I == {i \in 1 .. Len(rules) : rules[i].waiting /\ rules[i].com = com}
<1>1. k = IF I # {} THEN Min(I) ELSE 0
  BY InstanceMin DEF U!waitingRule, U!SelectInSeq
<1>2. Len(rules) \in Nat /\ I \in SUBSET (1 .. Len(rules))
  BY LenProperties
<1> HIDE DEF I
<1>3. /\ k \in 0 .. Len(rules) /\ (k > 0 => k \in I) /\ (k = 0 => I = {})
  BY <1>1, <1>2, FirstIndex
<1>4. QED
  BY <1>2, <1>3 DEF I

\* A subscription has one ip, for the component belongs to one device.
LEMMA OneSubscription ==
    ASSUME U!UploaderAssumption, allDevices \in Seq(U!Entry), NEW com, NEW ip1, NEW ip2,
           Subscribed(ip1, com), Subscribed(ip2, com)
    PROVE  ip1 = ip2
<1>1. PICK i \in 1 .. Len(allDevices), k \in 1 .. Len(subscriptObjs) :
        /\ allDevices[i].ip = ip1 /\ com \in Components[allDevices[i].dev]
        /\ subscriptObjs[k].com = com /\ subscriptObjs[k].dev = allDevices[i].dev
        /\ \A j \in 1 .. i - 1 : allDevices[j].dev # allDevices[i].dev
  BY DEF Subscribed
<1>2. PICK m \in 1 .. Len(allDevices), n \in 1 .. Len(subscriptObjs) :
        /\ allDevices[m].ip = ip2 /\ com \in Components[allDevices[m].dev]
        /\ subscriptObjs[n].com = com /\ subscriptObjs[n].dev = allDevices[m].dev
        /\ \A j \in 1 .. m - 1 : allDevices[j].dev # allDevices[m].dev
  BY DEF Subscribed
<1>3. allDevices[i].dev \in Devices /\ Len(allDevices) \in Nat
  <2>1. allDevices[i] \in U!Entry /\ Len(allDevices) \in Nat
    BY LenProperties, ElementOfSeq
  <2>2. QED
    BY <2>1 DEF U!Entry
<1>4. allDevices[i].dev = allDevices[m].dev
  BY <1>1, <1>2, <1>3 DEF U!UploaderAssumption
<1>5. ~ (i < m) /\ ~ (m < i)
  BY <1>1, <1>2, <1>3, <1>4
<1>6. i = m
  BY <1>3, <1>5
<1>7. QED
  BY <1>1, <1>2, <1>6

LEMMA UploaderFacts ==
    ASSUME U!UploaderAssumption
    PROVE  /\ Len(subscriptObjs) \in Nat /\ MaxIps \in Nat /\ Tick \in Nat
           /\ \A k \in 1 .. Len(subscriptObjs) : subscriptObjs[k].freq \in Int
           /\ \A d \in Devices : Components[d] \subseteq U!Coms
           /\ \A d \in Devices, c \in U!Coms : [dev |-> d, com |-> c] # None
           /\ \A ip \in 0 .. MaxIps : ip < MaxIps => ip \in U!Ips /\ ip + 1 \in 0 .. MaxIps
BY LenProperties DEF U!UploaderAssumption, U!Ips

LEMMA InitUploaderTypes == ASSUME U!UploaderAssumption, U!Init PROVE UploaderTypes
<1>1. /\ <<>> \in Seq(U!Entry) /\ <<>> \in Seq(U!Rule) /\ <<>> \in Seq(FromBroker)
      /\ <<>> \in Seq(Reads) /\ <<>> \in Seq(Orders) /\ <<>> \in Seq(ToUploader)
  BY EmptySeq
<1>2. U!TypeOK
  BY <1>1, UploaderFacts DEF U!Init, U!TypeOK, U!UploaderAssumption
<1>3. QED
  BY <1>1, <1>2 DEF U!Init, UploaderTypes, U!UploaderAssumption

\* What the head of a queue is, and that the rest is of the same type.
LEMMA Heads ==
    ASSUME UploaderTypes
    PROVE  /\ fromBroker # <<>> =>
                /\ Head(fromBroker) \in FromBroker
                /\ Head(fromBroker).kind = "dev" => Head(fromBroker) \in NewDevices
                /\ Head(fromBroker).kind = "res" => Head(fromBroker) \in ReadAnswers
                /\ Tail(fromBroker) \in Seq(FromBroker)
           /\ toBroker # <<>> => Head(toBroker) \in Reads /\ Tail(toBroker) \in Seq(Reads)
           /\ fromUploader # <<>> =>
                /\ Head(fromUploader).kind = "rule" => Head(fromUploader) \in NewRules
                /\ Tail(fromUploader) \in Seq(Orders)
           /\ toUploader # <<>> =>
                /\ Head(toUploader).kind = "list" => Head(toUploader) \in DeviceLists
                /\ Tail(toUploader) \in Seq(ToUploader)
<1>1. /\ fromBroker # <<>> => /\ Head(fromBroker) \in FromBroker
                              /\ Tail(fromBroker) \in Seq(FromBroker)
  BY HeadTailProperties DEF UploaderTypes
<1>2. toBroker # <<>> => Head(toBroker) \in Reads /\ Tail(toBroker) \in Seq(Reads)
  BY HeadTailProperties DEF UploaderTypes
<1>3. fromUploader # <<>> => Head(fromUploader) \in Orders /\ Tail(fromUploader) \in Seq(Orders)
  BY HeadTailProperties DEF UploaderTypes
<1>4. toUploader # <<>> => /\ Head(toUploader) \in ToUploader
                           /\ Tail(toUploader) \in Seq(ToUploader)
  BY HeadTailProperties DEF UploaderTypes
<1>5. QED
  BY <1>1, <1>2, <1>3, <1>4 DEF FromBroker, ToUploader, NewDevices, ReadAnswers, NewRules, Orders,
     DeviceLists, Uploaded

\* What is not touched keeps its type.
ManagerTypes == ip_count \in 0 .. MaxIps /\ table \in Seq(U!Entry) /\ rules \in Seq(U!Rule) /\ visited \in Nat
BrokerTypes == ipOf \in [Devices -> U!Ips \cup {U!NoIp}] /\ todo \in Seq(Devices)
QueueTypes ==
    /\ fromBroker \in Seq(FromBroker)
    /\ toBroker \in Seq(Reads)
    /\ fromUploader \in Seq(Orders)
    /\ toUploader \in Seq(ToUploader)
LocalTypes ==
    /\ allDevices \in Seq(U!Entry)
    /\ pc \in {"start", "wait", "subscribe", "loop"}
    /\ next \in 1 .. Len(subscriptObjs) + 1

LEMMA TypeParts == UploaderTypes <=> ManagerTypes /\ BrokerTypes /\ QueueTypes /\ LocalTypes
BY DEF UploaderTypes, U!TypeOK, ManagerTypes, BrokerTypes, QueueTypes, LocalTypes

\* A device registers under the next ip.
LEMMA Registers ==
    ASSUME U!UploaderAssumption, UploaderTypes, NEW d \in Devices, U!register(d)
    PROVE  /\ ip_count \in U!Ips /\ ip_count' = ip_count + 1 /\ ip_count' \in 0 .. MaxIps
           /\ fromBroker' = Append(fromBroker, [kind |-> "dev", ip |-> ip_count, dev |-> d])
           /\ [kind |-> "dev", ip |-> ip_count, dev |-> d] \in NewDevices
           /\ fromBroker' \in Seq(FromBroker)
           /\ ipOf' \in [Devices -> U!Ips \cup {U!NoIp}]
<1>1. ip_count \in 0 .. MaxIps /\ ip_count < MaxIps
  BY DEF UploaderTypes, U!TypeOK, U!register
<1>2. ip_count \in U!Ips /\ ip_count + 1 \in 0 .. MaxIps
  BY <1>1, UploaderFacts
<1>3. [kind |-> "dev", ip |-> ip_count, dev |-> d] \in NewDevices
  BY <1>2 DEF NewDevices
<1>4. fromBroker' \in Seq(FromBroker)
  BY <1>3, AppendProperties, Kinds DEF U!register, UploaderTypes
<1>5. ipOf' \in [Devices -> U!Ips \cup {U!NoIp}]
  BY <1>2 DEF U!register, UploaderTypes, U!TypeOK
<1>6. QED
  BY <1>2, <1>3, <1>4, <1>5 DEF U!register

\* addNewDevice: the table loses the entry of the device, if any, and gets the new one last.
LEMMA Added ==
    ASSUME UploaderTypes, U!addNewDevice
    PROVE  LET p == Head(fromBroker)
           IN  /\ fromBroker # <<>> /\ p \in NewDevices
               /\ fromBroker' = Tail(fromBroker)
               /\ \E t \in Seq(U!Entry) :
                    /\ table' = Append(t, [ip |-> p.ip, dev |-> p.dev])
                    /\ \/ t = table
                       \/ \E i \in 1 .. Len(table) : t = RemoveAt(table, i)
               /\ rules' \in Seq(U!Rule) /\ ToSet(rules') \subseteq ToSet(rules)
<1> DEFINE p == Head(fromBroker)
           i == U!SelectInSeq(table, LAMBDA e : e.dev = p.dev)
           t == IF i > 0 THEN RemoveAt(table, i) ELSE table
<1>1. /\ fromBroker # <<>> /\ p.kind = "dev" /\ fromBroker' = Tail(fromBroker)
      /\ table' = Append(t, [ip |-> p.ip, dev |-> p.dev])
      /\ rules' \in U!Left(rules, {k \in DOMAIN rules : U!isRegistered(table', rules[k].from)})
  BY DEF U!addNewDevice, U!RemoveAt, RemoveAt
<1>2. table \in Seq(U!Entry) /\ rules \in Seq(U!Rule)
  BY DEF UploaderTypes, U!TypeOK
<1>3. i \in 0 .. Len(table) /\ Len(table) \in Nat
  <2> DEFINE I == {k \in 1 .. Len(table) : table[k].dev = p.dev}
  <2>1. i = IF I # {} THEN Min(I) ELSE 0
    BY InstanceMin DEF U!SelectInSeq
  <2>2. Len(table) \in Nat /\ I \in SUBSET (1 .. Len(table))
    BY <1>2, LenProperties
  <2> HIDE DEF I, i
  <2>3. QED
    BY <2>1, <2>2, FirstIndex
<1>4. i > 0 => i \in 1 .. Len(table) /\ t = RemoveAt(table, i)
  BY <1>3
<1>5. t \in Seq(U!Entry)
  BY <1>2, <1>4, RemoveAtProperties
<1>6. t = table \/ \E k \in 1 .. Len(table) : t = RemoveAt(table, k)
  BY <1>4
<1>7. rules' \in Seq(U!Rule) /\ ToSet(rules') \subseteq ToSet(rules)
  <2> DEFINE keep == {k \in DOMAIN rules : U!isRegistered(table', rules[k].from)}
  <2>1. keep \in SUBSET (1 .. Len(rules)) /\ rules' \in U!Left(rules, keep)
    BY <1>1, <1>2, LenProperties
  <2> HIDE DEF keep
  <2>2. QED
    BY <1>2, <2>1, LeftFacts
<1>8. p \in NewDevices
  BY <1>1, Heads
<1> HIDE DEF t
<1>9. QED
  BY <1>1, <1>5, <1>6, <1>7, <1>8

\* scanRules: the rules keep what they ask for, and what is asked is what a rule asks for.
LEMMA Scans ==
    ASSUME U!UploaderAssumption, UploaderTypes, U!scanRules
    PROVE  /\ visited' \in Nat /\ rules' \in Seq(U!Rule) /\ rules # <<>>
           /\ \A r \in ToSet(rules') : \E q \in ToSet(rules) : q.from = r.from /\ q.com = r.com
           /\ toBroker' \in Seq(Reads)
           /\ \A p \in ToSet(toBroker') :
                 p \in ToSet(toBroker) \/ \E q \in ToSet(rules) : q.from = p.ip /\ q.com = p.com
<1>0. rules \in Seq(U!Rule) /\ visited \in Nat /\ toBroker \in Seq(Reads) /\ rules # <<>>
  BY DEF UploaderTypes, U!TypeOK, U!scanRules
<1>1. /\ Len(rules) \in Nat /\ DOMAIN rules = 1 .. Len(rules) /\ \A k \in 1 .. Len(rules) : rules[k] \in U!Rule
  BY <1>0, LenProperties, ElementOfSeq
<1>2. CASE visited >= Len(rules)
  BY <1>0, <1>2 DEF U!scanRules
<1>3. CASE ~ (visited >= Len(rules))
  <2> DEFINE k == visited + 1  r == rules[k]  q == [ip |-> r.from, com |-> r.com]
  <2>1. k \in 1 .. Len(rules) /\ r \in U!Rule /\ visited' = k /\ k \in Nat
    BY <1>0, <1>1, <1>3 DEF U!scanRules
  <2>2. /\ \/ rules' = [rules EXCEPT ![k].wait = r.wait - Tick]
           \/ rules' = [rules EXCEPT ![k].wait = r.freq, ![k].waiting = TRUE]
        /\ toBroker' = toBroker \/ toBroker' = Append(toBroker, q)
    BY <1>1, <1>3, <2>1 DEF U!scanRules
  <2>3. r.wait - Tick \in Int /\ r.freq \in Int
    BY <2>1, UploaderFacts DEF U!Rule
  <2>4. \E s \in U!Rule : s.from = r.from /\ s.com = r.com /\ rules' = [rules EXCEPT ![k] = s]
    <3>1. CASE rules' = [rules EXCEPT ![k].wait = r.wait - Tick]
      <4> DEFINE s == [r EXCEPT !.wait = r.wait - Tick]
      <4>1. s \in U!Rule /\ s.from = r.from /\ s.com = r.com
        BY <2>1, <2>3 DEF U!Rule
      <4>2. rules' = [rules EXCEPT ![k] = s]
        BY <1>1, <2>1, <3>1
      <4>3. QED
        BY <4>1, <4>2
    <3>2. CASE rules' = [rules EXCEPT ![k].wait = r.freq, ![k].waiting = TRUE]
      <4> DEFINE s == [r EXCEPT !.wait = r.freq, !.waiting = TRUE]
      <4>1. s \in U!Rule /\ s.from = r.from /\ s.com = r.com
        BY <2>1, <2>3 DEF U!Rule
      <4>2. rules' = [rules EXCEPT ![k] = s]
        BY <1>1, <2>1, <3>2
      <4>3. QED
        BY <4>1, <4>2
    <3>3. QED
      BY <2>2, <3>1, <3>2
  <2>5. PICK s \in U!Rule : s.from = r.from /\ s.com = r.com /\ rules' = [rules EXCEPT ![k] = s]
    BY <2>4
  <2>6. rules' \in Seq(U!Rule)
    BY <1>0, <2>1, <2>5, ExceptSeq
  <2>7. \A x \in ToSet(rules') : x = s \/ x \in ToSet(rules)
    <3>1. /\ DOMAIN rules' = 1 .. Len(rules)
          /\ \A j \in 1 .. Len(rules) : rules'[j] = IF j = k THEN s ELSE rules[j]
      BY <1>1, <2>1, <2>5
    <3>2. QED
      BY <1>1, <3>1 DEF ToSet
  <2>8. r \in ToSet(rules)
    BY <1>1, <2>1 DEF ToSet
  <2>9. q \in Reads
    BY <2>1 DEF U!Rule, Reads
  <2>10. q.ip = r.from /\ q.com = r.com
    OBVIOUS
  <2>11. toBroker' = toBroker \/ toBroker' = Append(toBroker, q)
    BY <2>2
  <2> HIDE DEF q, r, k
  <2>12. Append(toBroker, q) \in Seq(Reads) /\ ToSet(Append(toBroker, q)) = ToSet(toBroker) \cup {q}
    BY <1>0, <2>9, AppendContents
  <2>13. toBroker' \in Seq(Reads) /\ ToSet(toBroker') \subseteq ToSet(toBroker) \cup {q}
    BY <1>0, <2>11, <2>12
  <2>14. \A x \in ToSet(toBroker') :
            x \in ToSet(toBroker) \/ \E y \in ToSet(rules) : y.from = x.ip /\ y.com = x.com
    BY <2>8, <2>10, <2>13
  <2>15. \A x \in ToSet(rules') : \E y \in ToSet(rules) : y.from = x.from /\ y.com = x.com
    BY <2>5, <2>7, <2>8
  <2>16. visited' \in Nat
    BY <2>1
  <2>17. QED
    BY <1>0, <2>6, <2>13, <2>14, <2>15, <2>16
<1>4. QED
  BY <1>2, <1>3

\* handleRulerCommand: a value goes on for the rule that waits for its component.
LEMMA PassedOn ==
    ASSUME UploaderTypes, U!handleRulerCommand
    PROVE  /\ fromBroker # <<>> /\ fromBroker' = Tail(fromBroker)
           /\ Head(fromBroker) \in ReadAnswers
           /\ fromBroker' \in Seq(FromBroker)
           /\ rules' \in Seq(U!Rule)
           /\ \A r \in ToSet(rules') : \E q \in ToSet(rules) : q.from = r.from /\ q.com = r.com
           /\ toUploader' \in Seq(ToUploader)
           /\ \/ rules' = rules /\ toUploader' = toUploader
              \/ \E q \in ToSet(rules) :
                   LET v == [kind |-> "value", from |-> q.from, com |-> q.com,
                             src |-> Head(fromBroker).ip, read |-> Head(fromBroker).com]
                   IN  /\ q.com = Head(fromBroker).com /\ v \in Uploaded
                       /\ toUploader' = Append(toUploader, v)
<1> DEFINE p == Head(fromBroker)
           i == U!waitingRule(p.com)
           q == rules[i]
           v == [kind |-> "value", from |-> q.from, com |-> q.com, src |-> p.ip, read |-> p.com]
<1>0. /\ fromBroker # <<>> /\ p.kind = "res" /\ fromBroker' = Tail(fromBroker)
      /\ \/ i = 0 /\ UNCHANGED <<rules, toUploader>>
         \/ i # 0 /\ rules' = [rules EXCEPT ![i].waiting = FALSE] /\ toUploader' = Append(toUploader, v)
  BY DEF U!handleRulerCommand
<1>1. p \in ReadAnswers /\ fromBroker' \in Seq(FromBroker)
  BY <1>0, Heads
<1>2. rules \in Seq(U!Rule) /\ toUploader \in Seq(ToUploader)
  BY DEF UploaderTypes, U!TypeOK
<1>3. /\ Len(rules) \in Nat /\ DOMAIN rules = 1 .. Len(rules) /\ \A k \in 1 .. Len(rules) : rules[k] \in U!Rule
  BY <1>2, LenProperties, ElementOfSeq
<1>4. CASE i = 0
  BY <1>0, <1>1, <1>2, <1>4
<1>5. CASE i # 0
  <2>1. i \in 1 .. Len(rules) /\ q.com = p.com
    BY <1>2, <1>5, RuleThatWaits
  <2> DEFINE s == [q EXCEPT !.waiting = FALSE]
  <2>2. q \in U!Rule /\ q \in ToSet(rules)
    BY <1>3, <2>1 DEF ToSet
  <2>3. s \in U!Rule /\ s.from = q.from /\ s.com = q.com
    BY <2>2 DEF U!Rule
  <2>4. rules' = [rules EXCEPT ![i] = s]
    BY <1>0, <1>3, <1>5, <2>1
  <2>5. v \in Uploaded
    BY <1>1, <2>2 DEF U!Rule, ReadAnswers, Uploaded
  <2>6. toUploader' = Append(toUploader, v)
    BY <1>0, <1>5
  <2> HIDE DEF s
  <2>7. rules' \in Seq(U!Rule)
    BY <1>2, <2>1, <2>3, <2>4, ExceptSeq
  <2>8. \A x \in ToSet(rules') : x = s \/ x \in ToSet(rules)
    <3>1. /\ DOMAIN rules' = 1 .. Len(rules)
          /\ \A j \in 1 .. Len(rules) : rules'[j] = IF j = i THEN s ELSE rules[j]
      BY <1>3, <2>1, <2>4
    <3>2. QED
      BY <1>3, <3>1 DEF ToSet
  <2>9. toUploader' \in Seq(ToUploader)
    BY <1>2, <2>5, <2>6, AppendProperties, Kinds
  <2> HIDE DEF q, i, p
  <2>10. \A x \in ToSet(rules') : \E y \in ToSet(rules) : y.from = x.from /\ y.com = x.com
    BY <2>2, <2>3, <2>8
  <2>11. QED
    BY <1>0, <1>1, <2>1, <2>2, <2>5, <2>6, <2>7, <2>9, <2>10 DEF p
<1>6. QED
  BY <1>4, <1>5

\* sendSubscriptRule: what is asked for is a subscription.
LEMMA Subscribes ==
    ASSUME U!UploaderAssumption, UploaderTypes, U!sendSubscriptRule
    PROVE  /\ fromUploader' \in Seq(Orders)
           /\ \/ fromUploader' = fromUploader
              \/ \E p \in NewRules : Subscribed(p.from, p.com) /\ fromUploader' = Append(fromUploader, p)
<1> DEFINE s == subscriptObjs[next]
           i == U!findComponentIndex(s.dev, s.com)
           p == [kind |-> "rule", from |-> allDevices[i].ip, com |-> s.com, freq |-> s.freq]
<1>1. fromUploader' = IF i = 0 THEN fromUploader ELSE Append(fromUploader, p)
  BY DEF U!sendSubscriptRule
<1>2. allDevices \in Seq(U!Entry) /\ fromUploader \in Seq(Orders) /\ next \in 1 .. Len(subscriptObjs)
  BY UploaderFacts DEF UploaderTypes, U!TypeOK, U!sendSubscriptRule
<1>3. CASE i = 0
  BY <1>1, <1>2, <1>3
<1>4. CASE i # 0
  <2>1. /\ i \in 1 .. Len(allDevices) /\ allDevices[i].dev = s.dev /\ s.com \in Components[s.dev]
        /\ \A j \in 1 .. i - 1 : allDevices[j].dev # s.dev
    BY <1>2, <1>4, ComponentFound
  <2>2. allDevices[i] \in U!Entry
    BY <1>2, <2>1, ElementOfSeq
  <2>3. s.com \in U!Coms /\ s.freq \in Int
    BY <1>2, <2>1, <2>2, UploaderFacts DEF U!Entry
  <2>4. p \in NewRules
    BY <2>2, <2>3 DEF NewRules, U!Entry
  <2>5. Subscribed(allDevices[i].ip, s.com)
    BY <1>2, <2>1 DEF Subscribed
  <2>6. p.from = allDevices[i].ip /\ p.com = s.com
    OBVIOUS
  <2>7. fromUploader' = Append(fromUploader, p)
    BY <1>1, <1>4
  <2> HIDE DEF p
  <2>8. fromUploader' \in Seq(Orders)
    BY <1>2, <2>4, <2>7, AppendProperties DEF Orders
  <2>9. QED
    BY <2>4, <2>5, <2>6, <2>7, <2>8
<1>5. QED
  BY <1>3, <1>4

\* What comes while the uploader waits is the table.
LEMMA ListFirst ==
    ASSUME Stages, pc = "wait", toUploader # <<>>
    PROVE  /\ fromUploader = <<>> /\ Tail(toUploader) = <<>>
           /\ Head(toUploader).kind = "list" /\ OneEach(Head(toUploader).devices)
<1>1. PICK t \in Seq(U!Entry) : OneEach(t) /\ toUploader = <<[kind |-> "list", devices |-> t]>>
  BY DEF Stages
<1>2. Head(toUploader) = [kind |-> "list", devices |-> t] /\ Tail(toUploader) = <<>>
  BY <1>1
<1>3. QED
  BY <1>1, <1>2 DEF Stages

LEMMA UploaderTypesStep ==
    ASSUME U!UploaderAssumption, UploaderTypes, Stages, [U!Next]_U!vars
    PROVE  UploaderTypes'
<1>0. ManagerTypes /\ BrokerTypes /\ QueueTypes /\ LocalTypes
  BY TypeParts
<1>c. ASSUME ManagerTypes', BrokerTypes', QueueTypes', LocalTypes' PROVE UploaderTypes'
  BY <1>c DEF UploaderTypes, U!TypeOK, ManagerTypes, BrokerTypes, QueueTypes, LocalTypes
<1>1. CASE U!registerAllFakeDevice
  <2>1. todo # <<>> /\ todo \in Seq(Devices)
    BY <1>0, <1>1 DEF U!registerAllFakeDevice, BrokerTypes
  <2>2. Head(todo) \in Devices /\ Tail(todo) \in Seq(Devices)
    BY <2>1, HeadTailProperties
  <2>3. U!register(Head(todo))
    BY <1>1 DEF U!registerAllFakeDevice
  <2>4. /\ ip_count' \in 0 .. MaxIps /\ fromBroker' \in Seq(FromBroker)
        /\ ipOf' \in [Devices -> U!Ips \cup {U!NoIp}]
    BY <2>2, <2>3, Registers
  <2>5. QED
    BY <1>0, <1>1, <1>c, <2>2, <2>4
       DEF U!registerAllFakeDevice, U!uploader, ManagerTypes, BrokerTypes, QueueTypes, LocalTypes
<1>2. ASSUME NEW d \in Devices, U!rescan(d) PROVE UploaderTypes'
  <2>1. /\ ip_count' \in 0 .. MaxIps /\ fromBroker' \in Seq(FromBroker)
        /\ ipOf' \in [Devices -> U!Ips \cup {U!NoIp}]
    BY <1>2, Registers DEF U!rescan
  <2>2. QED
    BY <1>0, <1>2, <1>c, <2>1 DEF U!rescan, U!uploader, ManagerTypes, BrokerTypes, QueueTypes, LocalTypes
<1>3. CASE U!answerRead
  <2> DEFINE req == Head(toBroker)  res == [kind |-> "res", ip |-> req.ip, com |-> req.com]
  <2>1. /\ req \in Reads /\ toBroker' \in Seq(Reads) /\ fromBroker' = Append(fromBroker, res)
    BY <1>3, Heads DEF U!answerRead
  <2>2. res \in ReadAnswers
    BY <2>1 DEF Reads, ReadAnswers
  <2>3. fromBroker' \in Seq(FromBroker)
    BY <1>0, <2>1, <2>2, AppendProperties, Kinds DEF QueueTypes
  <2>4. QED
    BY <1>0, <1>3, <1>c, <2>1, <2>3
       DEF U!answerRead, U!manager, U!uploader, ManagerTypes, BrokerTypes, QueueTypes, LocalTypes
<1>4. CASE U!addNewDevice
  <2> DEFINE p == Head(fromBroker)  e == [ip |-> p.ip, dev |-> p.dev]
  <2>1. /\ fromBroker # <<>> /\ p \in NewDevices /\ fromBroker' = Tail(fromBroker) /\ rules' \in Seq(U!Rule)
        /\ \E t \in Seq(U!Entry) : table' = Append(t, e)
    BY <1>4, Added
  <2>2. e \in U!Entry
    BY <2>1 DEF NewDevices, U!Entry
  <2>3. table' \in Seq(U!Entry)
    BY <2>1, <2>2, AppendProperties
  <2>4. fromBroker' \in Seq(FromBroker)
    BY <2>1, Heads
  <2>5. QED
    BY <1>0, <1>4, <1>c, <2>1, <2>3, <2>4
       DEF U!addNewDevice, U!uploader, ManagerTypes, BrokerTypes, QueueTypes, LocalTypes
<1>5. CASE U!commandHandler
  <2>1. [kind |-> "list", devices |-> table] \in DeviceLists /\ fromUploader' \in Seq(Orders)
    BY <1>0, <1>5, Heads DEF U!commandHandler, ManagerTypes, DeviceLists
  <2>2. toUploader' \in Seq(ToUploader)
    BY <1>0, <1>5, <2>1, AppendProperties, Kinds DEF U!commandHandler, QueueTypes
  <2>3. QED
    BY <1>0, <1>5, <1>c, <2>1, <2>2
       DEF U!commandHandler, U!manager, U!broker, U!uploader, ManagerTypes, BrokerTypes, QueueTypes, LocalTypes
<1>6. CASE U!addRule
  <2> DEFINE p == Head(fromUploader)
             r == [from |-> p.from, com |-> p.com, freq |-> p.freq, wait |-> 0, waiting |-> FALSE]
  <2>1. p \in NewRules /\ fromUploader' \in Seq(Orders) /\ rules' = Append(rules, r)
    BY <1>6, Heads DEF U!addRule
  <2>2. r \in U!Rule
    BY <2>1 DEF NewRules, U!Rule
  <2>3. rules' \in Seq(U!Rule)
    BY <1>0, <2>1, <2>2, AppendProperties DEF ManagerTypes
  <2>4. QED
    BY <1>0, <1>6, <1>c, <2>1, <2>3
       DEF U!addRule, U!broker, U!uploader, ManagerTypes, BrokerTypes, QueueTypes, LocalTypes
<1>7. CASE U!scanRules
  <2>1. visited' \in Nat /\ rules' \in Seq(U!Rule) /\ toBroker' \in Seq(Reads)
    BY <1>0, <1>7, Scans DEF ManagerTypes, QueueTypes
  <2>2. QED
    BY <1>0, <1>7, <1>c, <2>1
       DEF U!scanRules, U!broker, U!uploader, ManagerTypes, BrokerTypes, QueueTypes, LocalTypes
<1>8. CASE U!handleRulerCommand
  <2>1. /\ fromBroker' \in Seq(FromBroker) /\ rules' \in Seq(U!Rule)
        /\ toUploader' \in Seq(ToUploader)
    BY <1>0, <1>8, PassedOn DEF ManagerTypes, QueueTypes
  <2>2. QED
    BY <1>0, <1>8, <1>c, <2>1
       DEF U!handleRulerCommand, U!uploader, U!broker, ManagerTypes, BrokerTypes, QueueTypes, LocalTypes
<1>9. CASE U!Start
  <2>1. [kind |-> "Dis_All"] \in Orders
    BY DEF Orders
  <2>2. fromUploader' \in Seq(Orders)
    BY <1>0, <1>9, <2>1, AppendProperties DEF U!Start, QueueTypes
  <2>3. QED
    BY <1>0, <1>9, <1>c, <2>2 DEF U!Start, U!manager, U!broker, ManagerTypes, BrokerTypes, QueueTypes,
       LocalTypes
<1>10. CASE U!saveAllDeviceDescription
  <2>1. toUploader' \in Seq(ToUploader) /\ allDevices' \in Seq(U!Entry)
    BY <1>10, Heads, ListFirst DEF U!saveAllDeviceDescription, DeviceLists
  <2>2. QED
    BY <1>0, <1>10, <1>c, <2>1
       DEF U!saveAllDeviceDescription, U!manager, U!broker, ManagerTypes, BrokerTypes, QueueTypes, LocalTypes
<1>11. CASE U!waitIoTPackage
  <2>1. toUploader' \in Seq(ToUploader)
    BY <1>11, Heads DEF U!waitIoTPackage
  <2>2. QED
    BY <1>0, <1>11, <1>c, <2>1
       DEF U!waitIoTPackage, U!manager, U!broker, ManagerTypes, BrokerTypes, QueueTypes, LocalTypes
<1>12. CASE U!sendSubscriptRule
  <2>1. fromUploader' \in Seq(Orders)
    BY <1>0, <1>12, Subscribes DEF QueueTypes
  <2>2. next' \in 1 .. Len(subscriptObjs) + 1
    BY <1>0, <1>12, UploaderFacts DEF U!sendSubscriptRule, LocalTypes
  <2>3. QED
    BY <1>0, <1>12, <1>c, <2>1, <2>2
       DEF U!sendSubscriptRule, U!manager, U!broker, ManagerTypes, BrokerTypes, QueueTypes, LocalTypes
<1>13. CASE U!startLoop
  BY <1>0, <1>13, <1>c DEF U!startLoop, U!manager, U!broker, ManagerTypes, BrokerTypes, QueueTypes, LocalTypes
<1>14. CASE U!handleRecvData
  <2>1. toUploader' \in Seq(ToUploader)
    BY <1>14, Heads DEF U!handleRecvData
  <2>2. QED
    BY <1>0, <1>14, <1>c, <2>1
       DEF U!handleRecvData, U!manager, U!broker, ManagerTypes, BrokerTypes, QueueTypes, LocalTypes
<1>15. CASE UNCHANGED U!vars
  BY <1>0, <1>15, <1>c DEF U!vars, U!manager, U!broker, U!uploader, ManagerTypes, BrokerTypes,
     QueueTypes, LocalTypes
<1>16. QED
  BY <1>1, <1>2, <1>3, <1>4, <1>5, <1>6, <1>7, <1>8, <1>9, <1>10, <1>11, <1>12, <1>13, <1>14, <1>15
     DEF U!Next, U!ServerThread, U!UploaderThread, U!BrokerThread

\* Where the ips of the table and of the devices on their way are.
LEMMA IpsPlaces ==
    ASSUME UploaderTypes
    PROVE  /\ Len(table) \in Nat /\ Len(fromBroker) \in Nat /\ Len(allDevices) \in Nat
           /\ ip_count \in Nat /\ table \in Seq(U!Entry) /\ fromBroker \in Seq(FromBroker)
BY LenProperties DEF UploaderTypes, U!TypeOK

\* A package more at the end, one less at the front of what the broker sends.
LEMMA IpsAppend ==
    ASSUME UploaderTypes, IpsOnce, NEW p \in FromBroker,
           fromBroker' = Append(fromBroker, p), UNCHANGED <<table, allDevices>>,
           \/ p.kind # "dev" /\ ip_count' = ip_count
           \/ p.kind = "dev" /\ p.ip = ip_count /\ ip_count' = ip_count + 1
    PROVE  IpsOnce'
<1> DEFINE n == Len(fromBroker)
<1>1. /\ n \in Nat /\ ip_count \in Nat /\ fromBroker \in Seq(FromBroker) /\ Len(table) \in Nat
  BY IpsPlaces
<1>2. /\ Len(fromBroker') = n + 1 /\ fromBroker'[n + 1] = p
      /\ \A j \in 1 .. n : fromBroker'[j] = fromBroker[j]
  BY <1>1, AppendContents
<1>3. \A j \in 1 .. Len(table) : table[j].ip \in Int
  <2>1. \A j \in 1 .. Len(table) : table[j] \in U!Entry
    BY IpsPlaces, ElementOfSeq
  <2>2. QED
    BY <2>1 DEF U!Entry, U!Ips
<1>4. \A j \in 1 .. n : fromBroker[j].kind = "dev" => fromBroker[j].ip \in Int
  <2>1. \A j \in 1 .. n : fromBroker[j] \in FromBroker
    BY IpsPlaces, ElementOfSeq
  <2>2. QED
    BY <2>1 DEF FromBroker, NewDevices, ReadAnswers, U!Ips
<1> HIDE DEF n
<1>5. \A j \in 1 .. Len(fromBroker') : j \in 1 .. n \/ j = n + 1
  BY <1>1, <1>2
<1>6. ip_count' \in Nat /\ ip_count <= ip_count'
  BY <1>1
<1>7. \A j \in 1 .. Len(table) : table[j].ip < ip_count'
  BY <1>1, <1>3, <1>6 DEF IpsOnce
<1>8. ASSUME NEW j \in 1 .. Len(fromBroker'), fromBroker'[j].kind = "dev"
      PROVE  /\ fromBroker'[j].ip < ip_count'
             /\ \A k \in 1 .. Len(table) : table[k].ip # fromBroker'[j].ip
             /\ \A k \in 1 .. Len(fromBroker') :
                  fromBroker'[k].kind = "dev" /\ fromBroker'[k].ip = fromBroker'[j].ip => k = j
  <2>1. CASE j \in 1 .. n
    <3>1. /\ fromBroker[j].kind = "dev" /\ fromBroker'[j] = fromBroker[j] /\ fromBroker[j].ip \in Int
          /\ fromBroker[j].ip < ip_count
      BY <1>2, <1>4, <1>8, <2>1 DEF IpsOnce, n
    <3>2. fromBroker[j].ip # ip_count
      BY <1>1, <3>1
    <3>3. \A k \in 1 .. n : fromBroker'[k].kind = "dev" /\ fromBroker'[k].ip = fromBroker'[j].ip => k = j
      BY <1>2, <2>1, <3>1 DEF IpsOnce, n
    <3>4. QED
      BY <1>1, <1>2, <1>5, <1>6, <2>1, <3>1, <3>2, <3>3 DEF IpsOnce, n
  <2>2. CASE j = n + 1
    <3>1. fromBroker'[j].ip = ip_count /\ ip_count' = ip_count + 1 /\ p.kind = "dev"
      BY <1>2, <1>8, <2>2
    <3>2. \A k \in 1 .. Len(table) : table[k].ip # ip_count
      BY <1>1, <1>3 DEF IpsOnce
    <3>3. \A k \in 1 .. n : fromBroker'[k].kind = "dev" => fromBroker'[k].ip # ip_count
      BY <1>1, <1>2, <1>4 DEF IpsOnce, n
    <3>4. QED
      BY <1>1, <1>5, <2>2, <3>1, <3>2, <3>3
  <2>3. QED
    BY <1>5, <2>1, <2>2
<1>9. OneEach(table') /\ OneEach(allDevices')
  BY DEF IpsOnce
<1>10. QED
  BY <1>7, <1>8, <1>9 DEF IpsOnce

LEMMA IpsTail ==
    ASSUME UploaderTypes, IpsOnce, fromBroker # <<>>, fromBroker' = Tail(fromBroker),
           UNCHANGED <<table, allDevices, ip_count>>
    PROVE  IpsOnce'
<1>1. /\ Len(fromBroker') = Len(fromBroker) - 1 /\ Len(fromBroker) \in Nat \ {0}
      /\ \A k \in 1 .. Len(fromBroker') : fromBroker'[k] = fromBroker[k + 1]
  BY IpsPlaces, HeadAndTail
<1>2. \A k \in 1 .. Len(fromBroker') : k + 1 \in 1 .. Len(fromBroker)
  BY <1>1
<1>3. \A j, k \in 1 .. Len(fromBroker') : j + 1 = k + 1 => j = k
  BY <1>1
<1>4. QED
  BY <1>1, <1>2, <1>3 DEF IpsOnce

\* The device that is added was on its way.
LEMMA IpsAdded ==
    ASSUME UploaderTypes, IpsOnce, U!addNewDevice
    PROVE  IpsOnce'
<1> DEFINE p == Head(fromBroker)  e == [ip |-> p.ip, dev |-> p.dev]
<1>1. /\ fromBroker # <<>> /\ p \in NewDevices /\ fromBroker' = Tail(fromBroker)
      /\ \E t \in Seq(U!Entry) :
           /\ table' = Append(t, e)
           /\ t = table \/ \E i \in 1 .. Len(table) : t = RemoveAt(table, i)
  BY Added
<1>2. PICK t \in Seq(U!Entry) :
        /\ table' = Append(t, e)
        /\ t = table \/ \E i \in 1 .. Len(table) : t = RemoveAt(table, i)
  BY <1>1
<1>3. /\ Len(table) \in Nat /\ Len(fromBroker) \in Nat /\ ip_count \in Nat /\ table \in Seq(U!Entry)
      /\ OneEach(table) /\ Len(t) \in Nat
  BY IpsPlaces, LenProperties DEF IpsOnce
<1>4. \A j \in 1 .. Len(t) : \E k \in 1 .. Len(table) : t[j] = table[k]
  <2>1. CASE t = table
    BY <2>1
  <2>2. ASSUME NEW i \in 1 .. Len(table), t = RemoveAt(table, i)
        PROVE  \A j \in 1 .. Len(t) : \E k \in 1 .. Len(table) : t[j] = table[k]
    <3>1. /\ Len(t) = Len(table) - 1
          /\ \A j \in 1 .. Len(table) - 1 : t[j] = IF j < i THEN table[j] ELSE table[j + 1]
      BY <1>3, <2>2, RemoveAtProperties
    <3>2. \A j \in 1 .. Len(table) - 1 : j \in 1 .. Len(table) /\ j + 1 \in 1 .. Len(table)
      BY <1>3
    <3>3. QED
      BY <3>1, <3>2
  <2>3. QED
    BY <1>2, <2>1, <2>2
<1>5. OneEach(t)
  <2>1. CASE t = table
    BY <1>3, <2>1
  <2>2. ASSUME NEW i \in 1 .. Len(table), t = RemoveAt(table, i) PROVE OneEach(t)
    <3>1. /\ Len(t) = Len(table) - 1
          /\ \A j \in 1 .. Len(table) - 1 : t[j] = IF j < i THEN table[j] ELSE table[j + 1]
      BY <1>3, <2>2, RemoveAtProperties
    <3>2. ASSUME NEW j \in 1 .. Len(t), NEW k \in 1 .. Len(t), t[j].ip = t[k].ip PROVE j = k
      <4> DEFINE a == IF j < i THEN j ELSE j + 1  b == IF k < i THEN k ELSE k + 1
      <4>1. a \in 1 .. Len(table) /\ b \in 1 .. Len(table) /\ (a = b => j = k)
        BY <1>3, <3>1
      <4>2. t[j] = table[a] /\ t[k] = table[b]
        BY <3>1
      <4> HIDE DEF a, b
      <4>3. QED
        BY <1>3, <3>2, <4>1, <4>2 DEF OneEach
    <3>3. QED
      BY <3>2 DEF OneEach
  <2>3. QED
    BY <1>2, <2>1, <2>2
<1>6. e \in U!Entry
  BY <1>1 DEF NewDevices, U!Entry
<1>7. e.ip = p.ip /\ p.kind = "dev"
  BY <1>1 DEF NewDevices
<1> HIDE DEF e
<1>8. Len(table') = Len(t) + 1 /\ table'[Len(t) + 1] = e /\ \A j \in 1 .. Len(t) : table'[j] = t[j]
  BY <1>2, <1>6, AppendContents
<1>9. /\ p = fromBroker[1] /\ Len(fromBroker') = Len(fromBroker) - 1 /\ Len(fromBroker) \in Nat \ {0}
      /\ \A k \in 1 .. Len(fromBroker') : fromBroker'[k] = fromBroker[k + 1]
  BY <1>1, IpsPlaces, HeadAndTail
<1> HIDE DEF p
<1>10. /\ 1 \in 1 .. Len(fromBroker)
       /\ \A k \in 1 .. Len(fromBroker') : k + 1 \in 1 .. Len(fromBroker) /\ k + 1 # 1
  BY <1>9
<1>11. /\ p.ip < ip_count /\ \A k \in 1 .. Len(table) : table[k].ip # p.ip
       /\ \A k \in 1 .. Len(fromBroker') : fromBroker'[k].kind = "dev" => fromBroker'[k].ip # p.ip
  BY <1>7, <1>9, <1>10 DEF IpsOnce
<1>12. \A j \in 1 .. Len(table') : (j \in 1 .. Len(t) /\ table'[j] = t[j]) \/ (j = Len(t) + 1 /\ table'[j] = e)
  BY <1>3, <1>8
<1>13. OneEach(table')
  <2>1. ASSUME NEW j \in 1 .. Len(table'), NEW k \in 1 .. Len(table'), table'[j].ip = table'[k].ip PROVE j = k
    <3>1. \A m \in 1 .. Len(t) : t[m].ip # e.ip
      BY <1>4, <1>7, <1>11
    <3>2. QED
      BY <1>5, <1>12, <2>1, <3>1 DEF OneEach
  <2>2. QED
    BY <2>1 DEF OneEach
<1>14. \A j \in 1 .. Len(table') : table'[j].ip < ip_count
  BY <1>4, <1>7, <1>11, <1>12 DEF IpsOnce
<1>15. ASSUME NEW j \in 1 .. Len(fromBroker'), fromBroker'[j].kind = "dev"
       PROVE  /\ fromBroker'[j].ip < ip_count
              /\ \A k \in 1 .. Len(table') : table'[k].ip # fromBroker'[j].ip
              /\ \A k \in 1 .. Len(fromBroker') :
                   fromBroker'[k].kind = "dev" /\ fromBroker'[k].ip = fromBroker'[j].ip => k = j
  <2>1. /\ fromBroker'[j].ip < ip_count
        /\ \A k \in 1 .. Len(table) : table[k].ip # fromBroker'[j].ip
    BY <1>9, <1>10, <1>15 DEF IpsOnce
  <2>2. \A k \in 1 .. Len(table') : table'[k].ip # fromBroker'[j].ip
    BY <1>4, <1>7, <1>11, <1>12, <1>15, <2>1
  <2>3. \A k \in 1 .. Len(fromBroker') :
           fromBroker'[k].kind = "dev" /\ fromBroker'[k].ip = fromBroker'[j].ip => k + 1 = j + 1
    BY <1>9, <1>10, <1>15 DEF IpsOnce
  <2>4. \A k \in 1 .. Len(fromBroker') : k + 1 = j + 1 => k = j
    BY <1>9
  <2>5. QED
    BY <2>1, <2>2, <2>3, <2>4
<1>16. UNCHANGED <<ip_count, allDevices>>
  BY DEF U!addNewDevice, U!uploader
<1>17. QED
  BY <1>13, <1>14, <1>15, <1>16 DEF IpsOnce

LEMMA IpsOnceStep ==
    ASSUME U!UploaderAssumption, UploaderTypes, IpsOnce, Stages, [U!Next]_U!vars
    PROVE  IpsOnce'
<1>1. ASSUME NEW d \in Devices, U!register(d), UNCHANGED <<table, allDevices>> PROVE IpsOnce'
  <2> DEFINE p == [kind |-> "dev", ip |-> ip_count, dev |-> d]
  <2>1. p \in NewDevices /\ fromBroker' = Append(fromBroker, p) /\ ip_count' = ip_count + 1
    BY <1>1, Registers
  <2>2. p.kind = "dev" /\ p.ip = ip_count
    OBVIOUS
  <2> HIDE DEF p
  <2>3. QED
    BY <1>1, <2>1, <2>2, IpsAppend, Kinds
<1>2. CASE U!registerAllFakeDevice
  <2>1. todo # <<>> /\ todo \in Seq(Devices) /\ U!register(Head(todo)) /\ UNCHANGED <<table, allDevices>>
    BY <1>2 DEF U!registerAllFakeDevice, UploaderTypes, U!uploader
  <2>2. Head(todo) \in Devices
    BY <2>1, HeadTailProperties
  <2>3. QED
    BY <1>1, <2>1, <2>2
<1>3. ASSUME NEW d \in Devices, U!rescan(d) PROVE IpsOnce'
  BY <1>1, <1>3 DEF U!rescan, U!uploader
<1>4. CASE U!answerRead
  <2> DEFINE req == Head(toBroker)  res == [kind |-> "res", ip |-> req.ip, com |-> req.com]
  <2>1. req \in Reads /\ fromBroker' = Append(fromBroker, res) /\ UNCHANGED <<ip_count, table, allDevices>>
    BY <1>4, Heads DEF U!answerRead, U!manager, U!uploader
  <2>2. res \in ReadAnswers /\ res.kind # "dev"
    BY <2>1 DEF Reads, ReadAnswers
  <2> HIDE DEF res
  <2>3. QED
    BY <2>1, <2>2, IpsAppend, Kinds
<1>5. CASE U!addNewDevice
  BY <1>5, IpsAdded
<1>6. CASE U!handleRulerCommand
  <2>1. fromBroker # <<>> /\ fromBroker' = Tail(fromBroker) /\ UNCHANGED <<ip_count, table, allDevices>>
    BY <1>6 DEF U!handleRulerCommand, U!uploader
  <2>2. QED
    BY <2>1, IpsTail
<1>7. CASE U!saveAllDeviceDescription
  <2>1. OneEach(allDevices') /\ UNCHANGED <<ip_count, table, fromBroker>>
    BY <1>7, ListFirst DEF U!saveAllDeviceDescription, U!manager, U!broker
  <2>2. QED
    BY <2>1 DEF IpsOnce, OneEach
<1>8. ASSUME UNCHANGED <<table, allDevices, ip_count, fromBroker>> PROVE IpsOnce'
  BY <1>8 DEF IpsOnce, OneEach
<1>9. \/ U!commandHandler \/ U!addRule \/ U!scanRules \/ U!Start \/ U!waitIoTPackage
      \/ U!sendSubscriptRule \/ U!startLoop
      \/ U!handleRecvData \/ UNCHANGED U!vars
      => UNCHANGED <<table, allDevices, ip_count, fromBroker>>
  BY DEF U!commandHandler, U!addRule, U!scanRules, U!Start, U!waitIoTPackage, U!sendSubscriptRule, U!startLoop,
     U!handleRecvData, U!vars, U!manager, U!broker, U!uploader
<1>10. QED
  BY <1>2, <1>3, <1>4, <1>5, <1>6, <1>7, <1>8, <1>9 DEF U!Next, U!ServerThread, U!UploaderThread, U!BrokerThread

\* Once the table has been asked for and has come, one clause is left.
LEMMA StagesLater ==
    ASSUME ~ Asking', pc' # "start", pc' # "wait",
           ToSet(fromUploader') \subseteq NewRules, ToSet(toUploader') \subseteq Uploaded
    PROVE  Stages'
BY DEF Stages

LEMMA StagesStep ==
    ASSUME U!UploaderAssumption, UploaderTypes, IpsOnce, Stages, [U!Next]_U!vars
    PROVE  Stages'
<1>0. /\ fromBroker \in Seq(FromBroker) /\ rules \in Seq(U!Rule)
      /\ fromUploader \in Seq(Orders) /\ toUploader \in Seq(ToUploader)
      /\ ToSet(<<>>) = {}
  BY DEF UploaderTypes, U!TypeOK, ToSet
<1>a. ASSUME UNCHANGED <<pc, fromUploader, toUploader, toBroker, upload>>, Asking => rules' = <<>>,
             Asking => \A p \in ToSet(fromBroker') : p.kind = "dev"
      PROVE  Stages'
  BY <1>a DEF Stages, Asking
<1>l. ASSUME ~ Asking, pc' = pc,
             ToSet(fromUploader') \subseteq NewRules, ToSet(toUploader') \subseteq Uploaded
      PROVE  Stages'
  BY <1>l, StagesLater DEF Asking
<1>k. ~ Asking => ToSet(fromUploader) \subseteq NewRules /\ ToSet(toUploader) \subseteq Uploaded
  BY DEF Stages
<1>1. ASSUME NEW d \in Devices, U!register(d),
             UNCHANGED <<pc, fromUploader, toUploader, toBroker, upload, rules>>
      PROVE  Stages'
  <2> DEFINE p == [kind |-> "dev", ip |-> ip_count, dev |-> d]
  <2>1. p \in NewDevices /\ fromBroker' = Append(fromBroker, p)
    BY <1>1, Registers
  <2>2. p.kind = "dev"
    OBVIOUS
  <2> HIDE DEF p
  <2>3. ToSet(fromBroker') = ToSet(fromBroker) \cup {p}
    BY <1>0, <2>1, AppendContents, Kinds
  <2>4. Asking => rules' = <<>> /\ \A q \in ToSet(fromBroker') : q.kind = "dev"
    BY <1>1, <2>2, <2>3 DEF Stages
  <2>5. QED
    BY <1>1, <1>a, <2>4
<1>2. CASE U!registerAllFakeDevice
  <2>1. /\ todo # <<>> /\ todo \in Seq(Devices) /\ U!register(Head(todo))
        /\ UNCHANGED <<pc, fromUploader, toUploader, toBroker, upload, rules>>
    BY <1>2 DEF U!registerAllFakeDevice, UploaderTypes, U!uploader
  <2>2. Head(todo) \in Devices
    BY <2>1, HeadTailProperties
  <2>3. QED
    BY <1>1, <2>1, <2>2
<1>3. ASSUME NEW d \in Devices, U!rescan(d) PROVE Stages'
  BY <1>1, <1>3 DEF U!rescan, U!uploader
<1>4. CASE U!answerRead
  <2>1. ~ Asking /\ UNCHANGED <<pc, fromUploader, toUploader>>
    BY <1>4 DEF U!answerRead, Stages, U!uploader
  <2>2. QED
    BY <1>k, <1>l, <2>1
<1>5. CASE U!addNewDevice
  <2>1. /\ fromBroker # <<>> /\ fromBroker' = Tail(fromBroker)
        /\ rules' \in Seq(U!Rule) /\ ToSet(rules') \subseteq ToSet(rules)
    BY <1>5, Added
  <2>2. ToSet(fromBroker') \subseteq ToSet(fromBroker)
    BY <1>0, <2>1, HeadAndTail
  <2>3. Asking => rules' = <<>>
    <3>1. Asking => ToSet(rules') = {}
      BY <1>0, <2>1 DEF Stages
    <3>2. ToSet(rules') = {} => rules' = <<>>
      <4>1. rules' # <<>> => Head(rules') \in ToSet(rules')
        BY <2>1, HeadAndTail
      <4>2. QED
        BY <4>1
    <3>3. QED
      BY <3>1, <3>2
  <2>4. UNCHANGED <<pc, fromUploader, toUploader, toBroker, upload>>
    BY <1>5 DEF U!addNewDevice, U!uploader
  <2>5. QED
    BY <1>a, <2>2, <2>3, <2>4 DEF Stages
<1>6. CASE U!commandHandler
  <2>1. /\ fromUploader # <<>> /\ Head(fromUploader).kind = "Dis_All" /\ fromUploader' = Tail(fromUploader)
        /\ toUploader' = Append(toUploader, [kind |-> "list", devices |-> table])
        /\ UNCHANGED <<pc, rules, toBroker, upload, fromBroker>>
    BY <1>6 DEF U!commandHandler, U!manager, U!broker, U!uploader
  <2>2. pc = "wait"
    <3>1. Head(fromUploader) \in ToSet(fromUploader)
      BY <1>0, <2>1, HeadAndTail
    <3>2. Head(fromUploader) \notin NewRules
      BY <2>1 DEF NewRules
    <3>3. Asking /\ pc # "start"
      BY <1>k, <2>1, <3>1, <3>2 DEF Stages
    <3>4. QED
      BY <3>3 DEF Asking
  <2>3. fromUploader = <<[kind |-> "Dis_All"]>> /\ toUploader = <<>>
    BY <2>1, <2>2 DEF Stages
  <2>4. fromUploader' = <<>> /\ toUploader' = <<[kind |-> "list", devices |-> table]>>
    BY <2>1, <2>3
  <2>5. table \in Seq(U!Entry) /\ OneEach(table)
    BY DEF UploaderTypes, U!TypeOK, IpsOnce
  <2>6. QED
    BY <2>1, <2>2, <2>4, <2>5 DEF Stages, Asking
<1>7. CASE U!addRule
  <2>1. /\ fromUploader # <<>> /\ Head(fromUploader).kind = "rule" /\ fromUploader' = Tail(fromUploader)
        /\ UNCHANGED <<pc, toUploader>>
    BY <1>7 DEF U!addRule, U!uploader
  <2>2. ~ Asking
    <3>1. fromUploader # <<[kind |-> "Dis_All"]>>
      BY <2>1
    <3>2. QED
      BY <2>1, <3>1 DEF Stages, Asking
  <2>3. ToSet(fromUploader') \subseteq ToSet(fromUploader)
    BY <1>0, <2>1, HeadAndTail
  <2>4. QED
    BY <1>k, <1>l, <2>1, <2>2, <2>3
<1>8. CASE U!scanRules
  <2>1. ~ Asking /\ UNCHANGED <<pc, fromUploader, toUploader>>
    BY <1>8 DEF U!scanRules, Stages, U!uploader
  <2>2. QED
    BY <1>k, <1>l, <2>1
<1>9. CASE U!handleRulerCommand
  <2>1. /\ fromBroker # <<>> /\ Head(fromBroker) \in ReadAnswers /\ UNCHANGED <<pc, fromUploader>>
        /\ toUploader' = toUploader \/ \E v \in Uploaded : toUploader' = Append(toUploader, v)
    BY <1>9, PassedOn DEF U!handleRulerCommand, U!uploader
  <2>2. ~ Asking
    <3>1. Head(fromBroker) \in ToSet(fromBroker) /\ Head(fromBroker).kind # "dev"
      BY <1>0, <2>1, HeadAndTail DEF ReadAnswers
    <3>2. QED
      BY <3>1 DEF Stages
  <2>3. ToSet(toUploader') \subseteq Uploaded
    <3>1. ASSUME NEW v \in Uploaded, toUploader' = Append(toUploader, v)
          PROVE  ToSet(toUploader') \subseteq Uploaded
      <4>1. ToSet(toUploader') = ToSet(toUploader) \cup {v}
        BY <1>0, <3>1, AppendContents, Kinds
      <4>2. QED
        BY <1>k, <2>2, <4>1
    <3>2. QED
      BY <1>k, <2>1, <2>2, <3>1
  <2>4. QED
    BY <1>k, <1>l, <2>1, <2>2, <2>3
<1>10. CASE U!Start
  <2>1. /\ pc = "start" /\ pc' = "wait" /\ fromUploader' = Append(fromUploader, [kind |-> "Dis_All"])
        /\ UNCHANGED <<toUploader, rules, toBroker, upload, fromBroker>>
    BY <1>10 DEF U!Start, U!manager, U!broker
  <2>2. fromUploader = <<>> /\ toUploader = <<>>
    BY <2>1 DEF Stages
  <2>3. fromUploader' = <<[kind |-> "Dis_All"]>>
    BY <2>1, <2>2
  <2>4. QED
    BY <2>1, <2>2, <2>3 DEF Stages, Asking
<1>11. CASE U!saveAllDeviceDescription \/ U!waitIoTPackage
  <2>1. /\ pc = "wait" /\ toUploader # <<>> /\ toUploader' = Tail(toUploader) /\ pc' = "subscribe"
        /\ fromUploader' = fromUploader
    BY <1>11 DEF U!saveAllDeviceDescription, U!waitIoTPackage
  <2>2. fromUploader' = <<>> /\ toUploader' = <<>>
    BY <2>1, ListFirst
  <2>3. QED
    BY <1>0, <2>1, <2>2, StagesLater DEF Asking
<1>12. CASE U!sendSubscriptRule
  <2>1. pc = "subscribe" /\ UNCHANGED <<pc, toUploader>>
    BY <1>12 DEF U!sendSubscriptRule
  <2>2. fromUploader' = fromUploader \/ \E p \in NewRules : fromUploader' = Append(fromUploader, p)
    BY <1>12, Subscribes
  <2>3. ToSet(fromUploader') \subseteq NewRules
    <3>1. ASSUME NEW p \in NewRules, fromUploader' = Append(fromUploader, p)
          PROVE  ToSet(fromUploader') \subseteq NewRules
      <4>1. ToSet(fromUploader') = ToSet(fromUploader) \cup {p}
        BY <1>0, <3>1, AppendContents DEF Orders
      <4>2. QED
        BY <1>k, <2>1, <4>1 DEF Asking
    <3>2. QED
      BY <1>k, <2>1, <2>2, <3>1 DEF Asking
  <2>4. QED
    BY <1>k, <1>l, <2>1, <2>3 DEF Asking
<1>13. CASE U!startLoop
  BY <1>13, <1>k, StagesLater DEF U!startLoop, Asking
<1>14. CASE U!handleRecvData
  <2>1. pc = "loop" /\ toUploader # <<>> /\ toUploader' = Tail(toUploader) /\ UNCHANGED <<pc, fromUploader>>
    BY <1>14 DEF U!handleRecvData
  <2>2. ToSet(toUploader') \subseteq ToSet(toUploader)
    BY <1>0, <2>1, HeadAndTail
  <2>3. QED
    BY <1>k, <1>l, <2>1, <2>2 DEF Asking
<1>15. CASE UNCHANGED U!vars
  BY <1>15 DEF Stages, Asking, U!vars, U!manager, U!broker, U!uploader
<1>16. QED
  BY <1>2, <1>3, <1>4, <1>5, <1>6, <1>7, <1>8, <1>9, <1>10, <1>11, <1>12, <1>13, <1>14, <1>15
     DEF U!Next, U!ServerThread, U!UploaderThread, U!BrokerThread

-----------------------------------------------------------------------------
(* What is read for a component comes from the ip of its subscription.     *)

\* Nothing is subscribed to before the table is there, and the table does not change after.
LEMMA SubscriptionsStay ==
    ASSUME [U!Next]_U!vars, Stages
    PROVE  \/ UNCHANGED allDevices
           \/ /\ rules' = <<>> /\ toBroker' = <<>> /\ fromUploader' = <<>> /\ toUploader' = <<>>
              /\ upload' = None /\ \A p \in ToSet(fromBroker') : p.kind = "dev"
<1>1. CASE U!saveAllDeviceDescription
  <2>1. /\ pc = "wait" /\ toUploader # <<>> /\ toUploader' = Tail(toUploader)
        /\ UNCHANGED <<rules, toBroker, upload, fromBroker, fromUploader>>
    BY <1>1 DEF U!saveAllDeviceDescription, U!manager, U!broker
  <2>2. QED
    BY <2>1, ListFirst DEF Stages, Asking
<1>2. CASE ~ U!saveAllDeviceDescription
  BY <1>2 DEF U!Next, U!ServerThread, U!UploaderThread, U!BrokerThread,
       U!registerAllFakeDevice, U!rescan, U!answerRead,
     U!addNewDevice, U!commandHandler, U!addRule, U!scanRules, U!handleRulerCommand, U!Start, U!waitIoTPackage,
     U!sendSubscriptRule, U!startLoop, U!handleRecvData, U!uploader, U!vars
<1>3. QED
  BY <1>1, <1>2

LEMMA ComFromOneLater ==
    ASSUME UNCHANGED allDevices,
           \A r \in ToSet(rules') : Subscribed(r.from, r.com),
           \A p \in ToSet(fromUploader') : p.kind = "rule" => Subscribed(p.from, p.com),
           \A p \in ToSet(toBroker') : Subscribed(p.ip, p.com),
           \A p \in ToSet(fromBroker') : p.kind = "res" => Subscribed(p.ip, p.com),
           \A p \in ToSet(toUploader') : p.kind = "value" =>
              Subscribed(p.from, p.com) /\ p.src = p.from /\ p.read = p.com
    PROVE  ComFromOne'
<1>1. ASSUME NEW ip, NEW com, Subscribed(ip, com) PROVE Subscribed(ip, com)'
  BY <1>1 DEF Subscribed
<1>2. QED
  BY <1>1 DEF ComFromOne

LEMMA ComFromOneStep ==
    ASSUME U!UploaderAssumption, UploaderTypes, Stages, ComFromOne, [U!Next]_U!vars
    PROVE  ComFromOne'
<1>0. /\ fromBroker \in Seq(FromBroker) /\ rules \in Seq(U!Rule)
      /\ toBroker \in Seq(Reads) /\ allDevices \in Seq(U!Entry)
      /\ fromUploader \in Seq(Orders) /\ toUploader \in Seq(ToUploader)
      /\ ToSet(<<>>) = {}
  BY DEF UploaderTypes, U!TypeOK, ToSet
<1>1. CASE ~ UNCHANGED allDevices
  <2>1. /\ rules' = <<>> /\ toBroker' = <<>> /\ fromUploader' = <<>> /\ toUploader' = <<>>
        /\ \A p \in ToSet(fromBroker') : p.kind = "dev"
    BY <1>1, SubscriptionsStay
  <2>2. QED
    BY <1>0, <2>1 DEF ComFromOne
<1>2. CASE UNCHANGED allDevices
  <2>a. ASSUME NEW d \in Devices, U!register(d), UNCHANGED <<rules, toBroker, fromUploader, toUploader>>
        PROVE  ComFromOne'
    <3> DEFINE p == [kind |-> "dev", ip |-> ip_count, dev |-> d]
    <3>1. p \in NewDevices /\ fromBroker' = Append(fromBroker, p) /\ p.kind # "res"
      BY <2>a, Registers
    <3> HIDE DEF p
    <3>2. ToSet(fromBroker') = ToSet(fromBroker) \cup {p}
      BY <1>0, <3>1, AppendContents, Kinds
    <3>3. QED
      BY <1>2, <2>a, <3>1, <3>2, ComFromOneLater DEF ComFromOne
  <2>1. CASE U!registerAllFakeDevice
    <3>1. /\ todo # <<>> /\ todo \in Seq(Devices) /\ U!register(Head(todo))
          /\ UNCHANGED <<rules, toBroker, fromUploader, toUploader>>
      BY <2>1 DEF U!registerAllFakeDevice, UploaderTypes
    <3>2. Head(todo) \in Devices
      BY <3>1, HeadTailProperties
    <3>3. QED
      BY <2>a, <3>1, <3>2
  <2>2. ASSUME NEW d \in Devices, U!rescan(d) PROVE ComFromOne'
    BY <2>2, <2>a DEF U!rescan
  <2>3. CASE U!answerRead
    <3> DEFINE req == Head(toBroker)  res == [kind |-> "res", ip |-> req.ip, com |-> req.com]
    <3>1. /\ toBroker # <<>> /\ fromBroker' = Append(fromBroker, res) /\ toBroker' = Tail(toBroker)
          /\ UNCHANGED <<rules, fromUploader, toUploader>>
      BY <2>3 DEF U!answerRead, U!manager
    <3>2. req \in Reads /\ req \in ToSet(toBroker) /\ ToSet(toBroker') \subseteq ToSet(toBroker)
      BY <1>0, <3>1, HeadAndTail
    <3>3. res \in ReadAnswers /\ res.ip = req.ip /\ res.com = req.com
      BY <3>2 DEF Reads, ReadAnswers
    <3> HIDE DEF req, res
    <3>4. ToSet(fromBroker') = ToSet(fromBroker) \cup {res}
      BY <1>0, <3>1, <3>3, AppendContents, Kinds
    <3>5. QED
      BY <1>2, <3>1, <3>2, <3>3, <3>4, ComFromOneLater DEF ComFromOne
  <2>4. CASE U!addNewDevice
    <3>1. /\ fromBroker # <<>> /\ fromBroker' = Tail(fromBroker) /\ ToSet(rules') \subseteq ToSet(rules)
      BY <2>4, Added
    <3>2. ToSet(fromBroker') \subseteq ToSet(fromBroker)
      BY <1>0, <3>1, HeadAndTail
    <3>3. UNCHANGED <<toBroker, fromUploader, toUploader>>
      BY <2>4 DEF U!addNewDevice
    <3>4. QED
      BY <1>2, <3>1, <3>2, <3>3, ComFromOneLater DEF ComFromOne
  <2>5. CASE U!commandHandler
    <3> DEFINE l == [kind |-> "list", devices |-> table]
    <3>1. /\ fromUploader # <<>> /\ fromUploader' = Tail(fromUploader) /\ toUploader' = Append(toUploader, l)
          /\ UNCHANGED <<rules, toBroker, fromBroker>>
      BY <2>5 DEF U!commandHandler, U!manager, U!broker
    <3>2. l \in DeviceLists /\ l.kind # "value"
      BY DEF DeviceLists, UploaderTypes, U!TypeOK
    <3> HIDE DEF l
    <3>3. ToSet(toUploader') = ToSet(toUploader) \cup {l}
      BY <1>0, <3>1, <3>2, AppendContents, Kinds
    <3>4. ToSet(fromUploader') \subseteq ToSet(fromUploader)
      BY <1>0, <3>1, HeadAndTail
    <3>5. QED
      BY <1>2, <3>1, <3>2, <3>3, <3>4, ComFromOneLater DEF ComFromOne
  <2>6. CASE U!addRule
    <3> DEFINE p == Head(fromUploader)
               r == [from |-> p.from, com |-> p.com, freq |-> p.freq, wait |-> 0, waiting |-> FALSE]
    <3>1. /\ fromUploader # <<>> /\ p.kind = "rule" /\ rules' = Append(rules, r)
          /\ fromUploader' = Tail(fromUploader) /\ UNCHANGED <<toBroker, fromBroker, toUploader>>
      BY <2>6 DEF U!addRule, U!broker
    <3>2. p \in NewRules
      BY <3>1, Heads
    <3>3. p \in ToSet(fromUploader) /\ ToSet(fromUploader') \subseteq ToSet(fromUploader)
      BY <1>0, <3>1, HeadAndTail
    <3>4. r \in U!Rule /\ r.from = p.from /\ r.com = p.com
      BY <3>2 DEF NewRules, U!Rule
    <3> HIDE DEF p, r
    <3>5. ToSet(rules') = ToSet(rules) \cup {r}
      BY <1>0, <3>1, <3>4, AppendContents
    <3>6. QED
      BY <1>2, <3>1, <3>3, <3>4, <3>5, ComFromOneLater DEF ComFromOne
  <2>7. CASE U!scanRules
    <3>1. /\ \A r \in ToSet(rules') : \E q \in ToSet(rules) : q.from = r.from /\ q.com = r.com
          /\ \A p \in ToSet(toBroker') :
                p \in ToSet(toBroker) \/ \E q \in ToSet(rules) : q.from = p.ip /\ q.com = p.com
      BY <2>7, Scans
    <3>2. UNCHANGED <<fromBroker, fromUploader, toUploader>>
      BY <2>7 DEF U!scanRules, U!broker
    <3>3. \A r \in ToSet(rules') : Subscribed(r.from, r.com)
      BY <3>1 DEF ComFromOne
    <3>4. \A p \in ToSet(toBroker') : Subscribed(p.ip, p.com)
      BY <3>1 DEF ComFromOne
    <3>5. QED
      BY <1>2, <3>2, <3>3, <3>4, ComFromOneLater DEF ComFromOne
  <2>8. CASE U!handleRulerCommand
    <3> DEFINE p == Head(fromBroker)
    <3>1. /\ fromBroker # <<>> /\ fromBroker' = Tail(fromBroker) /\ p \in ReadAnswers
          /\ \A r \in ToSet(rules') : \E q \in ToSet(rules) : q.from = r.from /\ q.com = r.com
          /\ UNCHANGED <<toBroker, fromUploader>>
      BY <2>8, PassedOn DEF U!handleRulerCommand
    <3>2. p \in ToSet(fromBroker) /\ p.kind = "res" /\ ToSet(fromBroker') \subseteq ToSet(fromBroker)
      BY <1>0, <3>1, HeadAndTail DEF ReadAnswers
    <3>3. Subscribed(p.ip, p.com)
      BY <3>2 DEF ComFromOne
    <3>4. \A r \in ToSet(rules') : Subscribed(r.from, r.com)
      BY <3>1 DEF ComFromOne
    <3>5. \A v \in ToSet(toUploader') : v.kind = "value" =>
             Subscribed(v.from, v.com) /\ v.src = v.from /\ v.read = v.com
      <4>1. CASE toUploader' = toUploader
        BY <4>1 DEF ComFromOne
      <4>2. ASSUME NEW q \in ToSet(rules), NEW v \in Uploaded, q.com = p.com,
                   v = [kind |-> "value", from |-> q.from, com |-> q.com, src |-> p.ip, read |-> p.com],
                   toUploader' = Append(toUploader, v)
            PROVE  \A u \in ToSet(toUploader') : u.kind = "value" =>
                      Subscribed(u.from, u.com) /\ u.src = u.from /\ u.read = u.com
        <5>1. ToSet(toUploader') = ToSet(toUploader) \cup {v}
          BY <1>0, <4>2, AppendContents, Kinds
        <5>2. Subscribed(q.from, q.com)
          BY DEF ComFromOne
        <5>3. q.from = p.ip
          BY <1>0, <3>3, <4>2, <5>2, OneSubscription
        <5>4. v.from = q.from /\ v.com = q.com /\ v.src = p.ip /\ v.read = p.com
          BY <4>2
        <5>5. QED
          BY <4>2, <5>1, <5>2, <5>3, <5>4 DEF ComFromOne
      <4>3. QED
        BY <2>8, <4>1, <4>2, PassedOn
    <3>6. QED
      BY <1>2, <3>1, <3>2, <3>4, <3>5, ComFromOneLater DEF ComFromOne
  <2>9. CASE U!Start
    <3> DEFINE l == [kind |-> "Dis_All"]
    <3>1. fromUploader' = Append(fromUploader, l) /\ UNCHANGED <<rules, toBroker, fromBroker, toUploader>>
      BY <2>9 DEF U!Start, U!manager, U!broker
    <3>2. l \in Orders /\ l.kind # "rule"
      BY DEF Orders
    <3> HIDE DEF l
    <3>3. ToSet(fromUploader') = ToSet(fromUploader) \cup {l}
      BY <1>0, <3>1, <3>2, AppendContents
    <3>4. QED
      BY <1>2, <3>1, <3>2, <3>3, ComFromOneLater DEF ComFromOne
  <2>10. CASE U!saveAllDeviceDescription \/ U!waitIoTPackage \/ U!handleRecvData
    <3>1. /\ toUploader # <<>> /\ toUploader' = Tail(toUploader)
          /\ UNCHANGED <<rules, toBroker, fromBroker, fromUploader>>
      BY <2>10 DEF U!saveAllDeviceDescription, U!waitIoTPackage, U!handleRecvData, U!manager, U!broker
    <3>2. ToSet(toUploader') \subseteq ToSet(toUploader)
      BY <1>0, <3>1, HeadAndTail
    <3>3. QED
      BY <1>2, <3>1, <3>2, ComFromOneLater DEF ComFromOne
  <2>11. CASE U!sendSubscriptRule
    <3>1. UNCHANGED <<rules, toBroker, fromBroker, toUploader>>
      BY <2>11 DEF U!sendSubscriptRule, U!manager, U!broker
    <3>2. \A p \in ToSet(fromUploader') : p.kind = "rule" => Subscribed(p.from, p.com)
      <4>1. CASE fromUploader' = fromUploader
        BY <4>1 DEF ComFromOne
      <4>2. ASSUME NEW p \in NewRules, Subscribed(p.from, p.com), fromUploader' = Append(fromUploader, p)
            PROVE  \A q \in ToSet(fromUploader') : q.kind = "rule" => Subscribed(q.from, q.com)
        <5>1. p \in Orders
          BY DEF Orders
        <5>2. ToSet(fromUploader') = ToSet(fromUploader) \cup {p}
          BY <1>0, <4>2, <5>1, AppendContents
        <5>3. QED
          BY <4>2, <5>2 DEF ComFromOne
      <4>3. QED
        BY <2>11, <4>1, <4>2, Subscribes
    <3>3. QED
      BY <1>2, <3>1, <3>2, ComFromOneLater DEF ComFromOne
  <2>12. CASE U!startLoop \/ UNCHANGED U!vars
    <3>1. UNCHANGED <<rules, toBroker, fromBroker, fromUploader, toUploader>>
      BY <2>12 DEF U!startLoop, U!vars, U!manager, U!broker
    <3>2. QED
      BY <1>2, <3>1, ComFromOneLater DEF ComFromOne
  <2>13. QED
    BY <2>1, <2>2, <2>3, <2>4, <2>5, <2>6, <2>7, <2>8, <2>9, <2>10, <2>11, <2>12
       DEF U!Next, U!ServerThread, U!UploaderThread, U!BrokerThread
<1>3. QED
  BY <1>1, <1>2

LEMMA LabelledStep ==
    ASSUME U!UploaderAssumption, UploaderTypes, IpsOnce, Stages, ComFromOne, Labelled, [U!Next]_U!vars
    PROVE  Labelled'
<1>0. allDevices \in Seq(U!Entry) /\ toUploader \in Seq(ToUploader)
  BY DEF UploaderTypes, U!TypeOK
<1>1. CASE U!handleRecvData
  <2> DEFINE p == Head(toUploader)
  <2>1. /\ pc = "loop" /\ toUploader # <<>> /\ UNCHANGED allDevices
        /\ upload' = [as |-> U!getUploadDeviceId(p.from, p.com), ip |-> p.src, read |-> p.read]
    BY <1>1 DEF U!handleRecvData, U!uploadData
  <2>2. p \in ToSet(toUploader)
    BY <1>0, <2>1, HeadAndTail
  <2>3. p \in Uploaded
    BY <2>1, <2>2 DEF Stages, Asking
  <2>4. p.com \in U!Coms /\ p.kind = "value"
    BY <2>3 DEF Uploaded
  <2>5. Subscribed(p.from, p.com) /\ p.src = p.from /\ p.read = p.com
    BY <2>2, <2>4 DEF ComFromOne
  <2> HIDE DEF p
  <2>6. PICK i \in 1 .. Len(allDevices) : allDevices[i].ip = p.from /\ p.com \in Components[allDevices[i].dev]
    BY <2>5 DEF Subscribed
  <2>7. PICK k \in 1 .. Len(allDevices) :
          /\ allDevices[k].ip = p.from
          /\ U!getUploadDeviceId(p.from, p.com) = [dev |-> allDevices[k].dev, com |-> p.com]
    BY <1>0, <2>6, IdFound
  <2>8. k = i
    BY <2>6, <2>7 DEF IpsOnce, OneEach
  <2>9. allDevices[k] \in U!Entry
    BY <1>0, ElementOfSeq
  <2>10. /\ allDevices[k].dev \in Devices
         /\ allDevices[k] = [ip |-> allDevices[k].ip, dev |-> allDevices[k].dev]
    BY <2>9 DEF U!Entry
  <2>11. [dev |-> allDevices[k].dev, com |-> p.com] # None
    BY <2>4, <2>10, UploaderFacts
  <2>12. /\ upload'.as = [dev |-> allDevices[k].dev, com |-> p.com]
         /\ upload'.ip = p.from /\ upload'.read = p.com
    BY <2>1, <2>5, <2>7
  <2>13. upload'.as # None /\ upload'.as.com = upload'.read /\ upload'.as.com \in Components[upload'.as.dev]
    BY <2>6, <2>8, <2>11, <2>12
  <2>14. allDevices'[k] = [ip |-> upload'.ip, dev |-> upload'.as.dev]
    BY <2>1, <2>7, <2>10, <2>12
  <2>15. QED
    BY <2>1, <2>13, <2>14 DEF Labelled
<1>2. CASE ~ U!handleRecvData
  <2>1. UNCHANGED upload
    BY <1>2 DEF U!Next, U!ServerThread, U!UploaderThread, U!BrokerThread,
       U!registerAllFakeDevice, U!rescan, U!answerRead,
       U!addNewDevice, U!commandHandler, U!addRule, U!scanRules, U!handleRulerCommand, U!Start,
       U!saveAllDeviceDescription,
       U!waitIoTPackage, U!sendSubscriptRule, U!startLoop, U!uploader, U!vars
  <2>2. UNCHANGED allDevices \/ upload' = None
    BY SubscriptionsStay
  <2>3. QED
    BY <2>1, <2>2 DEF Labelled
<1>3. QED
  BY <1>1, <1>2

(* CloudUploader: while it runs, a value is posted only under the id of the device whose *)
(* ip, in the table the uploader was shown at start, it was read from, and of a component *)
(* of that device, whatever was registered again meanwhile (CloudUploader.cpp:326).       *)
THEOREM LabelsRight == U!UploaderAssumption => (U!Spec => []RightLabel)
<1> SUFFICES ASSUME U!UploaderAssumption PROVE U!Spec => []RightLabel
  OBVIOUS
<1>1. U!Init => UInv
  <2> SUFFICES ASSUME U!Init PROVE UInv
    OBVIOUS
  <2>1. ToSet(<<>>) = {} /\ Len(<<>>) = 0
    BY DEF ToSet
  <2>2. IpsOnce /\ Stages /\ ComFromOne /\ Labelled
    BY <2>1 DEF U!Init, IpsOnce, OneEach, Stages, Asking, ComFromOne, Labelled
  <2>3. QED
    BY <2>2, InitUploaderTypes DEF UInv
<1>2. UInv /\ [U!Next]_U!vars => UInv'
  BY UploaderTypesStep, IpsOnceStep, StagesStep, ComFromOneStep, LabelledStep DEF UInv
<1>3. UInv => RightLabel
  BY DEF UInv, UploaderTypes, Labelled, RightLabel, U!RightLabel
<1>4. QED
  BY <1>1, <1>2, <1>3, PTL DEF U!Spec
=============================================================================
