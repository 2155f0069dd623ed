----------------------------- MODULE LoRaBroker -----------------------------
(***************************************************************************)
(* The LoRa broker (Broker/LoRaBroker.cpp): end nodes behind one serial    *)
(* port, forwarded to the manager's network.  Two threads use the port and *)
(* LoRaDevices without a lock: the main loop, which carries commands of    *)
(* the manager to end nodes, and the scan (ScanAllDevice), run once at     *)
(* start and again in a thread of its own on the command "rescan".         *)
(*                                                                         *)
(* The LoRa module at the other end of the port is external: it answers a  *)
(* join once the node has joined, and an enquiry with all that the node    *)
(* has left for the broker.  A node makes its replies in its own time.     *)
(* What arrives at the port goes to the thread that polls first.           *)
(*                                                                         *)
(* The broker waits for fixed times.  In most waits they are long enough;  *)
(* in MaxLate of them the time is up before the module has answered, or    *)
(* the module answers before the node has made its reply.  What came too   *)
(* late is still under way, or left at the node, for whoever asks next.    *)
(* The module confirms a command at once, which the broker only logs, and  *)
(* a node takes longer to join than the broker waits for that.             *)
(***************************************************************************)
EXTENDS Integers, SequencesExt

CONSTANTS
    Nodes,          \* LoRa addresses
    Config,         \* sequence of the nodes in LoRa.config
    maxRetryTimes,
    MaxRequests,    \* bound: commands the manager forwards
    MaxRescans,     \* bound: "rescan" commands
    MaxIps,         \* bound: ips the manager hands out
    MaxLate         \* bound: waits too short for the module or the node

ASSUME LoRaAssumption ==
    /\ Config \in Seq(Nodes)
    /\ maxRetryTimes \in Nat \ {0}
    /\ MaxRequests \in Nat /\ MaxIps \in Nat /\ MaxLate \in Nat
    /\ MaxRescans \in {0, 1}     \* two rescans at once are not modelled

NoIp == -1

VARIABLES
    \* shared by the two threads
    LoRaDevices, nowScanning,
    port,           \* what the serial port holds for the broker
    \* the threads
    scan,           \* pc and locals of ScanAllDevice
    main,           \* pc and locals of serverLoop
    up,             \* FALSE once an exception ended the process
    \* around the broker
    reachable,      \* nodes that answer
    making,         \* replies each node still has to make
    left,           \* what each node has left for the broker
    asked,          \* commands the module has not answered yet
    late,           \* waits that were too short
    wire,           \* packages from the manager
    table,          \* the manager's registration of each node
    ipCount, requests, rescans,
    answer,         \* response sent by the last step, <<>> if none
    joinLate        \* history: a join may still be answered to the wrong scan or node

broker == <<LoRaDevices, nowScanning>>
serial == <<port, making, left, asked, late>>
manager == <<wire, table, ipCount, requests, rescans>>
vars == <<broker, serial, scan, main, up, reachable, manager, answer, joinLate>>

\* History in main: a command is handled alone if no scan runs and the module has
\* answered all that was asked before, and afresh if the node owes no earlier reply.
Rest == [pc |-> "idle", i |-> 1, try |-> 1, got |-> <<>>, gone |-> {}]
Waiting == [pc |-> "recv", batch |-> <<>>, index |-> 0, addr |-> "none",
            alone |-> FALSE, afresh |-> FALSE]

\* Start runs the first scan before there is a main loop.
Init ==
    /\ LoRaDevices = <<>>
    /\ nowScanning = FALSE
    /\ port = <<>>
    /\ scan = [Rest EXCEPT !.pc = "start"]
    /\ main = [Waiting EXCEPT !.pc = "off"]
    /\ up = TRUE
    /\ reachable \in SUBSET Nodes
    /\ making = [n \in Nodes |-> <<>>]
    /\ left = [n \in Nodes |-> <<>>]
    /\ asked = {}
    /\ late = 0
    /\ wire = <<>>
    /\ table = [n \in Nodes |-> NoIp]
    /\ ipCount = 0
    /\ requests = 0
    /\ rescans = 0
    /\ answer = <<>>
    /\ joinLate = FALSE

-----------------------------------------------------------------------------
(* The manager, the module and the nodes.                                  *)

Request(n) ==
    /\ requests < MaxRequests
    /\ table[n] # NoIp
    /\ requests' = requests + 1
    /\ wire' = Append(wire, [kind |-> "forward", ip |-> table[n], req |-> requests'])
    /\ answer' = <<>>
    /\ UNCHANGED <<broker, serial, scan, main, up, reachable, table, ipCount, rescans, joinLate>>

Rescan ==
    /\ main.pc # "off"
    /\ rescans < MaxRescans
    /\ rescans' = rescans + 1
    /\ wire' = Append(wire, [kind |-> "rescan"])
    /\ answer' = <<>>
    /\ UNCHANGED <<broker, serial, scan, main, up, reachable, table, ipCount, requests, joinLate>>

Die(n) ==
    /\ n \in reachable
    /\ reachable' = reachable \ {n}
    /\ making' = [making EXCEPT ![n] = <<>>]
    /\ answer' = <<>>
    /\ UNCHANGED <<broker, port, left, asked, late, scan, main, up, manager, joinLate>>

\* A node makes the next of its replies.
nodeReplies(n) ==
    /\ making[n] # <<>>
    /\ left' = [left EXCEPT ![n] = Append(@, Head(making[n]))]
    /\ making' = [making EXCEPT ![n] = Tail(@)]
    /\ answer' = <<>>
    /\ UNCHANGED <<broker, port, asked, late, scan, main, up, reachable, manager, joinLate>>

tooLate == late < MaxLate /\ late' = late + 1

\* An enquiry is answered with what the node has left, also before it made its reply.
moduleAnswers(q) ==
    /\ q \in asked
    /\ asked' = asked \ {q}
    /\ \/ /\ q.kind = "join"
          /\ port' = IF q.node \in reachable THEN Append(port, [kind |-> "JoinOK"]) ELSE port
          /\ UNCHANGED <<left, late>>
       \/ /\ q.kind = "enquiry"
          /\ IF making[q.node] = <<>> THEN UNCHANGED late ELSE tooLate
          /\ port' = port \o left[q.node]
          /\ left' = [left EXCEPT ![q.node] = <<>>]
    /\ answer' = <<>>
    /\ UNCHANGED <<broker, making, scan, main, up, reachable, manager, joinLate>>

\* What the broker writes to the port.  by: the thread that waits for the answer.
ask(by, kind, n) == asked' = asked \cup {[by |-> by, kind |-> kind, node |-> n]}
tell(n, reply) ==
    making' = IF n \in reachable THEN [making EXCEPT ![n] = Append(@, reply)] ELSE making

\* What the port holds is read and dropped.
clearComportBuffer == port' = <<>>

Answered(by) == \A q \in asked : q.by # by

\* The time is up; nobody waits for what comes now.
abandon(by) == asked' = {[q EXCEPT !.by = IF @ = by THEN "none" ELSE @] : q \in asked}
waited(by) == abandon(by) /\ IF Answered(by) THEN UNCHANGED late ELSE tooLate
\* As waited, or something came before that.
received(by) ==
    \/ port = <<>> /\ waited(by)
    \/ port # <<>> /\ abandon(by) /\ UNCHANGED late

Silent == answer' = <<>>

-----------------------------------------------------------------------------
(* ScanAllDevice, in Start or in the rescan thread.                        *)

scanUnchanged == UNCHANGED <<main, up, reachable, wire, requests, rescans>> /\ Silent
Checking == scan.i <= Len(LoRaDevices)
Target == LoRaDevices[scan.i]

\* loadLoRaConfigFile adds the nodes of the file to those already there.
loadLoRaConfigFile ==
    /\ scan.pc = "start"
    /\ nowScanning' = TRUE
    /\ LoRaDevices' =
         LoRaDevices \o [k \in DOMAIN Config |-> [addr |-> Config[k], ip |-> NoIp]]
    /\ scan' = [Rest EXCEPT !.pc = "join", !.gone = Nodes \ reachable]
    /\ joinLate' = (\E q \in asked : q.kind = "join")
    /\ UNCHANGED <<serial, table, ipCount>>
    /\ scanUnchanged

nextDevice == scan' = [scan EXCEPT !.pc = "join", !.i = @ + 1, !.try = 1, !.got = <<>>]

\* Mutant: i-- is missing after the erase.
eraseAndSkip ==
    /\ LoRaDevices' = RemoveAt(LoRaDevices, scan.i)
    /\ scan' = [scan EXCEPT !.pc = "join", !.i = @ + 1, !.try = 1, !.got = <<>>]

\* Mutant: i-- without the erase.
eraseNothing ==
    /\ UNCHANGED LoRaDevices
    /\ scan' = [scan EXCEPT !.pc = "join", !.try = 1, !.got = <<>>]

eraseDevice ==
    /\ LoRaDevices' = RemoveAt(LoRaDevices, scan.i)
    /\ scan' = [scan EXCEPT !.pc = "join", !.try = 1, !.got = <<>>]

\* recvAtResponse takes all that comes until its time is up.
recvAtResponse == port' = <<>>

\* The command is written, and what comes in the next 200 ms, the module's "OK" among it,
\* is taken for the outcome of the command, which is only logged.
sendAtCommand(kind, n) == ask("scan", kind, n) /\ recvAtResponse

\* addNode: ask the module to join the node ...
addNode ==
    /\ scan.pc = "join" /\ Checking
    /\ sendAtCommand("join", Target.addr)
    /\ scan' = [scan EXCEPT !.pc = "joining"]
    /\ UNCHANGED <<broker, making, left, late, table, ipCount, joinLate>>
    /\ scanUnchanged

\* ... and take all that came until the time is up for its answer.
joinAnswer ==
    /\ scan.pc = "joining"
    /\ waited("scan")
    /\ joinLate' = (joinLate \/ ~ Answered("scan"))
    /\ recvAtResponse
    /\ \/ /\ port = <<[kind |-> "JoinOK"]>>
          /\ scan' = [scan EXCEPT !.pc = "clear", !.try = 1]
          /\ UNCHANGED LoRaDevices
       \/ /\ port # <<[kind |-> "JoinOK"]>>
          /\ scan.try < maxRetryTimes
          /\ scan' = [scan EXCEPT !.pc = "join", !.try = @ + 1]
          /\ UNCHANGED LoRaDevices
       \/ /\ port # <<[kind |-> "JoinOK"]>>
          /\ scan.try = maxRetryTimes
          /\ eraseDevice
    /\ UNCHANGED <<nowScanning, making, left, table, ipCount>>
    /\ scanUnchanged

\* checkAlive: have the node's old answers sent, and drop them,
clearEndNodeBuffer ==
    /\ scan.pc = "clear"
    /\ ask("scan", "enquiry", Target.addr)
    /\ scan' = [scan EXCEPT !.pc = "cleared"]
    /\ UNCHANGED <<broker, port, making, left, late, table, ipCount, joinLate>>
    /\ scanUnchanged

\* send SYN,
sendSyn ==
    /\ scan.pc = "cleared"
    /\ waited("scan")
    /\ tell(Target.addr, [kind |-> "ACK"])
    /\ clearComportBuffer
    /\ scan' = [scan EXCEPT !.pc = "enquire"]
    /\ UNCHANGED <<broker, left, table, ipCount, joinLate>>
    /\ scanUnchanged

\* enquire,
enquire ==
    /\ scan.pc = "enquire"
    /\ ask("scan", "enquiry", Target.addr)
    /\ clearComportBuffer
    /\ scan' = [scan EXCEPT !.pc = "acking"]
    /\ UNCHANGED <<broker, making, left, late, table, ipCount, joinLate>>
    /\ scanUnchanged

\* and look at the first thing received.  recvBuffer is not cleared before the next
\* try, so what is first then is what was first the first time.
Received == IF port = <<>> THEN scan.got ELSE Append(scan.got, Head(port))
Acked == port # <<>> /\ Head(Received).kind = "ACK"

checkAlive ==
    /\ scan.pc = "acking"
    /\ received("scan")
    /\ port' = <<>>
    /\ \/ Acked /\ nextDevice /\ UNCHANGED LoRaDevices
       \/ /\ ~ Acked
          /\ scan.try < maxRetryTimes
          /\ scan' = [scan EXCEPT !.pc = "clear", !.try = @ + 1, !.got = Received]
          /\ UNCHANGED LoRaDevices
       \/ ~ Acked /\ scan.try = maxRetryTimes /\ eraseDevice
    /\ UNCHANGED <<nowScanning, making, left, table, ipCount, joinLate>>
    /\ scanUnchanged

allChecked ==
    /\ scan.pc = "join" /\ ~ Checking
    /\ scan' = [scan EXCEPT !.pc = "ask", !.i = 1]
    /\ UNCHANGED <<broker, serial, table, ipCount, joinLate>>
    /\ scanUnchanged

\* Mutant: the answer is not stored.
askInVain ==
    /\ scan.pc = "ask" /\ Checking
    /\ ipCount < MaxIps
    /\ ipCount' = ipCount + 1
    /\ scan' = [scan EXCEPT !.pc = "register"]
    /\ UNCHANGED <<broker, serial, table, joinLate>>
    /\ scanUnchanged

\* A fresh ip from the manager, over a connection of its own (askIoTIp),
askIoTIp ==
    /\ scan.pc = "ask" /\ Checking
    /\ ipCount < MaxIps
    /\ ipCount' = ipCount + 1
    /\ LoRaDevices' = [LoRaDevices EXCEPT ![scan.i].ip = ipCount]
    /\ scan' = [scan EXCEPT !.pc = "register"]
    /\ UNCHANGED <<nowScanning, serial, table, joinLate>>
    /\ scanUnchanged

\* under which the node is registered.  The manager replaces the entry of a DeviceID.
registerDevice ==
    /\ scan.pc = "register"
    /\ table' = [table EXCEPT ![Target.addr] = Target.ip]
    /\ scan' = [scan EXCEPT !.pc = "ask", !.i = @ + 1]
    /\ UNCHANGED <<broker, serial, ipCount, joinLate>>
    /\ scanUnchanged

\* The scan in Start is followed by the start of the main loop.
endScan ==
    /\ scan.pc = "ask" /\ ~ Checking
    /\ nowScanning' = FALSE
    /\ scan' = Rest
    /\ main' = IF main.pc = "off" THEN Waiting ELSE main
    /\ Silent
    /\ UNCHANGED <<LoRaDevices, serial, up, reachable, manager, joinLate>>

ScanAllDevice ==
    /\ up
    /\ \/ loadLoRaConfigFile
       \/ addNode \/ joinAnswer
       \/ clearEndNodeBuffer \/ sendSyn \/ enquire \/ checkAlive
       \/ allChecked \/ askIoTIp \/ registerDevice
       \/ endScan

-----------------------------------------------------------------------------
(* serverLoop.                                                             *)

mainUnchanged == UNCHANGED <<reachable, table, ipCount, requests, rescans, joinLate>>

findDeviceIndex(ip) == SelectInSeq(LoRaDevices, LAMBDA d : d.ip = ip)

Package == Head(main.batch)
nextPackage == [Waiting EXCEPT !.batch = Tail(main.batch),
                         !.pc = IF Len(main.batch) > 1 THEN "handle" ELSE "recv"]

\* Some of what the manager sent.  During a scan it is dropped.
RecviveData ==
    /\ main.pc = "recv"
    /\ \E n \in 1 .. Len(wire) :
         /\ wire' = SubSeq(wire, n + 1, Len(wire))
         /\ main' = IF nowScanning THEN main
                    ELSE [main EXCEPT !.pc = "handle", !.batch = SubSeq(wire, 1, n)]
    /\ Silent
    /\ UNCHANGED <<broker, serial, scan, up>>
    /\ mainUnchanged

\* "rescan": a thread is started, and the next package of the batch is handled.
handleManagerPackage ==
    /\ main.pc = "handle"
    /\ Package.kind = "rescan"
    /\ scan' = [Rest EXCEPT !.pc = "start"]
    /\ main' = nextPackage
    /\ Silent
    /\ UNCHANGED <<broker, serial, up, wire>>
    /\ mainUnchanged

\* A command for an end node: look it up ...
handleForwardingPackage ==
    /\ main.pc = "handle"
    /\ Package.kind = "forward"
    /\ LET i == findDeviceIndex(Package.ip)
       IN  IF i > 0
             THEN /\ main' = [main EXCEPT !.pc = "send", !.index = i, !.alone = scan.pc = "idle"]
                  /\ UNCHANGED port
             ELSE main' = nextPackage /\ clearComportBuffer
    /\ Silent
    /\ UNCHANGED <<broker, making, left, asked, late, scan, up, wire>>
    /\ mainUnchanged

\* ... send it the command (at(index) may throw by now), ...
sendData ==
    /\ main.pc = "send"
    /\ \/ /\ main.index > Len(LoRaDevices)
          /\ up' = FALSE
          /\ UNCHANGED <<serial, main>>
       \/ /\ main.index <= Len(LoRaDevices)
          /\ LET n == LoRaDevices[main.index].addr
             IN  /\ tell(n, [kind |-> "data", node |-> n, req |-> Package.req])
                 /\ main' = [main EXCEPT !.pc = "enquire", !.addr = n,
                                         !.afresh = making[n] = <<>> /\ left[n] = <<>>]
          /\ clearComportBuffer
          /\ UNCHANGED <<left, asked, late, up>>
    /\ Silent
    /\ UNCHANGED <<broker, scan, wire>>
    /\ mainUnchanged

\* Mutant: what came before the enquiry is not dropped.
recvDataUncleared ==
    /\ main.pc = "enquire"
    /\ ask("main", "enquiry", main.addr)
    /\ main' = [main EXCEPT !.pc = "wait", !.alone = @ /\ asked = {}]
    /\ Silent
    /\ UNCHANGED <<broker, port, making, left, late, scan, up, wire>>
    /\ mainUnchanged

\* ... enquire for its response after loraResponseWaitTimeout ...
recvData ==
    /\ main.pc = "enquire"
    /\ ask("main", "enquiry", main.addr)
    /\ clearComportBuffer
    /\ main' = [main EXCEPT !.pc = "wait", !.alone = @ /\ asked = {}]
    /\ Silent
    /\ UNCHANGED <<broker, making, left, late, scan, up, wire>>
    /\ mainUnchanged

\* A value is between a start and an end code; an ACK is not.
hasStartAndEnd(f) == f.kind = "data"

\* ... and pass it on, if it has a start code, within twice that time.
getResponse ==
    /\ main.pc = "wait"
    /\ received("main")
    /\ answer' = IF port # <<>> /\ hasStartAndEnd(Head(port))
                   THEN <<[req |-> Package.req, node |-> main.addr,
                           from |-> Head(port).node, to |-> Head(port).req,
                           alone |-> main.alone, afresh |-> main.afresh]>>
                   ELSE <<>>
    /\ port' = <<>>
    /\ main' = nextPackage
    /\ UNCHANGED <<broker, making, left, scan, up, wire>>
    /\ mainUnchanged

serverLoop ==
    /\ up
    /\ \/ RecviveData
       \/ handleManagerPackage
       \/ handleForwardingPackage \/ sendData \/ recvData \/ getResponse

Module == \E q \in asked : moduleAnswers(q)

Next ==
    \/ ScanAllDevice
    \/ serverLoop
    \/ Module
    \/ Rescan
    \/ \E n \in Nodes : Request(n) \/ Die(n) \/ nodeReplies(n)

\* Both threads, the module and the nodes run.
Fairness ==
    /\ WF_vars(ScanAllDevice) /\ WF_vars(serverLoop) /\ WF_vars(Module)
    /\ \A n \in Nodes : WF_vars(nodeReplies(n))

Spec == Init /\ [][Next]_vars /\ Fairness

-----------------------------------------------------------------------------
(* Properties.                                                             *)

Reply == [kind : {"JoinOK", "ACK"}]
         \cup [kind : {"data"}, node : Nodes, req : 1 .. MaxRequests]
Query == [by : {"scan", "main", "none"}, kind : {"join", "enquiry"}, node : Nodes]
Packages == [kind : {"rescan"}]
            \cup [kind : {"forward"}, ip : 0 .. MaxIps - 1, req : 1 .. MaxRequests]

\* The end nodes, their answers and both threads' locals are what the members of
\* LoRaBroker can be; a scan has a target wherever the code calls at(i).
TypeOK ==
    /\ LoRaDevices \in Seq([addr : Nodes, ip : NoIp .. MaxIps - 1])
    /\ nowScanning \in BOOLEAN
    /\ port \in Seq(Reply)
    /\ making \in [Nodes -> Seq(Reply)] /\ left \in [Nodes -> Seq(Reply)]
    /\ asked \subseteq Query
    /\ scan.i \in 1 .. Len(LoRaDevices) + 1
    /\ scan.try \in 1 .. maxRetryTimes
    /\ scan.pc \notin {"idle", "start", "join", "ask"} => Checking
    /\ main.batch \in Seq(Packages)
    /\ main.pc \in {"handle", "send", "enquire", "wait"} => main.batch # <<>>
    /\ wire \in Seq(Packages)
    /\ table \in [Nodes -> NoIp .. MaxIps - 1]
    /\ up \in BOOLEAN

Listed(n) == \E k \in DOMAIN LoRaDevices : LoRaDevices[k].addr = n

\* Between scans the manager knows every end node that is listed under an ip the
\* broker finds it by, although a rescan lists the nodes of the file once more and
\* registers each entry anew.
ListedNodesFound ==
    /\ TypeOK
    /\ up /\ scan.pc = "idle" =>
           \A n \in Nodes : Listed(n) =>
               \E k \in DOMAIN LoRaDevices :
                   LoRaDevices[k].addr = n /\ LoRaDevices[k].ip = table[n] /\ table[n] # NoIp

\* A response goes to the manager under the command it is the response to, whatever
\* came late before: handleForwardingPackage drops what is at the port before it asks.
\* Not so where it cannot tell.  If the node still owed an earlier reply, that is taken
\* for the response, but it is the node's; if a scan ran, or the module still owed an
\* answer to an earlier enquiry, what is taken may be another node's.
AnswersTrue ==
    answer # <<>> /\ answer[1].alone =>
        /\ answer[1].from = answer[1].node
        /\ answer[1].afresh => answer[1].to = answer[1].req

\* A node that did not answer from the beginning of a scan on is gone after it,
\* wherever it was in the list.  The JoinOK says not of which node it is, so the join
\* of another node must not be answered after the time is up.
DeadNodesGone ==
    [][scan.pc = "ask" /\ scan'.pc = "idle" /\ ~ joinLate =>
         \A n \in scan.gone : ~ Listed(n)]_vars

\* A scan ends: the broker does not drop what the manager sends for ever.
ScanEnds == scan.pc # "idle" ~> scan.pc = "idle" \/ ~ up

\* "try this->maxRetryTimes to get end device ack" (ScanAllDevice): only a node that
\* does not answer is removed.  Not so when a command for an end node, handled while
\* the scan runs, brings something to the port before the node's ACK.
AnsweringNodesKept ==
    [][Len(LoRaDevices') < Len(LoRaDevices) => Target.addr \notin reachable]_vars
=============================================================================
