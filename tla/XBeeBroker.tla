----------------------------- MODULE XBeeBroker -----------------------------
(***************************************************************************)
(* The XBee broker (Broker/XBeeBroker_ApiMode.cpp): nodes of a radio       *)
(* network behind one module at the serial port.  ScanAllDevice discovers  *)
(* the nodes (ND), asks each whether it is alive (SYN) and for its         *)
(* description (DES), and registers it with the manager; serverLoop sends  *)
(* commands of the manager to nodes and their responses back.  The scan    *)
(* runs once in Start and again, in a thread of its own, on "rescan": both *)
(* threads then read the same port.                                        *)
(*                                                                         *)
(* The module confirms what it is given to send (tx), negatively if the    *)
(* node is not there, and then delivers what the node answers (rx).  The   *)
(* broker looks neither at the number of a frame nor at its sender.  A     *)
(* fault is a time-out that passes before a frame came, or a frame lost.   *)
(* A frame is read as a whole: the parser's state, which both threads also *)
(* share, is not modelled.                                                 *)
(***************************************************************************)
EXTENDS Integers, Bags, SequencesExt

CONSTANTS
    Nodes,          \* 64-bit addresses
    maxFailTimes,   \* failed reads that end the discovery
    maxReTryTimes,  \* descriptions with a wrong check sum that end the asking
    MaxEvents,      \* bound: commands the manager forwards, frames late or lost, wrong
                    \* check sums and nodes that leave, taken together
    MaxRescans,     \* bound: "rescan" commands
    MaxIps          \* bound: ips the manager hands out

ASSUME XBeeAssumption ==
    /\ maxFailTimes \in Nat \ {0} /\ maxReTryTimes \in Nat \ {0}
    /\ MaxEvents \in Nat /\ MaxIps \in Nat
    /\ IsFiniteSet(Nodes)
    /\ MaxRescans \in {0, 1}     \* two rescans at once are not modelled

NoIp == -1

VARIABLES
    xbeeDevices, nowScanning,
    port,           \* frames at the serial port
    air,            \* bag of what is under way between the module and the nodes
    scan,           \* pc and locals of ScanAllDevice
    main,           \* pc and locals of serverLoop
    up,             \* FALSE once an exception or undefined behaviour ended the process
    \* around the broker
    reachable,      \* nodes that are there
    wire,           \* packages from the manager
    table,          \* the ip under which the manager knows the device a node describes
    ipCount, requests, rescans,
    answer,         \* response sent by the last step, <<>> if none
    \* history
    faults, wrongSums,
    mixed,          \* a command was handled while a scan ran
    sound           \* nodes there since the scan began, with no wrong check sum

broker == <<xbeeDevices, nowScanning>>
serial == <<port, air>>
manager == <<wire, table, ipCount, requests, rescans>>
vars == <<broker, serial, scan, main, up, reachable, manager, answer, faults, wrongSums, mixed, sound>>

\* The locals of getResponse, with its caller's buffer, and of the threads.  from and asks
\* are history: the first ip since the scan began, and how often DES was sent to the node.
NoResponse == [count |-> 0, result |-> "failed", buf |-> <<>>]
Idle == [pc |-> "idle", fails |-> 0, addrs |-> <<>>, i |-> 1, tries |-> 0,
         got |-> NoResponse, des |-> <<>>, ip |-> NoIp, from |-> 0, asks |-> 0]
Waiting == [pc |-> "recv", batch |-> <<>>, got |-> NoResponse]

\* Start runs the first scan before there is a main loop.
Init ==
    /\ xbeeDevices = <<>>
    /\ nowScanning = FALSE
    /\ port = <<>> /\ air = EmptyBag
    /\ scan = [Idle EXCEPT !.pc = "start"]
    /\ main = [Waiting EXCEPT !.pc = "off"]
    /\ up = TRUE
    /\ reachable = Nodes
    /\ wire = <<>>
    /\ table = [n \in Nodes |-> NoIp]
    /\ ipCount = 0 /\ requests = 0 /\ rescans = 0
    /\ answer = <<>>
    /\ faults = 0 /\ wrongSums = 0 /\ mixed = FALSE /\ sound = {}

Silent == answer' = <<>>
eventsLeft == requests + faults + wrongSums + Cardinality(Nodes \ reachable) < MaxEvents

-----------------------------------------------------------------------------
(* The manager, the module and the nodes.                                  *)

outside == Silent /\ UNCHANGED <<broker, scan, main, up, table, ipCount, mixed>>
noneWrong == UNCHANGED <<wrongSums, sound>>

Request(n) ==
    /\ eventsLeft
    /\ table[n] # NoIp
    /\ requests' = requests + 1
    /\ wire' = Append(wire, [kind |-> "forward", ip |-> table[n], req |-> requests',
                            for |-> n])     \* what the manager means; not sent
    /\ outside
    /\ UNCHANGED <<serial, reachable, rescans, faults>> /\ noneWrong

Rescan ==
    /\ main.pc # "off"
    /\ rescans < MaxRescans
    /\ rescans' = rescans + 1
    /\ wire' = Append(wire, [kind |-> "rescan"])
    /\ outside
    /\ UNCHANGED <<serial, reachable, requests, faults>> /\ noneWrong

Leave(n) ==
    /\ n \in reachable /\ eventsLeft
    /\ reachable' = reachable \ {n}
    /\ sound' = sound \ {n}
    /\ outside
    /\ UNCHANGED <<serial, wire, requests, rescans, faults, wrongSums>>

\* A node answers SYN with ACK, DES with its description, whose check sum may be wrong,
\* and anything else with a value.
Answers(f) ==
    CASE f.what = "SYN" -> {[kind |-> "rx", what |-> "ACK", node |-> f.node]}
      [] f.what = "DES" -> {[kind |-> "rx", what |-> w, node |-> f.node] : w \in {"des", "garbled"}}
      [] f.what = "req" -> {[kind |-> "rx", what |-> "value", node |-> f.node, req |-> f.req]}

Without(f) == air (-) SetToBag({f})

\* The module confirms a transmission; the node that got it answers.
Confirm(f) ==
    /\ f.kind = "send"
    /\ port' = Append(port, [kind |-> "tx", ok |-> f.node \in reachable])
    /\ \/ /\ f.node \in reachable
          /\ \E r \in Answers(f) :
               /\ air' = Without(f) (+) SetToBag({r})
               /\ IF r.what # "garbled" THEN noneWrong
                  ELSE /\ eventsLeft
                       /\ wrongSums' = wrongSums + 1
                       /\ sound' = sound \ {f.node}
       \/ f.node \notin reachable /\ air' = Without(f) /\ noneWrong
    /\ outside
    /\ UNCHANGED <<reachable, wire, requests, rescans, faults>>

Deliver(f) ==
    /\ f.kind # "send"
    /\ port' = Append(port, f)
    /\ air' = Without(f)
    /\ outside
    /\ UNCHANGED <<reachable, wire, requests, rescans, faults>> /\ noneWrong

Lose(f) ==
    /\ eventsLeft
    /\ faults' = faults + 1
    /\ air' = Without(f)
    /\ outside
    /\ UNCHANGED <<port, reachable, wire, requests, rescans>> /\ noneWrong

Module == \E f \in BagToSet(air) : Confirm(f) \/ Deliver(f)

-----------------------------------------------------------------------------
(* The port, as both threads use it.                                       *)

\* sendData; clearComportBuffer is written port' = <<>>.
sendData(f) == air' = air (+) SetToBag({f})

\* The time is up with no frame there, or after at least one was read.
timeOut(read) ==
    /\ port = <<>> \/ read
    /\ \/ port = <<>> /\ air = EmptyBag /\ UNCHANGED faults
       \/ /\ port # <<>> \/ air # EmptyBag
          /\ eventsLeft
          /\ faults' = faults + 1

readPacket == port # <<>> /\ port' = Tail(port) /\ UNCHANGED faults

\* recvResponse: the frame read is of the type expected, and is not a refusal.
recvResponse(expectType) ==
    Head(port).kind = expectType /\ (expectType = "tx" => Head(port).ok)

\* getResponse: a frame that is tx or rx counts, ...
taken(got, f) ==
    IF f.kind = "nd" THEN got
    ELSE [got EXCEPT !.count = @ + 1,
                     !.result = IF f.kind = "rx" \/ f.ok THEN "ok" ELSE @,
                     !.buf = IF f.kind = "rx" THEN Append(@, f) ELSE @]

\* Mutant: one frame ends the wait.
endsEarly(got) == got.count = 1 \/ got.result = "timeout"

\* ... and two of them, or a time-out, end the wait.
ends(got) == got.count = 2 \/ got.result = "timeout"

timedOut(got) == [got EXCEPT !.result = "timeout"]

-----------------------------------------------------------------------------
(* ScanAllDevice, in Start or in the rescan thread.                        *)

scanUnchanged ==
    Silent /\ UNCHANGED <<main, reachable, wire, requests, rescans, wrongSums, mixed>>

Remaining == scan.i <= Len(scan.addrs)
Target == scan.addrs[scan.i]
goTo(pc) == scan' = [scan EXCEPT !.pc = pc]

\* Every node that is there answers the ND.
startScan ==
    /\ scan.pc = "start"
    /\ nowScanning' = TRUE
    /\ port' = <<>>
    /\ air' = air (+) SetToBag({[kind |-> "nd", node |-> n] : n \in reachable})
    /\ scan' = [Idle EXCEPT !.pc = "discover", !.from = ipCount]
    /\ sound' = reachable
    /\ UNCHANGED <<xbeeDevices, up, table, ipCount, faults>>
    /\ scanUnchanged

discoveryFailed ==
    scan' = [scan EXCEPT !.fails = @ + 1,
                         !.pc = IF scan.fails + 1 < maxFailTimes THEN "discover" ELSE "syn"]

\* Another frame than an AT response fails like a time-out.
discover ==
    /\ scan.pc = "discover"
    /\ \/ /\ readPacket
          /\ IF recvResponse("nd")
               THEN scan' = [scan EXCEPT !.addrs = Append(@, Head(port).node)]
               ELSE discoveryFailed
       \/ timeOut(FALSE) /\ UNCHANGED port /\ discoveryFailed
    /\ UNCHANGED <<broker, air, up, table, ipCount, sound>>
    /\ scanUnchanged

\* recvBuffer goes through the loop over the nodes.
sendSyn ==
    /\ scan.pc = "syn" /\ Remaining
    /\ sendData([kind |-> "send", what |-> "SYN", node |-> Target])
    /\ scan' = [scan EXCEPT !.pc = "acking", !.got = [NoResponse EXCEPT !.buf = scan.got.buf]]
    /\ UNCHANGED <<broker, port, up, table, ipCount, faults, sound>>
    /\ scanUnchanged

isAck(buf) == Len(buf) = 1 /\ buf[1].what = "ACK"

\* A response other than ACK is kept in recvBuffer.
synAnswer(got) ==
    scan' = IF ~ ends(got) THEN [scan EXCEPT !.got = got]
            ELSE IF got.result # "ok"
            THEN [scan EXCEPT !.pc = "syn", !.i = @ + 1, !.got = NoResponse]
            ELSE IF isAck(got.buf)
            THEN [scan EXCEPT !.pc = "des", !.got = got, !.tries = 0, !.asks = 0]
            ELSE [scan EXCEPT !.pc = "syn", !.i = @ + 1, !.got = got]

recvAck ==
    /\ scan.pc = "acking"
    /\ \/ readPacket /\ synAnswer(taken(scan.got, Head(port)))
       \/ timeOut(scan.got.count > 0) /\ UNCHANGED port /\ synAnswer(timedOut(scan.got))
    /\ UNCHANGED <<broker, air, up, table, ipCount, sound>>
    /\ scanUnchanged

\* askDeviceDescription: ask, ...
sendDes ==
    /\ scan.pc = "des"
    /\ sendData([kind |-> "send", what |-> "DES", node |-> Target])
    /\ scan' = [scan EXCEPT !.pc = "desTx", !.des = <<>>, !.asks = @ + 1]
    /\ UNCHANGED <<broker, port, up, table, ipCount, faults, sound>>
    /\ scanUnchanged

\* ... expect the confirmation as the first frame, or give the node up, ...
recvTx ==
    /\ scan.pc = "desTx"
    /\ \/ readPacket /\ goTo(IF recvResponse("tx") THEN "desRx" ELSE "ask")
       \/ timeOut(FALSE) /\ UNCHANGED port /\ goTo("ask")
    /\ UNCHANGED <<broker, air, up, table, ipCount, sound>>
    /\ scanUnchanged

\* The sum of an earlier description is not reset: after one that was wrong none is right.
checkSumPasses(buf) == Len(buf) = 1 /\ buf[1].what = "des" /\ scan.tries = 0

hasStartAndEnd(f) == f.what \in {"des", "garbled", "value"}

\* Mutant: one time too many.
checkOnceMore(buf) ==
    /\ IF checkSumPasses(buf)
         THEN scan' = [scan EXCEPT !.pc = "ask", !.des = buf]
         ELSE scan' = [scan EXCEPT !.des = <<>>, !.tries = @ + 1,
                                   !.pc = IF scan.tries < maxReTryTimes THEN "des" ELSE "ask"]
    /\ UNCHANGED up

\* A value of one character alone has no check sum at size() - 2: at throws.
checkDescription(buf) ==
    /\ IF checkSumPasses(buf)
         THEN scan' = [scan EXCEPT !.pc = "ask", !.des = buf]
         ELSE scan' = [scan EXCEPT !.des = <<>>, !.tries = @ + 1,
                                   !.pc = IF scan.tries + 1 < maxReTryTimes THEN "des" ELSE "ask"]
    /\ IF Len(buf) = 1 /\ buf[1].what = "value" THEN up' \in BOOLEAN ELSE UNCHANGED up

\* ... and receive rx frames until one has the start and the end code.  When the time is
\* up with nothing received, erase is called on an empty vector; if the process lives on,
\* it asks again, without counting.
recvData ==
    /\ scan.pc = "desRx"
    /\ \/ /\ readPacket
          /\ LET f == Head(port)
             IN  IF recvResponse("rx") /\ hasStartAndEnd(f)
                   THEN checkDescription(Append(scan.des, f))
                   ELSE /\ scan' = IF recvResponse("rx") THEN [scan EXCEPT !.des = Append(@, f)] ELSE scan
                        /\ UNCHANGED up
       \/ /\ timeOut(scan.des # <<>>)
          /\ scan' = [scan EXCEPT !.pc = "des", !.des = <<>>]
          /\ IF scan.des = <<>> THEN up' \in BOOLEAN ELSE UNCHANGED up
          /\ UNCHANGED port
    /\ UNCHANGED <<broker, air, table, ipCount, sound>>
    /\ scanUnchanged

\* An ip is asked for with or without a description.
askIoTIp ==
    /\ scan.pc = "ask"
    /\ ipCount < MaxIps
    /\ ipCount' = ipCount + 1
    /\ scan' = [scan EXCEPT !.pc = "register", !.ip = ipCount]
    /\ UNCHANGED <<broker, serial, up, table, faults, sound>>
    /\ scanUnchanged

\* Mutant: a node that is listed keeps its ip.
keepOld(n, ip) ==
    IF \E k \in DOMAIN xbeeDevices : xbeeDevices[k].address = n THEN xbeeDevices
    ELSE Append(xbeeDevices, [address |-> n, ip |-> ip])

addNewDevice(n, ip) ==
    LET i == SelectInSeq(xbeeDevices, LAMBDA d : d.address = n)
    IN  IF i > 0 THEN [xbeeDevices EXCEPT ![i].ip = ip]
        ELSE Append(xbeeDevices, [address |-> n, ip |-> ip])

\* The manager replaces its entry of the DeviceID in the description.
registerDevice ==
    /\ scan.pc = "register"
    /\ IF scan.des = <<>> THEN UNCHANGED <<xbeeDevices, table>>
       ELSE /\ xbeeDevices' = addNewDevice(Target, scan.ip)
            /\ table' = [table EXCEPT ![scan.des[1].node] = scan.ip]
    /\ scan' = [scan EXCEPT !.pc = "syn", !.i = @ + 1, !.got = NoResponse, !.des = <<>>, !.ip = NoIp]
    /\ UNCHANGED <<nowScanning, serial, up, ipCount, faults, sound>>
    /\ scanUnchanged

\* The scan in Start is followed by the start of the main loop.
endScan ==
    /\ scan.pc = "syn" /\ ~ Remaining
    /\ nowScanning' = FALSE
    /\ scan' = Idle
    /\ main' = IF main.pc = "off" THEN Waiting ELSE main
    /\ Silent
    /\ sound' = {}
    /\ UNCHANGED <<xbeeDevices, serial, up, reachable, manager, faults, wrongSums, mixed>>

ScanAllDevice ==
    /\ up
    /\ \/ startScan \/ discover
       \/ sendSyn \/ recvAck
       \/ sendDes \/ recvTx \/ recvData
       \/ askIoTIp \/ registerDevice
       \/ endScan

-----------------------------------------------------------------------------
(* serverLoop.                                                             *)

mainUnchanged ==
    UNCHANGED <<broker, reachable, table, ipCount, requests, rescans, wrongSums, sound>>

findDeviceIndex(ip) == SelectInSeq(xbeeDevices, LAMBDA d : d.ip = ip)

Package == Head(main.batch)
nextPackage == [Waiting EXCEPT !.batch = Tail(main.batch),
                         !.pc = IF Len(main.batch) > 1 THEN "handle" ELSE "recv"]

\* Some of what the manager sent.  During a scan it is dropped.
RecviveData ==
    /\ main.pc = "recv"
    /\ \E n \in 1 .. Len(wire) :
         /\ wire' = SubSeq(wire, n + 1, Len(wire))
         /\ main' = IF nowScanning THEN main
                    ELSE [main EXCEPT !.pc = "handle", !.batch = SubSeq(wire, 1, n)]
    /\ Silent
    /\ UNCHANGED <<serial, scan, up, faults, mixed>>
    /\ mainUnchanged

\* "rescan": a thread is started, and the next package of the batch is handled.
handleManagerPackage ==
    /\ main.pc = "handle"
    /\ Package.kind = "rescan"
    /\ scan' = [Idle EXCEPT !.pc = "start"]
    /\ main' = nextPackage
    /\ Silent
    /\ UNCHANGED <<serial, up, wire, faults, mixed>>
    /\ mainUnchanged

\* A command is sent to the node of its ip, if there is one.
handleForwardingPackage ==
    /\ main.pc = "handle"
    /\ Package.kind = "forward"
    /\ LET i == findDeviceIndex(Package.ip)
       IN  IF i > 0
             THEN /\ sendData([kind |-> "send", what |-> "req", req |-> Package.req,
                               node |-> xbeeDevices[i].address])
                  /\ main' = [main EXCEPT !.pc = "wait"]
                  /\ UNCHANGED port
             ELSE main' = nextPackage /\ port' = <<>> /\ UNCHANGED air
    /\ mixed' = (mixed \/ scan.pc # "idle")
    /\ Silent
    /\ UNCHANGED <<scan, up, wire, faults>>
    /\ mainUnchanged

\* Mutant: the confirmation is taken for the response.
answerAtOnce(got) ==
    /\ answer' = IF got.buf # <<>> THEN <<[req |-> Package.req, frames |-> got.buf]>> ELSE <<>>
    /\ main' = [main EXCEPT !.pc = "clear"]

\* What came is passed on.
answerManager(got) ==
    IF ~ ends(got) THEN main' = [main EXCEPT !.got = got] /\ Silent
    ELSE /\ answer' = IF got.result = "ok" /\ got.buf # <<>>
                        THEN <<[req |-> Package.req, frames |-> got.buf]>>
                        ELSE <<>>
         /\ main' = [main EXCEPT !.pc = "clear"]

getResponse ==
    /\ main.pc = "wait"
    /\ \/ readPacket /\ answerManager(taken(main.got, Head(port)))
       \/ timeOut(main.got.count > 0) /\ UNCHANGED port /\ answerManager(timedOut(main.got))
    /\ UNCHANGED <<air, scan, up, wire, mixed>>
    /\ mainUnchanged

clearComportBuffer ==
    /\ main.pc = "clear"
    /\ port' = <<>>
    /\ main' = nextPackage
    /\ Silent
    /\ UNCHANGED <<air, scan, up, wire, faults, mixed>>
    /\ mainUnchanged

serverLoop ==
    /\ up
    /\ \/ RecviveData
       \/ handleManagerPackage
       \/ handleForwardingPackage \/ getResponse \/ clearComportBuffer

Next ==
    \/ ScanAllDevice
    \/ serverLoop
    \/ Module
    \/ \E f \in BagToSet(air) : Lose(f)
    \/ Rescan
    \/ \E n \in Nodes : Request(n) \/ Leave(n)

Spec == Init /\ [][Next]_vars

-----------------------------------------------------------------------------
(* Properties.                                                             *)

Received == [kind : {"rx"}, what : {"ACK", "des", "garbled"}, node : Nodes]
            \cup [kind : {"rx"}, what : {"value"}, node : Nodes, req : 1 .. MaxEvents]
Frame == Received \cup [kind : {"tx"}, ok : BOOLEAN] \cup [kind : {"nd"}, node : Nodes]

\* The members of XBeeBroker_ApiMode and the locals of both threads are what they can
\* be; a scan has a target wherever the code calls at(i).
TypeOK ==
    /\ xbeeDevices \in Seq([address : Nodes, ip : 0 .. MaxIps - 1])
    /\ nowScanning \in BOOLEAN /\ up \in BOOLEAN
    /\ port \in Seq(Frame)
    /\ scan.addrs \in Seq(Nodes)
    /\ scan.got.buf \in Seq(Received) /\ scan.des \in Seq(Received)
    /\ scan.tries \in 0 .. maxReTryTimes
    /\ scan.pc \notin {"idle", "start", "discover", "syn"} => Remaining
    /\ main.got.buf \in Seq(Received)
    /\ main.pc \in {"handle", "wait", "clear"} => main.batch # <<>>
    /\ table \in [Nodes -> NoIp .. MaxIps - 1]

Untroubled == faults = 0 /\ ~ mixed

\* However scans, late and lost frames and commands fall together, no node is listed
\* twice and no ip stands for two nodes.
DevicesDistinct ==
    \A j, k \in DOMAIN xbeeDevices : j # k =>
        xbeeDevices[j].address # xbeeDevices[k].address /\ xbeeDevices[j].ip # xbeeDevices[k].ip

\* The ip under which the manager knows the device a node describes leads to that node,
\* unless a frame was late or lost, or a command was handled during a scan: the answer
\* to DES is not checked for its sender.
RightNode ==
    /\ TypeOK /\ DevicesDistinct
    /\ up /\ Untroubled =>
           \A n \in Nodes : table[n] # NoIp =>
               \E k \in DOMAIN xbeeDevices : xbeeDevices[k] = [address |-> n, ip |-> table[n]]

\* A command that is sent goes to the node the manager means, and the manager gets that
\* node's response to it and nothing else, or none if the node has left; under the same
\* condition.
CommandsAnswered ==
    [][main.pc = "wait" /\ main'.pc = "clear" /\ Untroubled' =>
        LET n == Package.for
            value == [kind |-> "rx", what |-> "value", node |-> n, req |-> Package.req]
        IN  \/ answer' = <<[req |-> Package.req, frames |-> <<value>>]>>
            \/ answer' = <<>> /\ n \notin reachable]_vars

\* A scan finds every node that was there all the time and whose descriptions were right:
\* what the other nodes do, and where they are in the order of discovery, does not matter.
SoundNodesFound ==
    [][scan.pc = "syn" /\ scan'.pc = "idle" /\ Untroubled =>
        \A n \in sound : table[n] >= scan.from]_vars

\* A node is asked for its description maxReTryTimes times, and once more for every frame
\* that was late or lost, unless a command was handled during a scan.  Those times are not
\* counted (tryTimes): a node that confirms DES and never answers holds the scan up for
\* ever, and until a scan ends the broker drops all that the manager sends.
AsksBounded == ~ mixed => scan.asks <= maxReTryTimes + faults
=============================================================================
