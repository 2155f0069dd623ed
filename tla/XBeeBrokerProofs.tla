-------------------------- MODULE XBeeBrokerProofs --------------------------
(***************************************************************************)
(* RightNode, CommandsAnswered, SoundNodesFound and AsksBounded for any     *)
(* number of nodes, any numbers of tries, events and ips.                  *)
(*                                                                         *)
(* The broker looks neither at the number of a frame nor at its sender: it *)
(* gets the right answer because, with no frame late or lost and no command *)
(* during a scan, one thread at a time uses the port, and what is there or *)
(* under way belongs to the request it waits for.                          *)
(***************************************************************************)
EXTENDS XBeeBroker, SequenceLemmas, FiniteSetTheorems

Results == {"failed", "ok", "timeout"}
Responses == [count : Nat, result : Results, buf : Seq(Received)]
ScanPcs == {"idle", "start", "discover", "syn", "acking", "des", "desTx", "desRx", "ask", "register"}
MainPcs == {"off", "recv", "handle", "wait", "clear"}
Scans == [pc : ScanPcs, fails : Nat, addrs : Seq(Nodes), i : Nat, tries : 0 .. maxReTryTimes,
          got : Responses, des : Seq(Received), ip : NoIp .. MaxIps - 1, from : Nat, asks : Nat]
Packages == [kind : {"forward"}, ip : 0 .. MaxIps - 1, req : 1 .. MaxEvents, for : Nodes]
            \cup [kind : {"rescan"}]
Mains == [pc : MainPcs, batch : Seq(Packages), got : Responses]
Device == [address : Nodes, ip : 0 .. MaxIps - 1]
Sends == [kind : {"send"}, what : {"SYN", "DES"}, node : Nodes]
         \cup [kind : {"send"}, what : {"req"}, req : 1 .. MaxEvents, node : Nodes]
Discovered == [kind : {"nd"}, node : Nodes]
UnderWay == BagToSet(air)

\* The types of the port, of what the threads share, and of what is around them.
Serial == port \in Seq(Frame) /\ UnderWay \subseteq Sends \cup Received \cup Discovered
Shared == xbeeDevices \in Seq(Device) /\ nowScanning \in BOOLEAN /\ up \in BOOLEAN
Outside == /\ wire \in Seq(Packages) /\ table \in [Nodes -> NoIp .. MaxIps - 1]
           /\ ipCount \in 0 .. MaxIps /\ requests \in 0 .. MaxEvents
           /\ sound \subseteq reachable /\ reachable \subseteq Nodes
           /\ faults \in Nat /\ wrongSums \in Nat

\* The locals of the threads.
ScanLocals == /\ scan \in Scans
              /\ scan.i \in 1 .. Len(scan.addrs) + 1
              /\ scan.pc = "discover" => scan.i = 1
              /\ scan.pc \notin {"idle", "start", "discover", "syn"} => Remaining
              /\ scan.pc \in {"des", "desTx", "desRx"} => scan.tries < maxReTryTimes
              /\ scan.pc = "register" => scan.ip # NoIp
MainLocals == /\ main \in Mains
              /\ main.pc \in {"off", "recv"} <=> main.batch = <<>>
              /\ main.pc \in {"wait", "clear"} => Package.kind = "forward"

Types == Serial /\ Shared /\ Outside /\ ScanLocals /\ MainLocals

USE XBeeAssumption

-----------------------------------------------------------------------------
(* Bags, frames, responses.                                                *)

LEMMA BagAdd ==
    ASSUME NEW B, NEW S
    PROVE  /\ BagToSet(B (+) SetToBag(S)) = BagToSet(B) \cup S
           /\ \A f \in S : f \notin BagToSet(B) => (B (+) SetToBag(S))[f] = 1
BY DEF (+), SetToBag, BagToSet

LEMMA BagWithout ==
    ASSUME NEW B, NEW f
    PROVE  /\ BagToSet(B (-) SetToBag({f})) \subseteq BagToSet(B)
           /\ (\A g \in BagToSet(B) : B[g] = 1) =>
                 /\ BagToSet(B (-) SetToBag({f})) = BagToSet(B) \ {f}
                 /\ \A g \in BagToSet(B) \ {f} : (B (-) SetToBag({f}))[g] = 1
BY DEF (-), SetToBag, BagToSet

LEMMA BagEmpty == BagToSet(EmptyBag) = {}
BY DEF BagToSet, EmptyBag, SetToBag

\* What the nodes answer.
LEMMA AnswersAre ==
    ASSUME NEW f \in Sends
    PROVE  /\ Answers(f) \subseteq Received
           /\ \A r \in Answers(f) : r.kind = "rx" /\ r.node = f.node /\ f.node \in Nodes
           /\ f.what = "SYN" => \A r \in Answers(f) : r.what = "ACK"
           /\ f.what = "DES" =>
                 \A r \in Answers(f) : r \in {[kind |-> "rx", what |-> w, node |-> f.node] : w \in {"des", "garbled"}}
           /\ f.what = "req" =>
                 Answers(f) = {[kind |-> "rx", what |-> "value", node |-> f.node, req |-> f.req]}
<1>1. CASE f.what = "SYN"
  <2>1. Answers(f) = {[kind |-> "rx", what |-> "ACK", node |-> f.node]}
    BY <1>1 DEF Answers
  <2>2. f.node \in Nodes
    BY DEF Sends
  <2>3. QED
    BY <1>1, <2>1, <2>2 DEF Received
<1>2. CASE f.what = "DES"
  <2>1. Answers(f) = {[kind |-> "rx", what |-> w, node |-> f.node] : w \in {"des", "garbled"}}
    BY <1>2 DEF Answers
  <2>2. f.node \in Nodes
    BY DEF Sends
  <2>3. QED
    BY <1>2, <2>1, <2>2 DEF Received
<1>3. CASE f.what = "req"
  <2>1. Answers(f) = {[kind |-> "rx", what |-> "value", node |-> f.node, req |-> f.req]}
    BY <1>3 DEF Answers
  <2>2. f.node \in Nodes /\ f.req \in 1 .. MaxEvents
    BY <1>3 DEF Sends
  <2>3. QED
    BY <1>3, <2>1, <2>2 DEF Received
<1>4. QED
  BY <1>1, <1>2, <1>3 DEF Sends

\* What is under way and not a transmission is a frame for the port.
LEMMA FrameKinds ==
    /\ \A f \in Sends \cup Received \cup Discovered :
          /\ f.kind = "send" => f \in Sends
          /\ f.kind # "send" => f \in Frame
    /\ \A f \in Frame : /\ f.kind \in {"rx", "tx", "nd"}
                        /\ f.kind = "rx" => f \in Received
                        /\ f.kind = "nd" => f.node \in Nodes
    /\ \A b \in BOOLEAN : [kind |-> "tx", ok |-> b] \in Frame
BY DEF Sends, Received, Discovered, Frame

\* A frame that is read is counted and, if it is a response, kept; a time-out ends the wait.
LEMMA TakenTypes ==
    ASSUME NEW got \in Responses, NEW f \in Frame
    PROVE  taken(got, f) \in Responses
<1>1. got.buf \in Seq(Received) /\ got.count + 1 \in Nat
  BY DEF Responses
<1>2. f.kind = "rx" => Append(got.buf, f) \in Seq(Received)
  BY <1>1, FrameKinds, AppendProperties
<1>3. QED
  BY <1>1, <1>2 DEF taken, Responses, Results

LEMMA TimedOutTypes ==
    ASSUME NEW got \in Responses
    PROVE  timedOut(got) \in Responses
BY DEF timedOut, Responses, Results

LEMMA NoResponseTypes == NoResponse \in Responses
<1>1. <<>> \in Seq(Received)
  BY EmptySeq
<1>2. QED
  BY <1>1 DEF NoResponse, Responses, Results

LEMMA IdleTypes ==
    /\ Idle \in Scans
    /\ Idle.pc = "idle" /\ Idle.i = 1 /\ Idle.addrs = <<>> /\ Idle.got = NoResponse /\ Idle.from = 0
<1>1. <<>> \in Seq(Nodes) /\ <<>> \in Seq(Received)
  BY EmptySeq
<1>2. QED
  BY <1>1, NoResponseTypes DEF Idle, NoIp, Scans, ScanPcs

\* The frame read is the first at the port.
LEMMA ReadFacts ==
    ASSUME Serial, readPacket
    PROVE  Head(port) \in Frame /\ port' \in Seq(Frame)
BY HeadTailProperties DEF Serial, readPacket

LEMMA TimeOutFacts ==
    ASSUME NEW read, timeOut(read), faults \in Nat
    PROVE  faults' \in Nat
BY DEF timeOut

LEMMA TargetFacts ==
    ASSUME ScanLocals, Remaining
    PROVE  scan.i \in 1 .. Len(scan.addrs) /\ Target \in Nodes
<1>1. scan.addrs \in Seq(Nodes) /\ scan.i \in 1 .. Len(scan.addrs)
  BY LenProperties DEF ScanLocals, Scans, Remaining
<1>2. QED
  BY <1>1, ElementOfSeq DEF Target

\* The bound on events bounds the numbers of the commands.
LEMMA EventsBound ==
    ASSUME Outside, eventsLeft
    PROVE  requests + 1 \in 1 .. MaxEvents
<1>1. IsFiniteSet(Nodes \ reachable)
  BY FS_Subset
<1>2. Cardinality(Nodes \ reachable) \in Nat
  BY <1>1, FS_CardinalityType
<1>3. requests \in Nat /\ faults \in Nat /\ wrongSums \in Nat /\ MaxEvents \in Nat
  BY DEF Outside
<1>4. QED
  BY <1>2, <1>3 DEF eventsLeft

\* The broker goes on to the next package of the batch, or waits for the next batch.
LEMMA NextPackage ==
    ASSUME main \in Mains, main.batch # <<>>, main' = nextPackage
    PROVE  /\ main' \in Mains
           /\ main'.batch = Tail(main.batch)
           /\ main'.pc \in {"handle", "recv"}
           /\ main'.pc = "recv" <=> main'.batch = <<>>
           /\ main'.got = NoResponse
<1>1. main.batch \in Seq(Packages)
  BY DEF Mains
<1>2. /\ Tail(main.batch) \in Seq(Packages)
      /\ Len(Tail(main.batch)) = Len(main.batch) - 1
      /\ Len(main.batch) \in Nat \ {0}
  BY <1>1, HeadTailProperties, EmptySeq
<1>3. Tail(main.batch) = <<>> <=> ~ (Len(main.batch) > 1)
  <2> DEFINE n == Len(main.batch)  t == Tail(main.batch)
  <2>1. t \in Seq(Packages) /\ Len(t) = n - 1 /\ n \in Nat \ {0}
    BY <1>2
  <2> HIDE DEF n, t
  <2>2. t = <<>> <=> Len(t) = 0
    BY <2>1, EmptySeq
  <2>3. t = <<>> <=> ~ (n > 1)
    BY <2>1, <2>2
  <2>4. QED
    BY <2>3 DEF n, t
<1>4. /\ main'.batch = Tail(main.batch) /\ main'.got = NoResponse
      /\ main'.pc = IF Len(main.batch) > 1 THEN "handle" ELSE "recv"
      /\ main' = [pc |-> main'.pc, batch |-> main'.batch, got |-> NoResponse]
  BY DEF nextPackage, Waiting
<1>5. QED
  BY <1>2, <1>3, <1>4, NoResponseTypes DEF Mains, MainPcs

LEMMA PackageFacts ==
    ASSUME MainLocals, main.batch # <<>>
    PROVE  /\ Package \in Packages
           /\ Package.kind = "forward" =>
                 Package.req \in 1 .. MaxEvents /\ Package.ip \in 0 .. MaxIps - 1 /\ Package.for \in Nodes
<1>1. Package \in Packages
  BY HeadTailProperties DEF MainLocals, Mains, Package
<1>2. QED
  BY <1>1 DEF Packages

\* What the main loop reads is some of what the manager sent, in order.
LEMMA BatchFacts ==
    ASSUME Outside, NEW n \in 1 .. Len(wire)
    PROVE  /\ SubSeq(wire, 1, n) \in Seq(Packages) /\ SubSeq(wire, n + 1, Len(wire)) \in Seq(Packages)
           /\ Len(SubSeq(wire, 1, n)) = n /\ SubSeq(wire, 1, n) # <<>>
           /\ \A k \in 1 .. n : SubSeq(wire, 1, n)[k] = wire[k]
           /\ Len(SubSeq(wire, n + 1, Len(wire))) = Len(wire) - n
           /\ \A k \in 1 .. Len(wire) - n : SubSeq(wire, n + 1, Len(wire))[k] = wire[n + k]
<1>1. wire \in Seq(Packages) /\ Len(wire) \in Nat /\ n \in Nat /\ 1 <= n /\ n <= Len(wire)
  BY LenProperties DEF Outside
<1>2. /\ SubSeq(wire, 1, n) \in Seq(Packages)
      /\ Len(SubSeq(wire, 1, n)) = n
      /\ \A k \in 1 .. n : SubSeq(wire, 1, n)[k] = wire[k]
  BY <1>1, SubSeqProperties
<1>3. /\ SubSeq(wire, n + 1, Len(wire)) \in Seq(Packages)
      /\ Len(SubSeq(wire, n + 1, Len(wire))) = Len(wire) - n
      /\ \A k \in 1 .. Len(wire) - n : SubSeq(wire, n + 1, Len(wire))[k] = wire[n + k]
  BY <1>1, SubSeqProperties
<1>4. QED
  BY <1>1, <1>2, <1>3, EmptySeq

\* The entry that the ip of a command, or the address of a node, is looked up to.
LEMMA DeviceFound ==
    ASSUME Shared, NEW ip
    PROVE  /\ findDeviceIndex(ip) \in 0 .. Len(xbeeDevices)
           /\ findDeviceIndex(ip) > 0 => xbeeDevices[findDeviceIndex(ip)].ip = ip
<1> DEFINE I == {k \in 1 .. Len(xbeeDevices) : xbeeDevices[k].ip = ip}
<1>1. Len(xbeeDevices) \in Nat /\ I \in SUBSET (1 .. Len(xbeeDevices))
  BY LenProperties DEF Shared
<1>2. findDeviceIndex(ip) = IF I # {} THEN Min(I) ELSE 0
  BY DEF findDeviceIndex, SelectInSeq
<1>3. \A k \in I : xbeeDevices[k].ip = ip
  OBVIOUS
<1> HIDE DEF I
<1>4. QED
  BY <1>1, <1>2, <1>3, FirstIndex

\* addNewDevice: one entry is the node's, with its new ip; the others are as they were.
LEMMA DeviceAdded ==
    ASSUME Shared, DevicesDistinct, NEW n \in Nodes, NEW ip \in 0 .. MaxIps - 1
    PROVE  /\ addNewDevice(n, ip) \in Seq(Device)
           /\ \E i \in DOMAIN addNewDevice(n, ip) :
                /\ addNewDevice(n, ip)[i] = [address |-> n, ip |-> ip]
                /\ DOMAIN addNewDevice(n, ip) = DOMAIN xbeeDevices \cup {i}
                /\ \A k \in DOMAIN xbeeDevices : k # i => addNewDevice(n, ip)[k] = xbeeDevices[k]
                /\ \A k \in DOMAIN xbeeDevices : k # i <=> xbeeDevices[k].address # n
<1> DEFINE I == {k \in 1 .. Len(xbeeDevices) : xbeeDevices[k].address = n}
           j == SelectInSeq(xbeeDevices, LAMBDA d : d.address = n)
<1>1. /\ Len(xbeeDevices) \in Nat /\ DOMAIN xbeeDevices = 1 .. Len(xbeeDevices)
      /\ \A k \in 1 .. Len(xbeeDevices) : xbeeDevices[k] \in Device
      /\ [address |-> n, ip |-> ip] \in Device
  BY LenProperties, ElementOfSeq DEF Shared, Device
<1>2. j = IF I # {} THEN Min(I) ELSE 0
  BY DEF SelectInSeq
<1>3. \A k \in 1 .. Len(xbeeDevices) : k \in I <=> xbeeDevices[k].address = n
  OBVIOUS
<1>4. I \in SUBSET (1 .. Len(xbeeDevices))
  OBVIOUS
<1>5. addNewDevice(n, ip) = IF j > 0 THEN [xbeeDevices EXCEPT ![j].ip = ip]
                            ELSE Append(xbeeDevices, [address |-> n, ip |-> ip])
  BY DEF addNewDevice
<1> HIDE DEF I, j
<1>6. /\ j \in 0 .. Len(xbeeDevices) /\ (j > 0 => j \in I) /\ (j = 0 => I = {})
  BY <1>1, <1>2, <1>4, FirstIndex
<1>7. CASE j > 0
  <2> DEFINE new == [xbeeDevices EXCEPT ![j].ip = ip]
  <2>1. j \in 1 .. Len(xbeeDevices) /\ xbeeDevices[j].address = n
    BY <1>1, <1>3, <1>6, <1>7
  <2>2. xbeeDevices \in [1 .. Len(xbeeDevices) -> Device]
    BY <1>1, SeqDef, LenProperties DEF Shared
  <2>3. [xbeeDevices[j] EXCEPT !.ip = ip] = [address |-> n, ip |-> ip]
    BY <1>1, <2>1 DEF Device
  <2>4. new = [xbeeDevices EXCEPT ![j] = [address |-> n, ip |-> ip]]
    BY <2>1, <2>2, <2>3
  <2> HIDE DEF new
  <2>5. /\ new \in [1 .. Len(xbeeDevices) -> Device]
        /\ new[j] = [address |-> n, ip |-> ip]
        /\ \A k \in 1 .. Len(xbeeDevices) : k # j => new[k] = xbeeDevices[k]
    BY <1>1, <2>1, <2>2, <2>4
  <2>6. new \in Seq(Device)
    BY <1>1, <2>5, FunctionIsSeq
  <2>d. \A k \in DOMAIN xbeeDevices : k # j => xbeeDevices[k].address # n
    BY <1>1, <2>1 DEF DevicesDistinct
  <2>7. addNewDevice(n, ip) = new
    BY <1>5, <1>7 DEF new
  <2>8. DOMAIN new = DOMAIN xbeeDevices \cup {j}
    BY <1>1, <2>1, <2>5
  <2>9. QED
    BY <1>1, <2>1, <2>5, <2>6, <2>7, <2>8, <2>d
<1>8. CASE ~ (j > 0)
  <2> DEFINE new == Append(xbeeDevices, [address |-> n, ip |-> ip])
  <2>1. /\ new \in Seq(Device) /\ Len(new) = Len(xbeeDevices) + 1
        /\ \A k \in 1 .. Len(xbeeDevices) : new[k] = xbeeDevices[k]
        /\ new[Len(xbeeDevices) + 1] = [address |-> n, ip |-> ip]
    BY <1>1, AppendContents DEF Shared
  <2> HIDE DEF new
  <2>2. DOMAIN new = 1 .. Len(xbeeDevices) + 1
    BY <2>1, LenProperties
  <2>3. I = {}
    BY <1>6, <1>8
  <2>4. \A k \in 1 .. Len(xbeeDevices) : xbeeDevices[k].address # n
    BY <1>3, <2>3
  <2>5. DOMAIN new = DOMAIN xbeeDevices \cup {Len(xbeeDevices) + 1}
    BY <1>1, <2>2
  <2>6. Len(xbeeDevices) + 1 \in DOMAIN new /\ Len(xbeeDevices) + 1 \notin DOMAIN xbeeDevices
    BY <1>1, <2>2
  <2>7. addNewDevice(n, ip) = new
    BY <1>5, <1>8 DEF new
  <2>8. QED
    BY <1>1, <2>1, <2>4, <2>5, <2>6, <2>7
<1>9. QED
  BY <1>7, <1>8

-----------------------------------------------------------------------------
(* Types.                                                                  *)

LEMMA InitTypes == Init => Types
<1> SUFFICES ASSUME Init PROVE Types
  OBVIOUS
<1>1. /\ <<>> \in Seq(Device) /\ <<>> \in Seq(Frame) /\ <<>> \in Seq(Packages)
      /\ <<>> \in Seq(Nodes) /\ <<>> \in Seq(Received) /\ Len(<<>>) = 0
  BY EmptySeq
<1>2. Shared
  BY <1>1 DEF Init, Shared
<1>3. Serial
  BY <1>1, BagEmpty DEF Init, Serial, UnderWay
<1>4. Outside
  <2>1. NoIp \in NoIp .. MaxIps - 1
    BY DEF NoIp
  <2>2. QED
    BY <1>1, <2>1 DEF Init, Outside
<1>5. scan = [Idle EXCEPT !.pc = "start"]
  BY DEF Init
<1>6. ScanLocals
  <2>1. scan \in Scans /\ scan.pc = "start" /\ scan.i = 1 /\ scan.addrs = <<>>
    BY <1>5, IdleTypes DEF Scans, ScanPcs
  <2>3. QED
    BY <1>1, <2>1 DEF ScanLocals
<1>7. MainLocals
  BY <1>1, NoResponseTypes DEF Init, Waiting, MainLocals, Mains, MainPcs
<1>8. QED
  BY <1>2, <1>3, <1>4, <1>6, <1>7 DEF Types

\* The manager, the module and the nodes.
LEMMA OutsideLeaves ==
    ASSUME Module \/ (\E f \in UnderWay : Lose(f)) \/ Rescan \/ \E n \in Nodes : Request(n) \/ Leave(n)
    PROVE  /\ UNCHANGED <<xbeeDevices, nowScanning, scan, main, up, table, ipCount, mixed>>
           /\ answer' = <<>>
BY DEF Module, UnderWay, Confirm, Deliver, Lose, Rescan, Request, Leave, outside, broker, Silent

LEMMA OutsideTypes ==
    ASSUME Types, Module \/ (\E f \in UnderWay : Lose(f)) \/ Rescan \/ \E n \in Nodes : Request(n) \/ Leave(n)
    PROVE  Types'
<1>0. UNCHANGED <<xbeeDevices, nowScanning, scan, main, up, table, ipCount, mixed>>
  BY OutsideLeaves
<1>1. ScanLocals' /\ MainLocals' /\ Shared'
  BY <1>0 DEF Types, ScanLocals, MainLocals, Shared, Remaining, Package
<1>f. /\ faults \in Nat /\ wrongSums \in Nat /\ faults + 1 \in Nat /\ wrongSums + 1 \in Nat
      /\ sound \subseteq reachable /\ reachable \subseteq Nodes
  BY DEF Types, Outside
<1>o. ASSUME wire' = wire, UNCHANGED requests, reachable' = reachable, sound' \subseteq sound,
             faults' \in Nat, wrongSums' \in Nat
      PROVE  Outside'
  BY <1>0, <1>o DEF Types, Outside
<1>2. ASSUME NEW f \in UnderWay, Confirm(f) PROVE Types'
  <2>1. f \in Sends /\ UNCHANGED <<reachable, wire, requests, rescans, faults>>
    BY <1>2, FrameKinds DEF Confirm, Types, Serial
  <2>2. port' = Append(port, [kind |-> "tx", ok |-> f.node \in reachable])
    BY <1>2 DEF Confirm
  <2>3. port' \in Seq(Frame)
    <3>1. [kind |-> "tx", ok |-> TRUE] \in Frame /\ [kind |-> "tx", ok |-> FALSE] \in Frame
      BY FrameKinds
    <3>2. port' = Append(port, [kind |-> "tx", ok |-> TRUE]) \/ port' = Append(port, [kind |-> "tx", ok |-> FALSE])
      <4>1. (f.node \in reachable) = TRUE \/ (f.node \in reachable) = FALSE
        OBVIOUS
      <4>2. QED
        BY <2>2, <4>1
    <3>3. port \in Seq(Frame)
      BY DEF Types, Serial
    <3>4. QED
      BY <3>1, <3>2, <3>3, AppendProperties
  <2>4. /\ wrongSums' \in Nat /\ sound' \subseteq sound
        /\ \/ air' = Without(f)
           \/ \E r \in Answers(f) : air' = Without(f) (+) SetToBag({r})
    BY <1>2, <1>f DEF Confirm, noneWrong
  <2>5. UnderWay' \subseteq UnderWay \cup Answers(f)
    <3>1. BagToSet(Without(f)) \subseteq BagToSet(air)
      BY BagWithout DEF Without
    <3>2. \A r : BagToSet(Without(f) (+) SetToBag({r})) = BagToSet(Without(f)) \cup {r}
      BY BagAdd
    <3>3. QED
      BY <2>4, <3>1, <3>2 DEF UnderWay
  <2>6. Serial'
    BY <2>1, <2>3, <2>5, AnswersAre DEF Types, Serial
  <2>7. QED
    BY <1>1, <1>f, <1>o, <2>1, <2>4, <2>6 DEF Types
<1>3. ASSUME NEW f \in UnderWay, Deliver(f) PROVE Types'
  <2>1. /\ UNCHANGED <<reachable, wire, requests, rescans, faults, wrongSums, sound>>
        /\ port' = Append(port, f) /\ air' = Without(f) /\ f \in Frame
    BY <1>3, FrameKinds DEF Deliver, noneWrong, Types, Serial
  <2>2. Serial'
    BY <2>1, BagWithout, AppendProperties DEF Types, Serial, UnderWay, Without
  <2>3. QED
    BY <1>1, <1>f, <1>o, <2>1, <2>2 DEF Types
<1>4. ASSUME NEW f \in UnderWay, Lose(f) PROVE Types'
  <2>1. /\ UNCHANGED <<port, reachable, wire, requests, rescans, wrongSums, sound>>
        /\ faults' = faults + 1 /\ air' = Without(f)
    BY <1>4 DEF Lose, noneWrong
  <2>2. Serial'
    BY <2>1, BagWithout DEF Types, Serial, UnderWay, Without
  <2>3. QED
    BY <1>1, <1>f, <1>o, <2>1, <2>2 DEF Types
<1>5. CASE Rescan
  <2>1. /\ UNCHANGED <<serial, reachable, requests, faults, wrongSums, sound>>
        /\ wire' = Append(wire, [kind |-> "rescan"])
    BY <1>5 DEF Rescan, noneWrong
  <2>2. [kind |-> "rescan"] \in Packages
    BY DEF Packages
  <2>3. wire' \in Seq(Packages)
    BY <2>1, <2>2, AppendProperties DEF Types, Outside
  <2>4. QED
    BY <1>0, <1>1, <2>1, <2>3 DEF Types, Serial, Outside, serial, UnderWay
<1>6. ASSUME NEW n \in Nodes, Request(n) PROVE Types'
  <2>1. /\ UNCHANGED <<serial, reachable, rescans, faults, wrongSums, sound>>
        /\ eventsLeft /\ requests' = requests + 1 /\ table[n] # NoIp
        /\ wire' = Append(wire, [kind |-> "forward", ip |-> table[n], req |-> requests', for |-> n])
    BY <1>6 DEF Request, noneWrong
  <2>2. requests' \in 1 .. MaxEvents /\ table[n] \in 0 .. MaxIps - 1
    BY <2>1, EventsBound DEF Types, Outside, NoIp
  <2>3. [kind |-> "forward", ip |-> table[n], req |-> requests', for |-> n] \in Packages
    BY <2>2 DEF Packages
  <2>4. wire' \in Seq(Packages)
    BY <2>1, <2>3, AppendProperties DEF Types, Outside
  <2>5. QED
    BY <1>0, <1>1, <2>1, <2>2, <2>4 DEF Types, Serial, Outside, serial, UnderWay
<1>7. ASSUME NEW n \in Nodes, Leave(n) PROVE Types'
  <2>1. /\ UNCHANGED <<serial, wire, requests, faults, wrongSums>>
        /\ reachable' = reachable \ {n} /\ sound' = sound \ {n}
    BY <1>7 DEF Leave
  <2>2. QED
    BY <1>0, <1>1, <2>1 DEF Types, Serial, Outside, serial, UnderWay
<1>8. QED
  BY <1>2, <1>3, <1>4, <1>5, <1>6, <1>7 DEF Module, UnderWay

\* The scan's own steps leave the main loop and what is around the broker alone.
LEMMA ScanLeaves ==
    ASSUME ScanAllDevice
    PROVE  /\ UNCHANGED <<reachable, wire, requests, rescans, wrongSums, mixed>> /\ up
           /\ scan.pc # "idle"
           /\ answer' = <<>>
           /\ endScan \/ main' = main
BY DEF ScanAllDevice, startScan, discover, sendSyn, recvAck, sendDes, recvTx, recvData, askIoTIp,
   registerDevice, endScan, scanUnchanged, Silent, manager

\* Steps of a scan that leave what the manager and the rest of the broker hold alone.
LEMMA ScanMoves ==
    ASSUME Types, ScanAllDevice, UNCHANGED <<xbeeDevices, nowScanning, table, ipCount, sound, main>>,
           up' \in BOOLEAN, faults' \in Nat, Serial', ScanLocals'
    PROVE  Types'
BY ScanLeaves DEF Types, Shared, Outside, MainLocals, Package

\* A read, or a time-out, as a scan does it.
LEMMA Reads ==
    ASSUME Types, UNCHANGED air,
           \/ readPacket
           \/ UNCHANGED port /\ \E read \in BOOLEAN : timeOut(read)
    PROVE  Serial' /\ faults' \in Nat
<1>1. faults \in Nat /\ Serial
  BY DEF Types, Outside
<1>2. faults' \in Nat
  BY <1>1, TimeOutFacts DEF readPacket
<1>3. port' \in Seq(Frame)
  BY <1>1, ReadFacts DEF Serial
<1>4. QED
  BY <1>1, <1>2, <1>3 DEF Serial, UnderWay

\* A transmission is under way.
LEMMA SendTypes ==
    ASSUME Types, NEW f \in Sends, air' = air (+) SetToBag({f}), UNCHANGED port
    PROVE  Serial'
<1>1. BagToSet(air (+) SetToBag({f})) = BagToSet(air) \cup {f}
  BY BagAdd
<1>2. QED
  BY <1>1 DEF Types, Serial, UnderWay

\* A scan stays at its node, or goes on to the next.
LEMMA ScanStays ==
    ASSUME Types, Remaining, scan' \in Scans, scan'.addrs = scan.addrs,
           scan'.pc # "register",
           scan'.pc \in {"des", "desTx", "desRx"} => scan'.tries < maxReTryTimes,
           \/ scan'.i = scan.i /\ scan'.pc \notin {"idle", "start", "discover"}
           \/ scan'.i = scan.i + 1 /\ scan'.pc = "syn"
    PROVE  ScanLocals'
<1>1. scan.i \in 1 .. Len(scan.addrs) /\ Len(scan.addrs) \in Nat
  BY LenProperties DEF Types, ScanLocals, Scans, Remaining
<1>2. QED
  BY <1>1 DEF ScanLocals, Remaining

LEMMA ScanTypes == ASSUME Types, DevicesDistinct, ScanAllDevice PROVE Types'
<1>0. /\ scan \in Scans /\ scan.i \in 1 .. Len(scan.addrs) + 1 /\ Len(scan.addrs) \in Nat
      /\ scan.addrs \in Seq(Nodes) /\ scan.got \in Responses /\ scan.des \in Seq(Received)
      /\ scan.tries \in 0 .. maxReTryTimes /\ scan.fails \in Nat /\ scan.i \in Nat
      /\ scan.from \in Nat /\ scan.asks \in Nat
      /\ scan.pc \notin {"idle", "start", "discover", "syn"} => Remaining
      /\ <<>> \in Seq(Received) /\ <<>> \in Seq(Frame)
      /\ Serial /\ ipCount \in Nat /\ faults \in Nat /\ up \in BOOLEAN
  BY LenProperties, EmptySeq DEF Types, ScanLocals, Scans, Outside, Shared
<1>n. /\ scan.i + 1 \in Nat /\ scan.fails + 1 \in Nat /\ scan.asks + 1 \in Nat /\ 0 \in 0 .. maxReTryTimes
      /\ scan.tries < maxReTryTimes => scan.tries + 1 \in 0 .. maxReTryTimes
  <2>1. scan.i \in Nat /\ scan.fails \in Nat /\ scan.asks \in Nat
        /\ scan.tries \in 0 .. maxReTryTimes /\ maxReTryTimes \in Nat
    BY <1>0
  <2>2. QED
    BY <2>1
<1>1. CASE startScan
  <2>1. /\ UNCHANGED <<xbeeDevices, table, ipCount, faults, up, main>> /\ nowScanning' = TRUE
        /\ port' = <<>> /\ sound' = reachable
        /\ air' = air (+) SetToBag({[kind |-> "nd", node |-> n] : n \in reachable})
        /\ scan' = [Idle EXCEPT !.pc = "discover", !.from = ipCount]
    BY <1>1 DEF startScan, scanUnchanged
  <2>2. /\ scan' \in Scans /\ scan'.pc = "discover" /\ scan'.i = 1 /\ scan'.addrs = <<>>
    BY <1>0, <2>1, IdleTypes DEF Scans, ScanPcs
  <2>3. ScanLocals'
    BY <2>2, EmptySeq DEF ScanLocals
  <2>4. Serial'
    <3> DEFINE R == {[kind |-> "nd", node |-> n] : n \in reachable}
    <3>1. R \subseteq Discovered
      BY DEF Types, Outside, Discovered
    <3>2. air' = air (+) SetToBag(R)
      BY <2>1
    <3> HIDE DEF R
    <3>3. UnderWay' = UnderWay \cup R
      BY <3>2, BagAdd DEF UnderWay
    <3>4. QED
      BY <1>0, <2>1, <3>1, <3>3 DEF Serial
  <2>5. QED
    BY <1>1, <2>1, <2>3, <2>4, ScanLeaves DEF ScanAllDevice, Types, Shared, Outside, MainLocals, Package
<1>2. CASE discover
  <2>1. /\ UNCHANGED <<xbeeDevices, nowScanning, air, table, ipCount, sound, up, main>> /\ scan.pc = "discover"
        /\ readPacket \/ (UNCHANGED port /\ timeOut(FALSE))
        /\ \/ readPacket /\ Head(port).kind = "nd" /\ scan' = [scan EXCEPT !.addrs = Append(@, Head(port).node)]
           \/ discoveryFailed
    BY <1>2 DEF discover, broker, scanUnchanged, recvResponse
  <2>2. /\ scan' \in Scans /\ scan'.pc \in {"discover", "syn"} /\ scan'.i = scan.i /\ scan.i = 1
    <3>1. CASE discoveryFailed
      BY <1>0, <1>n, <2>1, <3>1 DEF discoveryFailed, Scans, ScanPcs, Types, ScanLocals
    <3>2. CASE ~ discoveryFailed
      <4>1. Head(port).node \in Nodes
        BY <1>0, <2>1, <3>2, ReadFacts, FrameKinds
      <4>2. Append(scan.addrs, Head(port).node) \in Seq(Nodes)
        BY <1>0, <4>1, AppendProperties
      <4>3. QED
        BY <2>1, <3>2, <4>2 DEF Types, ScanLocals, Scans, ScanPcs
    <3>3. QED
      BY <3>1, <3>2
  <2>3. Len(scan'.addrs) \in Nat
    BY <2>2, LenProperties DEF Scans
  <2>4. ScanLocals'
    BY <2>2, <2>3 DEF ScanLocals
  <2>5. QED
    BY <1>0, <2>1, <2>4, Reads, ScanMoves
<1>3. CASE sendSyn
  <2>1. /\ UNCHANGED <<xbeeDevices, nowScanning, port, table, ipCount, sound, up, faults, main>> /\ Remaining
        /\ sendData([kind |-> "send", what |-> "SYN", node |-> Target])
        /\ scan' = [scan EXCEPT !.pc = "acking", !.got = [NoResponse EXCEPT !.buf = scan.got.buf]]
    BY <1>3 DEF sendSyn, broker, scanUnchanged
  <2>2. [NoResponse EXCEPT !.buf = scan.got.buf] \in Responses
    BY <1>0 DEF NoResponse, Responses, Results
  <2>3. scan' \in Scans /\ scan'.pc = "acking" /\ scan'.i = scan.i /\ scan'.addrs = scan.addrs
    BY <1>0, <2>1, <2>2 DEF Scans, ScanPcs
  <2>4. ScanLocals'
    BY <2>1, <2>3, ScanStays
  <2>5. [kind |-> "send", what |-> "SYN", node |-> Target] \in Sends
    BY <2>1, TargetFacts DEF Types, Sends
  <2>6. Serial'
    BY <2>1, <2>5, SendTypes DEF sendData
  <2>7. QED
    BY <1>0, <2>1, <2>4, <2>6, ScanMoves
<1>4. CASE recvAck
  <2>1. /\ UNCHANGED <<xbeeDevices, nowScanning, air, table, ipCount, sound, up, main>> /\ scan.pc = "acking"
        /\ \/ readPacket /\ synAnswer(taken(scan.got, Head(port)))
           \/ timeOut(scan.got.count > 0) /\ UNCHANGED port /\ synAnswer(timedOut(scan.got))
    BY <1>4 DEF recvAck, broker, scanUnchanged
  <2>2. PICK got \in Responses : synAnswer(got)
    BY <1>0, <2>1, ReadFacts, TakenTypes, TimedOutTypes
  <2>3. \/ scan' = [scan EXCEPT !.got = got]
        \/ scan' = [scan EXCEPT !.pc = "syn", !.i = @ + 1, !.got = NoResponse]
        \/ scan' = [scan EXCEPT !.pc = "des", !.got = got, !.tries = 0, !.asks = 0]
        \/ scan' = [scan EXCEPT !.pc = "syn", !.i = @ + 1, !.got = got]
    BY <2>2 DEF synAnswer
  <2>4. /\ scan' \in Scans /\ scan'.addrs = scan.addrs
        /\ scan'.pc \in {"des", "desTx", "desRx"} => scan'.tries < maxReTryTimes
        /\ \/ scan'.i = scan.i /\ scan'.pc \in {"acking", "des"}
           \/ scan'.i = scan.i + 1 /\ scan'.pc = "syn"
    <3>1. CASE scan' = [scan EXCEPT !.got = got]
      BY <1>0, <2>1, <3>1 DEF Scans, ScanPcs
    <3>2. CASE scan' = [scan EXCEPT !.pc = "des", !.got = got, !.tries = 0, !.asks = 0]
      <4>1. 0 < maxReTryTimes
        OBVIOUS
      <4>2. QED
        BY <1>0, <1>n, <3>2, <4>1 DEF Scans, ScanPcs
    <3>3. ASSUME NEW any \in Responses, scan' = [scan EXCEPT !.pc = "syn", !.i = @ + 1, !.got = any]
          PROVE  scan' \in Scans /\ scan'.addrs = scan.addrs /\ scan'.i = scan.i + 1 /\ scan'.pc = "syn"
      BY <1>0, <1>n, <3>3 DEF Scans, ScanPcs
    <3>4. QED
      BY <2>3, <3>1, <3>2, <3>3, NoResponseTypes
  <2>5. ScanLocals'
    BY <1>0, <2>1, <2>4, ScanStays
  <2>6. Serial' /\ faults' \in Nat
    <3>1. (scan.got.count > 0) \in BOOLEAN
      OBVIOUS
    <3>2. QED
      BY <2>1, <3>1, Reads
  <2>7. QED
    BY <1>0, <2>1, <2>5, <2>6, ScanMoves
<1>5. CASE sendDes
  <2>1. /\ UNCHANGED <<xbeeDevices, nowScanning, port, table, ipCount, sound, up, faults, main>> /\ scan.pc = "des"
        /\ sendData([kind |-> "send", what |-> "DES", node |-> Target])
        /\ scan' = [scan EXCEPT !.pc = "desTx", !.des = <<>>, !.asks = @ + 1]
    BY <1>5 DEF sendDes, broker, scanUnchanged
  <2>2. scan' \in Scans /\ scan'.pc = "desTx" /\ scan'.i = scan.i /\ scan'.addrs = scan.addrs /\ scan'.tries = scan.tries
    BY <1>0, <1>n, <2>1 DEF Scans, ScanPcs
  <2>3. Remaining /\ scan.tries < maxReTryTimes
    BY <1>0, <2>1 DEF Types, ScanLocals
  <2>4. ScanLocals'
    BY <2>2, <2>3, ScanStays
  <2>5. [kind |-> "send", what |-> "DES", node |-> Target] \in Sends
    BY <2>3, TargetFacts DEF Types, Sends
  <2>6. Serial'
    BY <2>1, <2>5, SendTypes DEF sendData
  <2>7. QED
    BY <1>0, <2>1, <2>4, <2>6, ScanMoves
<1>6. CASE recvTx
  <2>1. /\ UNCHANGED <<xbeeDevices, nowScanning, air, table, ipCount, sound, up, main>> /\ scan.pc = "desTx"
        /\ readPacket \/ (UNCHANGED port /\ timeOut(FALSE))
        /\ goTo("desRx") \/ goTo("ask")
    BY <1>6 DEF recvTx, broker, scanUnchanged
  <2>2. /\ scan' \in Scans /\ scan'.pc \in {"desRx", "ask"} /\ scan'.i = scan.i /\ scan'.addrs = scan.addrs
        /\ scan'.tries = scan.tries
    BY <1>0, <2>1 DEF goTo, Scans, ScanPcs
  <2>3. Remaining /\ scan.tries < maxReTryTimes
    BY <1>0, <2>1 DEF Types, ScanLocals
  <2>4. ScanLocals'
    BY <2>2, <2>3, ScanStays
  <2>5. QED
    BY <1>0, <2>1, <2>4, Reads, ScanMoves
<1>7. CASE recvData
  <2>1. /\ UNCHANGED <<xbeeDevices, nowScanning, air, table, ipCount, sound, main>> /\ scan.pc = "desRx"
        /\ readPacket \/ (UNCHANGED port /\ timeOut(scan.des # <<>>))
    BY <1>7 DEF recvData, broker, scanUnchanged
  <2>2. Remaining /\ scan.tries < maxReTryTimes
    BY <1>0, <2>1 DEF Types, ScanLocals
  <2>3. up' \in BOOLEAN
    BY <1>0, <1>7 DEF recvData, checkDescription
  <2>4. \/ readPacket /\ scan' = scan
        \/ /\ readPacket /\ Head(port).kind = "rx"
           /\ \/ scan' = [scan EXCEPT !.des = Append(@, Head(port))]
              \/ scan' = [scan EXCEPT !.pc = "ask", !.des = Append(scan.des, Head(port))]
              \/ scan' = [scan EXCEPT !.des = <<>>, !.tries = @ + 1,
                                      !.pc = IF scan.tries + 1 < maxReTryTimes THEN "des" ELSE "ask"]
        \/ scan' = [scan EXCEPT !.pc = "des", !.des = <<>>]
    BY <1>7 DEF recvData, checkDescription, recvResponse
  <2>5. readPacket /\ Head(port).kind = "rx" => Append(scan.des, Head(port)) \in Seq(Received)
    BY <1>0, ReadFacts, FrameKinds, AppendProperties
  <2>6. /\ scan' \in Scans /\ scan'.addrs = scan.addrs /\ scan'.i = scan.i
        /\ scan'.pc \in {"desRx", "des", "ask"}
        /\ scan'.pc \in {"des", "desRx"} => scan'.tries < maxReTryTimes
    <3>1. CASE scan' = scan
      BY <1>0, <2>1, <2>2, <3>1
    <3>2. CASE /\ readPacket /\ Head(port).kind = "rx"
               /\ \/ scan' = [scan EXCEPT !.des = Append(@, Head(port))]
                  \/ scan' = [scan EXCEPT !.pc = "ask", !.des = Append(scan.des, Head(port))]
      BY <1>0, <2>1, <2>2, <2>5, <3>2 DEF Scans, ScanPcs
    <3>3. CASE scan' = [scan EXCEPT !.des = <<>>, !.tries = @ + 1,
                                    !.pc = IF scan.tries + 1 < maxReTryTimes THEN "des" ELSE "ask"]
      BY <1>0, <1>n, <2>2, <3>3 DEF Scans, ScanPcs
    <3>4. CASE scan' = [scan EXCEPT !.pc = "des", !.des = <<>>]
      BY <1>0, <2>2, <3>4 DEF Scans, ScanPcs
    <3>5. QED
      BY <2>4, <3>1, <3>2, <3>3, <3>4
  <2>7. ScanLocals'
    BY <2>2, <2>6, ScanStays
  <2>8. Serial' /\ faults' \in Nat
    <3>1. (scan.des # <<>>) \in BOOLEAN
      OBVIOUS
    <3>2. QED
      BY <2>1, <3>1, Reads
  <2>9. QED
    BY <2>1, <2>3, <2>7, <2>8, ScanMoves
<1>8. CASE askIoTIp
  <2>1. /\ UNCHANGED <<xbeeDevices, nowScanning, serial, table, sound, up, faults, main>> /\ scan.pc = "ask"
        /\ ipCount < MaxIps /\ ipCount' = ipCount + 1
        /\ scan' = [scan EXCEPT !.pc = "register", !.ip = ipCount]
    BY <1>8 DEF askIoTIp, broker, scanUnchanged
  <2>2. ipCount' \in 0 .. MaxIps /\ ipCount \in 0 .. MaxIps - 1 /\ ipCount # NoIp /\ ipCount \in NoIp .. MaxIps - 1
    <3>1. ipCount \in 0 .. MaxIps /\ MaxIps \in Nat
      BY DEF Types, Outside
    <3>2. ipCount < MaxIps /\ ipCount' = ipCount + 1
      BY <2>1
    <3>3. QED
      BY <3>1, <3>2 DEF NoIp
  <2>3. /\ scan' \in Scans /\ scan'.pc = "register" /\ scan'.ip = ipCount /\ scan'.i = scan.i /\ scan'.addrs = scan.addrs
    BY <1>0, <2>1, <2>2 DEF Scans, ScanPcs
  <2>4. ScanLocals'
    BY <1>0, <2>1, <2>2, <2>3 DEF ScanLocals, Remaining
  <2>5. QED
    BY <1>8, <2>1, <2>2, <2>4, ScanLeaves DEF ScanAllDevice, Types, Serial, Shared, Outside, MainLocals, Package,
       serial, UnderWay
<1>9. CASE registerDevice
  <2>1. /\ UNCHANGED <<nowScanning, serial, sound, up, faults, ipCount, main>> /\ scan.pc = "register"
        /\ scan' = [scan EXCEPT !.pc = "syn", !.i = @ + 1, !.got = NoResponse, !.des = <<>>, !.ip = NoIp]
        /\ \/ UNCHANGED <<xbeeDevices, table>>
           \/ /\ scan.des # <<>>
              /\ xbeeDevices' = addNewDevice(Target, scan.ip)
              /\ table' = [table EXCEPT ![scan.des[1].node] = scan.ip]
    BY <1>9 DEF registerDevice, scanUnchanged
  <2>2. Remaining /\ scan.ip \in 0 .. MaxIps - 1
    <3>1. Remaining /\ scan.ip # NoIp /\ scan.ip \in NoIp .. MaxIps - 1
      BY <2>1 DEF Types, ScanLocals, Scans
    <3>2. QED
      BY <3>1 DEF NoIp
  <2>3. NoIp \in NoIp .. MaxIps - 1
    BY DEF NoIp
  <2>4. /\ scan' \in Scans /\ scan'.pc = "syn" /\ scan'.i = scan.i + 1 /\ scan'.addrs = scan.addrs
    BY <1>0, <1>n, <2>1, <2>3, NoResponseTypes DEF Scans, ScanPcs
  <2>5. ScanLocals'
    BY <2>2, <2>4, ScanStays
  <2>6. xbeeDevices' \in Seq(Device)
    BY <2>1, <2>2, TargetFacts, DeviceAdded DEF Types, Shared
  <2>7. table' \in [Nodes -> NoIp .. MaxIps - 1]
    <3>1. table \in [Nodes -> NoIp .. MaxIps - 1] /\ scan.ip \in NoIp .. MaxIps - 1
      BY <2>2 DEF Types, Outside, NoIp
    <3>2. table' = table \/ table' = [table EXCEPT ![scan.des[1].node] = scan.ip]
      BY <2>1
    <3>3. QED
      BY <3>1, <3>2
  <2>8. QED
    BY <1>9, <2>1, <2>5, <2>6, <2>7, ScanLeaves DEF ScanAllDevice, Types, Serial, Shared, Outside, MainLocals,
       Package, serial, UnderWay
<1>10. CASE endScan
  <2>1. /\ UNCHANGED <<xbeeDevices, serial, up, reachable, manager, faults, wrongSums>>
        /\ nowScanning' = FALSE /\ scan' = Idle /\ sound' = {}
        /\ main' = main \/ (main.pc = "off" /\ main' = Waiting)
    BY <1>10 DEF endScan
  <2>2. MainLocals'
    <3>1. <<>> \in Seq(Packages)
      BY EmptySeq
    <3>2. QED
      BY <2>1, <3>1, NoResponseTypes DEF Types, MainLocals, Mains, MainPcs, Waiting, Package
  <2>3. ScanLocals'
    BY <2>1, IdleTypes, EmptySeq DEF ScanLocals
  <2>4. QED
    BY <2>1, <2>2, <2>3 DEF Types, Serial, Shared, Outside, serial, manager, UnderWay
<1>11. QED
  BY <1>1, <1>2, <1>3, <1>4, <1>5, <1>6, <1>7, <1>8, <1>9, <1>10 DEF ScanAllDevice

LEMMA MainLeaves ==
    ASSUME serverLoop
    PROVE  /\ UNCHANGED <<xbeeDevices, nowScanning, reachable, table, ipCount, requests, rescans, wrongSums, sound>>
           /\ up /\ up' = up
BY DEF serverLoop, RecviveData, handleManagerPackage, handleForwardingPackage, getResponse,
   clearComportBuffer, mainUnchanged, broker

\* What the main loop keeps while it waits for a response.
LEMMA AnswerFacts ==
    ASSUME MainLocals, main.pc = "wait", NEW got \in Responses, answerManager(got)
    PROVE  /\ main' \in Mains /\ main'.batch = main.batch
           /\ \/ ~ ends(got) /\ main'.pc = "wait" /\ main'.got = got /\ answer' = <<>>
              \/ ends(got) /\ main'.pc = "clear" /\ main'.got = main.got
<1>1. main \in Mains
  BY DEF MainLocals
<1>2. CASE ~ ends(got)
  <2>1. main' = [main EXCEPT !.got = got] /\ answer' = <<>>
    BY <1>2 DEF answerManager, Silent
  <2>2. QED
    BY <1>1, <1>2, <2>1 DEF Mains, MainPcs
<1>3. CASE ends(got)
  <2>1. main' = [main EXCEPT !.pc = "clear"]
    BY <1>3 DEF answerManager
  <2>2. QED
    BY <1>1, <1>3, <2>1 DEF Mains, MainPcs
<1>4. QED
  BY <1>2, <1>3

LEMMA MainTypes == ASSUME Types, serverLoop PROVE Types'
<1>0. /\ UNCHANGED <<xbeeDevices, nowScanning, reachable, table, ipCount, requests, up, wrongSums, sound>>
      /\ main \in Mains /\ Serial /\ wire \in Seq(Packages) /\ <<>> \in Seq(Frame) /\ faults \in Nat
  BY MainLeaves, EmptySeq DEF Types, Outside, MainLocals
<1>1. ASSUME main.batch # <<>>, main' = nextPackage PROVE MainLocals'
  BY <1>0, <1>1, NextPackage DEF MainLocals
<1>2. CASE RecviveData
  <2>1. PICK n \in 1 .. Len(wire) :
          /\ wire' = SubSeq(wire, n + 1, Len(wire))
          /\ main' = IF nowScanning THEN main
                     ELSE [main EXCEPT !.pc = "handle", !.batch = SubSeq(wire, 1, n)]
    BY <1>2 DEF RecviveData
  <2>2. main.pc = "recv" /\ UNCHANGED <<serial, scan, faults>>
    BY <1>2 DEF RecviveData
  <2>3. wire' \in Seq(Packages) /\ SubSeq(wire, 1, n) \in Seq(Packages) /\ SubSeq(wire, 1, n) # <<>>
    BY <2>1, BatchFacts DEF Types
  <2>4. MainLocals'
    BY <1>0, <2>1, <2>2, <2>3 DEF Types, MainLocals, Mains, MainPcs, Package
  <2>5. QED
    BY <1>0, <2>2, <2>3, <2>4 DEF Types, Serial, Shared, Outside, ScanLocals, Remaining, serial, UnderWay
<1>3. CASE handleManagerPackage
  <2>1. /\ main.pc = "handle" /\ main' = nextPackage /\ UNCHANGED <<serial, wire, faults>>
        /\ scan' = [Idle EXCEPT !.pc = "start"]
    BY <1>3 DEF handleManagerPackage
  <2>2. MainLocals'
    BY <1>1, <2>1 DEF Types, MainLocals
  <2>3. scan' \in Scans /\ scan'.pc = "start" /\ scan'.i = 1 /\ scan'.addrs = <<>>
    BY <2>1, IdleTypes DEF Scans, ScanPcs
  <2>4. ScanLocals'
    BY <2>3, EmptySeq DEF ScanLocals
  <2>5. QED
    BY <1>0, <2>1, <2>2, <2>4 DEF Types, Serial, Shared, Outside, serial, UnderWay
<1>4. CASE handleForwardingPackage
  <2> DEFINE i == findDeviceIndex(Package.ip)
             f == [kind |-> "send", what |-> "req", req |-> Package.req, node |-> xbeeDevices[i].address]
  <2>1. /\ main.pc = "handle" /\ Package.kind = "forward" /\ UNCHANGED <<scan, wire, faults>>
        /\ \/ i > 0 /\ sendData(f) /\ main' = [main EXCEPT !.pc = "wait"] /\ UNCHANGED port
           \/ main' = nextPackage /\ port' = <<>> /\ UNCHANGED air
    BY <1>4 DEF handleForwardingPackage
  <2>2. i > 0 => f \in Sends
    <3>1. ASSUME i > 0 PROVE xbeeDevices[i].address \in Nodes
      <4>1. i \in 1 .. Len(xbeeDevices)
        BY <3>1, DeviceFound, LenProperties DEF Types, Shared
      <4>2. xbeeDevices[i] \in Device
        BY <4>1, ElementOfSeq DEF Types, Shared
      <4>3. QED
        BY <4>2 DEF Device
    <3>2. Package.req \in 1 .. MaxEvents
      BY <2>1, PackageFacts DEF Types, MainLocals
    <3>3. QED
      BY <3>1, <3>2 DEF Sends
  <2> HIDE DEF f, i
  <2>3. Serial'
    <3>1. CASE i > 0 /\ sendData(f) /\ UNCHANGED port
      BY <2>2, <3>1, SendTypes DEF sendData
    <3>2. CASE port' = <<>> /\ UNCHANGED air
      BY <1>0, <3>2 DEF Serial, UnderWay
    <3>3. QED
      BY <2>1, <3>1, <3>2
  <2>4. MainLocals'
    <3>1. CASE main' = nextPackage
      BY <1>1, <2>1, <3>1 DEF Types, MainLocals
    <3>2. CASE main' = [main EXCEPT !.pc = "wait"]
      <4>1. main' \in Mains /\ main'.pc = "wait" /\ main'.batch = main.batch
        BY <1>0, <3>2 DEF Mains, MainPcs
      <4>2. QED
        BY <2>1, <4>1 DEF Types, MainLocals, Package
    <3>3. QED
      BY <2>1, <3>1, <3>2
  <2>5. QED
    BY <1>0, <2>1, <2>3, <2>4 DEF Types, Shared, Outside, ScanLocals, Remaining
<1>5. CASE getResponse
  <2>1. /\ main.pc = "wait" /\ UNCHANGED <<air, scan, wire>>
        /\ \/ readPacket /\ answerManager(taken(main.got, Head(port)))
           \/ timeOut(main.got.count > 0) /\ UNCHANGED port /\ answerManager(timedOut(main.got))
    BY <1>5 DEF getResponse
  <2>2. PICK got \in Responses : answerManager(got)
    BY <1>0, <2>1, ReadFacts, TakenTypes, TimedOutTypes DEF Mains
  <2>3. main' \in Mains /\ main'.batch = main.batch /\ main'.pc \in {"wait", "clear"}
    BY <2>1, <2>2, AnswerFacts DEF Types
  <2>4. MainLocals'
    BY <2>1, <2>3 DEF Types, MainLocals, Package
  <2>5. Serial' /\ faults' \in Nat
    <3>1. (main.got.count > 0) \in BOOLEAN
      OBVIOUS
    <3>2. QED
      BY <2>1, <3>1, Reads
  <2>6. QED
    BY <1>0, <2>1, <2>4, <2>5 DEF Types, Shared, Outside, ScanLocals, Remaining
<1>6. CASE clearComportBuffer
  <2>1. main.pc = "clear" /\ main' = nextPackage /\ port' = <<>> /\ UNCHANGED <<air, scan, wire, faults>>
    BY <1>6 DEF clearComportBuffer
  <2>2. MainLocals'
    BY <1>1, <2>1 DEF Types, MainLocals
  <2>3. QED
    BY <1>0, <2>1, <2>2 DEF Types, Serial, Shared, Outside, ScanLocals, Remaining, UnderWay
<1>7. QED
  BY <1>2, <1>3, <1>4, <1>5, <1>6 DEF serverLoop

LEMMA TypesStep == ASSUME Types, DevicesDistinct, [Next]_vars PROVE Types'
<1>1. CASE UNCHANGED vars
  BY <1>1 DEF vars, broker, serial, manager, Types, Serial, Shared, Outside, ScanLocals, MainLocals, Remaining,
     Package, UnderWay
<1>2. QED
  BY <1>1, ScanTypes, MainTypes, OutsideTypes DEF Next, UnderWay

LEMMA TypeOKHolds == ASSUME Types PROVE TypeOK
<1>1. /\ scan.addrs \in Seq(Nodes) /\ scan.got.buf \in Seq(Received) /\ scan.des \in Seq(Received)
      /\ scan.tries \in 0 .. maxReTryTimes /\ main.got.buf \in Seq(Received)
  BY DEF Types, ScanLocals, MainLocals, Scans, Mains, Responses
<1>2. /\ scan.pc \notin {"idle", "start", "discover", "syn"} => Remaining
      /\ main.pc \in {"handle", "wait", "clear"} => main.batch # <<>>
  BY DEF Types, ScanLocals, MainLocals
<1>3. QED
  BY <1>1, <1>2 DEF TypeOK, Types, Serial, Shared, Outside, Device

-----------------------------------------------------------------------------
(* One scan at a time: there is at most one "rescan" on its way to the main *)
(* loop, and the scan of Start has ended by then.                          *)

RescansIn(s) == {k \in DOMAIN s : s[k].kind = "rescan"}
OneRescan ==
    /\ rescans \in {0, 1}
    /\ RescansIn(wire) # {} \/ RescansIn(main.batch) # {} => scan.pc = "idle" /\ rescans = 1
    /\ RescansIn(wire) = {} \/ RescansIn(main.batch) = {}
    /\ \A j, k \in RescansIn(wire) : j = k
    /\ \A j, k \in RescansIn(main.batch) : j = k
    /\ main.pc # "off" /\ rescans = 0 => scan.pc = "idle"
    /\ main.pc = "off" => rescans = 0

\* What the main loop does with its batch and its state.
LEMMA MainMoves ==
    ASSUME Types, serverLoop
    PROVE  /\ main.pc # "off" /\ main'.pc # "off"
           /\ \/ RecviveData
              \/ main.batch # <<>> /\ main' = nextPackage /\ wire' = wire
              \/ main'.batch = main.batch /\ wire' = wire
           /\ \/ handleManagerPackage /\ main.batch # <<>> /\ main' = nextPackage /\ wire' = wire
              \/ scan' = scan
<1>1. main \in Mains
  BY DEF Types, MainLocals
<1>2. CASE RecviveData
  BY <1>1, <1>2 DEF RecviveData, Mains
<1>3. CASE handleManagerPackage \/ clearComportBuffer
  <2>1. /\ main.pc \in {"handle", "clear"} /\ main' = nextPackage /\ wire' = wire
        /\ handleManagerPackage \/ scan' = scan
    BY <1>3 DEF handleManagerPackage, clearComportBuffer
  <2>2. main.batch # <<>>
    BY <2>1 DEF Types, MainLocals
  <2>3. QED
    BY <1>1, <2>1, <2>2, NextPackage
<1>4. CASE handleForwardingPackage
  <2>1. /\ main.pc = "handle" /\ UNCHANGED <<wire, scan>>
        /\ main' = nextPackage \/ main' = [main EXCEPT !.pc = "wait"]
    BY <1>4 DEF handleForwardingPackage
  <2>2. main.batch # <<>>
    BY <2>1 DEF Types, MainLocals
  <2>3. CASE main' = nextPackage
    BY <1>1, <2>1, <2>2, <2>3, NextPackage
  <2>4. CASE main' # nextPackage
    BY <1>1, <2>1, <2>4 DEF Mains
  <2>5. QED
    BY <2>3, <2>4
<1>5. CASE getResponse
  <2>1. /\ main.pc = "wait" /\ UNCHANGED <<scan, wire>>
        /\ \E got : answerManager(got)
    BY <1>5 DEF getResponse
  <2>2. main' = [main EXCEPT !.pc = "clear"] \/ \E got : main' = [main EXCEPT !.got = got]
    BY <2>1 DEF answerManager
  <2>3. QED
    BY <1>1, <2>1, <2>2 DEF Mains
<1>6. QED
  BY <1>2, <1>3, <1>4, <1>5 DEF serverLoop

\* The "rescan" packages left when the first package is taken.
LEMMA RescansInTail ==
    ASSUME NEW s \in Seq(Packages), s # <<>>
    PROVE  \A k \in RescansIn(Tail(s)) : k + 1 \in RescansIn(s) /\ k \in Nat \ {0}
<1>1. /\ Tail(s) \in Seq(Packages) /\ Len(Tail(s)) = Len(s) - 1 /\ Len(s) \in Nat
      /\ \A k \in 1 .. Len(Tail(s)) : Tail(s)[k] = s[k + 1]
      /\ DOMAIN s = 1 .. Len(s) /\ DOMAIN Tail(s) = 1 .. Len(Tail(s))
  BY HeadTailProperties, LenProperties
<1>2. QED
  BY <1>1 DEF RescansIn

LEMMA OneRescanStep == ASSUME Types, OneRescan, [Next]_vars PROVE OneRescan'
<1>0. /\ wire \in Seq(Packages) /\ main.batch \in Seq(Packages) /\ main \in Mains
      /\ DOMAIN wire = 1 .. Len(wire) /\ Len(wire) \in Nat
      /\ RescansIn(<<>>) = {}
  BY LenProperties, EmptySeq DEF Types, Outside, MainLocals, Mains, RescansIn
<1>1. CASE UNCHANGED <<wire, main, scan, rescans>>
  BY <1>1 DEF OneRescan, RescansIn
<1>2. CASE ScanAllDevice
  <2>1. UNCHANGED <<wire, rescans>> /\ scan.pc # "idle"
    BY <1>2, ScanLeaves
  <2>2. RescansIn(wire) = {} /\ RescansIn(main.batch) = {} /\ (main.pc = "off" \/ rescans = 1)
    BY <2>1 DEF OneRescan
  <2>3. CASE main' = main
    BY <2>1, <2>2, <2>3 DEF OneRescan
  <2>4. CASE main' # main
    <3>1. endScan
      BY <1>2, <2>4, ScanLeaves
    <3>2. main'.pc = "recv" /\ main'.batch = <<>> /\ scan'.pc = "idle"
      BY <2>4, <3>1, IdleTypes DEF endScan, Waiting
    <3>3. QED
      BY <1>0, <2>1, <2>2, <3>2 DEF OneRescan
  <2>5. QED
    BY <2>3, <2>4
<1>3. CASE serverLoop
  <2>1. /\ main.pc # "off" /\ main'.pc # "off" /\ rescans' = rescans
    BY <1>3, MainMoves, MainLeaves
  <2>2. CASE RecviveData
    <3>1. PICK n \in 1 .. Len(wire) :
            /\ wire' = SubSeq(wire, n + 1, Len(wire))
            /\ main' = IF nowScanning THEN main
                       ELSE [main EXCEPT !.pc = "handle", !.batch = SubSeq(wire, 1, n)]
      BY <2>2 DEF RecviveData
    <3>2. main.pc = "recv" /\ scan' = scan
      BY <2>2 DEF RecviveData
    <3>3. RescansIn(main.batch) = {}
      BY <1>0, <3>2 DEF Types, MainLocals
    <3>4. \A k \in RescansIn(wire') : n + k \in RescansIn(wire) /\ k \in Nat \ {0}
      <4>1. /\ wire' \in Seq(Packages) /\ Len(wire') = Len(wire) - n
            /\ \A k \in 1 .. Len(wire) - n : wire'[k] = wire[n + k]
        BY <3>1, BatchFacts DEF Types
      <4>2. DOMAIN wire' = 1 .. Len(wire) - n
        BY <4>1, LenProperties
      <4>3. QED
        BY <1>0, <4>1, <4>2 DEF RescansIn
    <3>5. \/ main'.batch = main.batch
          \/ \A k \in RescansIn(main'.batch) : k \in RescansIn(wire) /\ k \in 1 .. n
      <4>1. CASE nowScanning
        BY <3>1, <4>1
      <4>2. CASE ~ nowScanning
        <5>1. main'.batch = SubSeq(wire, 1, n)
          BY <1>0, <3>1, <4>2 DEF Mains
        <5>2. /\ SubSeq(wire, 1, n) \in Seq(Packages) /\ Len(SubSeq(wire, 1, n)) = n
              /\ \A k \in 1 .. n : SubSeq(wire, 1, n)[k] = wire[k]
          BY BatchFacts DEF Types
        <5>3. DOMAIN SubSeq(wire, 1, n) = 1 .. n
          BY <5>2, LenProperties
        <5>4. QED
          BY <1>0, <5>1, <5>2, <5>3 DEF RescansIn
      <4>3. QED
        BY <4>1, <4>2
    <3>6. \A j, k \in RescansIn(wire) : j = k
      BY DEF OneRescan
    <3>7. \A j, k \in RescansIn(wire') : j = k
      BY <3>4, <3>6
    <3>8. \A j, k \in RescansIn(main'.batch) : j = k
      BY <3>3, <3>5, <3>6
    <3>9. RescansIn(wire') = {} \/ RescansIn(main'.batch) = {}
      <4>1. ASSUME NEW j \in RescansIn(wire'), NEW k \in RescansIn(main'.batch) PROVE FALSE
        <5>1. k \in RescansIn(wire) /\ k \in 1 .. n
          BY <3>3, <3>5, <4>1
        <5>2. n + j = k /\ j \in Nat \ {0}
          BY <3>4, <3>6, <4>1, <5>1
        <5>3. QED
          BY <5>1, <5>2
      <4>2. QED
        BY <4>1
    <3>10. RescansIn(wire') # {} \/ RescansIn(main'.batch) # {} => RescansIn(wire) # {}
      BY <3>3, <3>4, <3>5
    <3>11. QED
      BY <2>1, <3>2, <3>7, <3>8, <3>9, <3>10 DEF OneRescan
  <2>3. CASE main.batch # <<>> /\ main' = nextPackage /\ wire' = wire
    <3>1. main'.batch = Tail(main.batch)
      BY <1>0, <2>3, NextPackage
    <3>2. \A k \in RescansIn(main'.batch) : k + 1 \in RescansIn(main.batch) /\ k \in Nat \ {0}
      BY <1>0, <2>3, <3>1, RescansInTail
    <3>3. \A j, k \in RescansIn(main'.batch) : j = k
      BY <3>2 DEF OneRescan
    <3>4. CASE scan' = scan
      BY <2>1, <2>3, <3>2, <3>3, <3>4 DEF OneRescan
    <3>5. CASE handleManagerPackage
      <4>1. main.batch[1].kind = "rescan" /\ 1 \in DOMAIN main.batch
        BY <1>0, <2>3, <3>5, HeadTailProperties, LenProperties, EmptySeq DEF handleManagerPackage, Package
      <4>2. 1 \in RescansIn(main.batch)
        BY <4>1 DEF RescansIn
      <4>3. RescansIn(main'.batch) = {} /\ RescansIn(wire') = {} /\ rescans = 1
        BY <2>3, <3>2, <4>2 DEF OneRescan
      <4>4. QED
        BY <2>1, <4>3 DEF OneRescan
    <3>6. QED
      BY <1>3, <3>4, <3>5, MainMoves
  <2>4. CASE main'.batch = main.batch /\ wire' = wire /\ ~ (main.batch # <<>> /\ main' = nextPackage)
    <3>1. scan' = scan
      <4>1. ASSUME handleManagerPackage PROVE main.batch # <<>> /\ main' = nextPackage
        BY <4>1 DEF handleManagerPackage, Types, MainLocals
      <4>2. QED
        BY <1>3, <2>4, <4>1, MainMoves
    <3>2. QED
      BY <2>1, <2>4, <3>1 DEF OneRescan
  <2>5. QED
    BY <1>3, <2>2, <2>3, <2>4, MainMoves
<1>4. CASE Rescan
  <2>1. /\ main.pc # "off" /\ rescans < MaxRescans /\ rescans' = rescans + 1
        /\ wire' = Append(wire, [kind |-> "rescan"]) /\ UNCHANGED <<scan, main>>
    BY <1>4 DEF Rescan, outside
  <2>2. rescans = 0 /\ rescans' = 1 /\ scan.pc = "idle"
    BY <2>1 DEF OneRescan
  <2>3. RescansIn(wire) = {} /\ RescansIn(main.batch) = {}
    BY <2>2 DEF OneRescan
  <2>4. /\ wire' \in Seq(Packages) /\ Len(wire') = Len(wire) + 1
        /\ \A k \in 1 .. Len(wire) : wire'[k] = wire[k]
    <3>1. [kind |-> "rescan"] \in Packages
      BY DEF Packages
    <3>2. QED
      BY <1>0, <2>1, <3>1, AppendContents
  <2>5. DOMAIN wire' = 1 .. Len(wire) + 1
    BY <2>4, LenProperties
  <2>6. RescansIn(wire') \subseteq {Len(wire) + 1}
    BY <1>0, <2>3, <2>4, <2>5 DEF RescansIn
  <2>7. QED
    BY <2>1, <2>2, <2>3, <2>6 DEF OneRescan
<1>5. ASSUME NEW n \in Nodes, Request(n) PROVE OneRescan'
  <2> DEFINE r == [kind |-> "forward", ip |-> table[n], req |-> requests', for |-> n]
  <2>1. wire' = Append(wire, r) /\ UNCHANGED <<scan, main, rescans>>
    BY <1>5 DEF Request, outside
  <2>2. r \in Packages /\ r.kind # "rescan"
    <3>1. requests' \in 1 .. MaxEvents /\ table[n] \in 0 .. MaxIps - 1
      BY <1>5, EventsBound DEF Request, Types, Outside, NoIp
    <3>2. QED
      BY <3>1 DEF Packages
  <2> HIDE DEF r
  <2>3. /\ wire' \in Seq(Packages) /\ Len(wire') = Len(wire) + 1 /\ wire'[Len(wire) + 1] = r
        /\ \A k \in 1 .. Len(wire) : wire'[k] = wire[k]
    BY <1>0, <2>1, <2>2, AppendContents
  <2>4. DOMAIN wire' = 1 .. Len(wire) + 1
    BY <2>3, LenProperties
  <2>5. RescansIn(wire') = RescansIn(wire)
    BY <1>0, <2>2, <2>3, <2>4 DEF RescansIn
  <2>6. QED
    BY <2>1, <2>5 DEF OneRescan
<1>6. CASE UNCHANGED vars \/ Module \/ (\E f \in BagToSet(air) : Lose(f)) \/ \E n \in Nodes : Leave(n)
  BY <1>1, <1>6 DEF vars, manager, Module, Confirm, Deliver, Lose, Leave, outside
<1>7. QED
  BY <1>2, <1>3, <1>4, <1>5, <1>6 DEF Next

-----------------------------------------------------------------------------
(* The packages the broker has yet to handle, and the ips the manager gave. *)

InHand == ToSet(wire) \cup ToSet(main.batch)

LEMMA TailSet ==
    ASSUME NEW S, NEW s \in Seq(S), s # <<>>
    PROVE  Head(s) \in ToSet(s) /\ ToSet(Tail(s)) \subseteq ToSet(s)
<1>1. /\ Tail(s) \in Seq(S) /\ Len(Tail(s)) = Len(s) - 1 /\ Len(s) \in Nat \ {0} /\ Head(s) = s[1]
      /\ \A k \in 1 .. Len(Tail(s)) : Tail(s)[k] = s[k + 1]
      /\ DOMAIN s = 1 .. Len(s) /\ DOMAIN Tail(s) = 1 .. Len(Tail(s))
  BY HeadTailProperties, LenProperties, EmptySeq
<1>2. \A k \in 1 .. Len(s) - 1 : k + 1 \in DOMAIN s /\ Tail(s)[k] = s[k + 1]
  BY <1>1
<1>3. ToSet(Tail(s)) \subseteq ToSet(s)
  BY <1>1, <1>2 DEF ToSet
<1>4. Head(s) \in ToSet(s)
  BY <1>1 DEF ToSet
<1>5. QED
  BY <1>3, <1>4

\* A package to handle was there, or comes from the manager in this step.
LEMMA InHandStep ==
    ASSUME Types, [Next]_vars
    PROVE  \A p \in InHand' :
             \/ p \in InHand
             \/ p.kind = "rescan"
             \/ \E n \in Nodes :
                  /\ Request(n)
                  /\ p = [kind |-> "forward", ip |-> table[n], req |-> requests', for |-> n]
<1>0. /\ wire \in Seq(Packages) /\ main.batch \in Seq(Packages) /\ main \in Mains
      /\ ToSet(<<>>) = {}
      /\ DOMAIN wire = 1 .. Len(wire) /\ Len(wire) \in Nat
  BY LenProperties DEF Types, Outside, MainLocals, Mains, ToSet
<1>1. CASE UNCHANGED <<wire, main>>
  BY <1>1 DEF InHand
<1>2. CASE ScanAllDevice
  <2>1. wire' = wire /\ (endScan \/ main' = main)
    BY <1>2, ScanLeaves
  <2>2. endScan => main' = main \/ main'.batch = <<>>
    BY DEF endScan, Waiting
  <2>3. QED
    BY <1>0, <1>1, <2>1, <2>2 DEF InHand
<1>3. CASE serverLoop
  <2>1. CASE RecviveData
    <3>1. PICK n \in 1 .. Len(wire) :
            /\ wire' = SubSeq(wire, n + 1, Len(wire))
            /\ main' = IF nowScanning THEN main
                       ELSE [main EXCEPT !.pc = "handle", !.batch = SubSeq(wire, 1, n)]
      BY <2>1 DEF RecviveData
    <3>2. ToSet(SubSeq(wire, n + 1, Len(wire))) \subseteq ToSet(wire)
      <4> DEFINE t == SubSeq(wire, n + 1, Len(wire))
      <4>1. /\ t \in Seq(Packages) /\ Len(t) = Len(wire) - n /\ \A k \in 1 .. Len(wire) - n : t[k] = wire[n + k]
        BY BatchFacts DEF Types
      <4> HIDE DEF t
      <4>2. DOMAIN t = 1 .. Len(wire) - n
        BY <4>1, LenProperties
      <4>3. \A k \in 1 .. Len(wire) - n : n + k \in 1 .. Len(wire)
        BY <1>0
      <4>4. ToSet(t) \subseteq ToSet(wire)
        BY <1>0, <4>1, <4>2, <4>3 DEF ToSet
      <4>5. QED
        BY <4>4 DEF t
    <3>3. ToSet(SubSeq(wire, 1, n)) \subseteq ToSet(wire)
      <4> DEFINE t == SubSeq(wire, 1, n)
      <4>1. /\ t \in Seq(Packages) /\ Len(t) = n /\ \A k \in 1 .. n : t[k] = wire[k]
        BY BatchFacts DEF Types
      <4> HIDE DEF t
      <4>2. DOMAIN t = 1 .. n
        BY <4>1, LenProperties
      <4>3. \A k \in 1 .. n : k \in 1 .. Len(wire)
        BY <1>0
      <4>4. ToSet(t) \subseteq ToSet(wire)
        BY <1>0, <4>1, <4>2, <4>3 DEF ToSet
      <4>5. QED
        BY <4>4 DEF t
    <3>4. main'.batch = main.batch \/ main'.batch = SubSeq(wire, 1, n)
      BY <1>0, <3>1 DEF Mains
    <3>5. QED
      BY <3>1, <3>2, <3>3, <3>4 DEF InHand
  <2>2. CASE main.batch # <<>> /\ main' = nextPackage /\ wire' = wire
    <3>1. main'.batch = Tail(main.batch)
      BY <1>0, <2>2, NextPackage
    <3>2. QED
      BY <1>0, <2>2, <3>1, TailSet DEF InHand
  <2>3. CASE main'.batch = main.batch /\ wire' = wire
    BY <2>3 DEF InHand
  <2>4. QED
    BY <1>3, <2>1, <2>2, <2>3, MainMoves
<1>4. CASE Rescan
  <2>1. wire' = Append(wire, [kind |-> "rescan"]) /\ UNCHANGED main
    BY <1>4 DEF Rescan, outside
  <2>2. [kind |-> "rescan"] \in Packages
    BY DEF Packages
  <2>3. ToSet(wire') = ToSet(wire) \cup {[kind |-> "rescan"]}
    BY <1>0, <2>1, <2>2, AppendContents
  <2>4. QED
    BY <2>1, <2>3 DEF InHand
<1>5. ASSUME NEW n \in Nodes, Request(n)
      PROVE  \A p \in InHand' :
               p \in InHand \/ p = [kind |-> "forward", ip |-> table[n], req |-> requests', for |-> n]
  <2> DEFINE r == [kind |-> "forward", ip |-> table[n], req |-> requests', for |-> n]
  <2>1. wire' = Append(wire, r) /\ UNCHANGED main
    BY <1>5 DEF Request, outside
  <2>2. r \in Packages
    <3>1. requests' \in 1 .. MaxEvents /\ table[n] \in 0 .. MaxIps - 1
      BY <1>5, EventsBound DEF Request, Types, Outside, NoIp
    <3>2. QED
      BY <3>1 DEF Packages
  <2> HIDE DEF r
  <2>3. ToSet(wire') = ToSet(wire) \cup {r}
    BY <1>0, <2>1, <2>2, AppendContents
  <2>4. \A p \in InHand' : p \in InHand \/ p = r
    BY <2>1, <2>3 DEF InHand
  <2>5. QED
    BY <2>4 DEF r
<1>6. CASE UNCHANGED vars \/ Module \/ (\E f \in BagToSet(air) : Lose(f)) \/ \E n \in Nodes : Leave(n)
  BY <1>1, <1>6 DEF vars, manager, Module, Confirm, Deliver, Lose, Leave, outside
<1>7. QED
  BY <1>2, <1>3, <1>4, <1>5, <1>6 DEF Next

\* An ip the manager gave, other than the one a scan has just got and not yet used.
Given(ip) == ip < ipCount /\ (scan.pc = "register" => ip # scan.ip)
Ips == /\ scan.pc = "register" => scan.ip < ipCount
       /\ \A k \in DOMAIN xbeeDevices : Given(xbeeDevices[k].ip)
       /\ \A n \in Nodes : Given(table[n])
       /\ \A p \in InHand : p.kind = "forward" => Given(p.ip)

\* Only two steps change what the broker and the manager know of the nodes.
LEMMA ScanKnows ==
    ASSUME Types, ScanAllDevice
    PROVE  \/ askIoTIp
           \/ registerDevice
           \/ UNCHANGED <<xbeeDevices, table, ipCount>> /\ scan.pc # "register" /\ scan'.pc # "register"
<1>0. scan \in Scans
  BY DEF Types, ScanLocals
<1>1. CASE startScan \/ endScan
  BY <1>1, IdleTypes DEF startScan, endScan, Idle, manager
<1>2. CASE discover
  BY <1>0, <1>2 DEF discover, discoveryFailed, broker, Scans
<1>3. CASE sendSyn \/ sendDes
  BY <1>0, <1>3 DEF sendSyn, sendDes, broker, Scans
<1>4. CASE recvAck
  <2>1. scan.pc = "acking" /\ UNCHANGED <<xbeeDevices, table, ipCount>> /\ \E got : synAnswer(got)
    BY <1>4 DEF recvAck, broker
  <2>2. scan'.pc \in {"acking", "syn", "des"}
    BY <1>0, <2>1 DEF synAnswer, Scans
  <2>3. QED
    BY <2>1, <2>2
<1>5. CASE recvTx
  BY <1>0, <1>5 DEF recvTx, goTo, broker, Scans
<1>6. CASE recvData
  <2>1. scan.pc = "desRx" /\ UNCHANGED <<xbeeDevices, table, ipCount>>
    BY <1>6 DEF recvData, broker
  <2>2. scan'.pc \in {"desRx", "ask", "des"}
    BY <1>0, <1>6 DEF recvData, checkDescription, Scans
  <2>3. QED
    BY <2>1, <2>2
<1>7. QED
  BY <1>1, <1>2, <1>3, <1>4, <1>5, <1>6 DEF ScanAllDevice

\* registerDevice, with a description.
Registering ==
    /\ scan.pc = "register" /\ scan.des # <<>>
    /\ Target \in Nodes /\ scan.ip \in 0 .. MaxIps - 1
    /\ xbeeDevices' = addNewDevice(Target, scan.ip)
    /\ table' = [table EXCEPT ![scan.des[1].node] = scan.ip]

LEMMA RegisterFacts ==
    ASSUME Types, registerDevice
    PROVE  /\ Registering \/ (UNCHANGED <<xbeeDevices, table>> /\ scan.des = <<>>)
           /\ scan.pc = "register" /\ scan'.pc = "syn" /\ scan'.i = scan.i + 1
           /\ scan'.addrs = scan.addrs /\ scan'.from = scan.from /\ scan'.got = NoResponse
           /\ UNCHANGED <<port, air, ipCount, faults, sound>>
<1>1. scan \in Scans /\ scan.pc = "register"
  BY DEF Types, ScanLocals, registerDevice
<1>2. Target \in Nodes /\ scan.ip \in 0 .. MaxIps - 1
  BY <1>1, TargetFacts DEF Types, ScanLocals, Scans, NoIp
<1>3. QED
  BY <1>1, <1>2 DEF registerDevice, Registering, Scans, serial

EntryAdded(i) ==
    /\ xbeeDevices'[i] = [address |-> Target, ip |-> scan.ip]
    /\ DOMAIN xbeeDevices' = DOMAIN xbeeDevices \cup {i}
    /\ \A k \in DOMAIN xbeeDevices : k # i => xbeeDevices'[k] = xbeeDevices[k]
    /\ \A k \in DOMAIN xbeeDevices : k # i <=> xbeeDevices[k].address # Target

LEMMA RegisteringAdds ==
    ASSUME Types, DevicesDistinct, Registering
    PROVE  \E i \in DOMAIN xbeeDevices' : EntryAdded(i)
<1> DEFINE n == Target  ip == scan.ip  new == addNewDevice(n, ip)
<1>1. n \in Nodes /\ ip \in 0 .. MaxIps - 1 /\ Shared /\ xbeeDevices' = new
  BY DEF Registering, Types
<1> HIDE DEF n, ip
<1>2. \E i \in DOMAIN new :
        /\ new[i] = [address |-> n, ip |-> ip]
        /\ DOMAIN new = DOMAIN xbeeDevices \cup {i}
        /\ \A k \in DOMAIN xbeeDevices : k # i => new[k] = xbeeDevices[k]
        /\ \A k \in DOMAIN xbeeDevices : k # i <=> xbeeDevices[k].address # n
  BY <1>1, DeviceAdded, ZenonT(60)
<1> HIDE DEF new
<1>3. QED
  BY <1>1, <1>2 DEF EntryAdded, n, ip

LEMMA IpsStep == ASSUME Types, Types', DevicesDistinct, Ips, [Next]_vars PROVE Ips'
<1>0. /\ ipCount \in Nat /\ scan \in Scans /\ table \in [Nodes -> NoIp .. MaxIps - 1]
  BY DEF Types, Outside, ScanLocals
<1>1. ASSUME UNCHANGED <<xbeeDevices, table, ipCount>>,
             scan'.pc # "register" \/ (scan'.pc = scan.pc /\ scan'.ip = scan.ip)
      PROVE  Ips'
  <2>1. ASSUME NEW ip, Given(ip) PROVE ip < ipCount' /\ (scan'.pc = "register" => ip # scan'.ip)
    BY <1>1, <2>1 DEF Given
  <2>2. ASSUME NEW p \in InHand', p.kind = "forward" PROVE Given(p.ip)
    <3>1. CASE p \in InHand
      BY <2>2, <3>1 DEF Ips
    <3>2. ASSUME NEW n \in Nodes,
                 p = [kind |-> "forward", ip |-> table[n], req |-> requests', for |-> n]
          PROVE  Given(p.ip)
      BY <3>2 DEF Ips
    <3>3. QED
      BY <2>2, <3>1, <3>2, InHandStep
  <2>3. \A p \in InHand' : p.kind = "forward" => p.ip < ipCount' /\ (scan'.pc = "register" => p.ip # scan'.ip)
    BY <2>1, <2>2
  <2>4. /\ \A k \in DOMAIN xbeeDevices :
              xbeeDevices[k].ip < ipCount' /\ (scan'.pc = "register" => xbeeDevices[k].ip # scan'.ip)
        /\ \A n \in Nodes : table[n] < ipCount' /\ (scan'.pc = "register" => table[n] # scan'.ip)
    BY <2>1 DEF Ips
  <2>5. scan'.pc = "register" => scan'.ip < ipCount'
    BY <1>1 DEF Ips
  <2>6. QED
    BY <1>1, <2>3, <2>4, <2>5 DEF Ips, Given
<1>2. CASE askIoTIp
  <2>1. /\ UNCHANGED <<xbeeDevices, table, main, wire>> /\ ipCount' = ipCount + 1
        /\ scan'.ip = ipCount
    BY <1>0, <1>2 DEF askIoTIp, broker, scanUnchanged, Scans
  <2>2. InHand' = InHand
    BY <2>1 DEF InHand
  <2>3. /\ \A k \in DOMAIN xbeeDevices : xbeeDevices[k].ip \in Int
        /\ \A n \in Nodes : table[n] \in Int
        /\ \A p \in InHand : p.kind = "forward" => p.ip \in Int
    <3>1. \A k \in DOMAIN xbeeDevices : xbeeDevices[k] \in Device
      BY LenProperties, ElementOfSeq DEF Types, Shared
    <3>2. \A p \in InHand : p \in Packages
      <4>1. wire \in Seq(Packages) /\ main.batch \in Seq(Packages)
        BY DEF Types, Outside, MainLocals, Mains
      <4>2. \A s \in Seq(Packages) : \A k \in DOMAIN s : s[k] \in Packages
        BY LenProperties, ElementOfSeq
      <4>3. QED
        BY <4>1, <4>2 DEF InHand, ToSet
    <3>3. \A n \in Nodes : table[n] \in Int
      BY <1>0 DEF NoIp
    <3>4. QED
      BY <3>1, <3>2, <3>3 DEF Device, Packages
  <2>4. \A ip \in Int : Given(ip) => ip < ipCount + 1 /\ ip # ipCount
    BY <1>0 DEF Given
  <2>5. ipCount < ipCount + 1
    BY <1>0
  <2>6. /\ \A k \in DOMAIN xbeeDevices : xbeeDevices[k].ip < ipCount + 1 /\ xbeeDevices[k].ip # ipCount
        /\ \A n \in Nodes : table[n] < ipCount + 1 /\ table[n] # ipCount
        /\ \A p \in InHand : p.kind = "forward" => p.ip < ipCount + 1 /\ p.ip # ipCount
    BY <2>3, <2>4 DEF Ips
  <2>7. QED
    BY <2>1, <2>2, <2>5, <2>6 DEF Ips, Given
<1>3. CASE registerDevice
  <2>1. CASE UNCHANGED <<xbeeDevices, table>>
    BY <1>1, <1>3, <2>1, RegisterFacts
  <2>2. CASE Registering
    <3>1. PICK i \in DOMAIN xbeeDevices' : EntryAdded(i)
      BY <2>2, RegisteringAdds
    <3>2. scan.ip < ipCount /\ scan'.pc = "syn" /\ ipCount' = ipCount
      BY <1>3, <2>2, RegisterFacts DEF Ips, Registering
    <3>3. \A k \in DOMAIN xbeeDevices' : xbeeDevices'[k].ip < ipCount
      BY <3>1, <3>2 DEF Ips, Given, EntryAdded
    <3>4. \A n \in Nodes : table'[n] < ipCount
      BY <1>0, <2>2, <3>2 DEF Ips, Given, Registering
    <3>5. \A p \in InHand' : p.kind = "forward" => p.ip < ipCount
      <4>1. UNCHANGED <<wire, main>>
        BY <1>3 DEF registerDevice, scanUnchanged
      <4>2. QED
        BY <4>1 DEF InHand, Ips, Given
    <3>6. QED
      BY <3>2, <3>3, <3>4, <3>5 DEF Ips, Given
  <2>3. QED
    BY <1>3, <2>1, <2>2, RegisterFacts
<1>4. CASE ScanAllDevice
  BY <1>1, <1>2, <1>3, <1>4, ScanKnows
<1>5. CASE serverLoop
  <2>1. scan' = scan \/ scan'.pc = "start"
    <3>1. handleManagerPackage => scan'.pc = "start"
      BY IdleTypes DEF handleManagerPackage, Scans
    <3>2. QED
      BY <1>5, <3>1, MainMoves
  <2>2. QED
    BY <1>1, <1>5, <2>1, MainLeaves
<1>6. CASE UNCHANGED vars
  BY <1>1, <1>6 DEF vars, broker, manager
<1>7. QED
  BY <1>1, <1>4, <1>5, <1>6, OutsideLeaves DEF Next, UnderWay

LEMMA DistinctStep == ASSUME Types, DevicesDistinct, Ips, [Next]_vars PROVE DevicesDistinct'
<1>1. CASE UNCHANGED xbeeDevices
  BY <1>1 DEF DevicesDistinct
<1>2. CASE registerDevice
  <2>1. CASE Registering
    <3>1. PICK i \in DOMAIN xbeeDevices' : EntryAdded(i)
      BY <2>1, RegisteringAdds
    <3>2. \A k \in DOMAIN xbeeDevices : xbeeDevices[k].ip # scan.ip
      BY <2>1 DEF Ips, Given, Registering
    <3>3. QED
      BY <3>1, <3>2 DEF DevicesDistinct, EntryAdded
  <2>2. QED
    BY <1>1, <1>2, <2>1, RegisterFacts
<1>3. CASE ScanAllDevice
  <2>1. askIoTIp => UNCHANGED xbeeDevices
    BY DEF askIoTIp, broker
  <2>2. QED
    BY <1>1, <1>2, <1>3, <2>1, ScanKnows
<1>4. CASE UNCHANGED vars \/ serverLoop
  BY <1>1, <1>4, MainLeaves DEF vars, broker
<1>5. QED
  BY <1>1, <1>3, <1>4, OutsideLeaves DEF Next, UnderWay

-----------------------------------------------------------------------------
(* A request and what may be at the port p and under way u until its answer *)
(* has been read, when no frame is late or lost; r are the nodes that are  *)
(* there, s those that are sound.                                          *)

Syn(n) == [kind |-> "send", what |-> "SYN", node |-> n]
Des(n) == [kind |-> "send", what |-> "DES", node |-> n]
Req(p) == [kind |-> "send", what |-> "req", req |-> p.req, node |-> p.for]
Tx(ok) == [kind |-> "tx", ok |-> ok]

\* An answer of the node asked; a sound one sends no wrong check sum.
Honest(a, f, s) == a \in Answers(f) /\ (a.what = "garbled" => f.node \notin s)

\* Nothing has been read; the confirmation has been read.
Asked(f, p, u, r, s) ==
    \/ p = <<>> /\ u = {f}
    \/ p = <<Tx(FALSE)>> /\ u = {} /\ f.node \notin r
    \/ \E a : /\ Honest(a, f, s)
              /\ (p = <<Tx(TRUE)>> /\ u = {a}) \/ (p = <<Tx(TRUE), a>> /\ u = {})
Told(f, p, u, s) ==
    \E a : Honest(a, f, s) /\ ((p = <<>> /\ u = {a}) \/ (p = <<a>> /\ u = {}))

\* The same as getResponse counts it.
Exchange(f, got, p, u, r, s) ==
    /\ got.buf = <<>>
    /\ \/ got.count = 0 /\ got.result = "failed" /\ Asked(f, p, u, r, s)
       \/ got.count = 1 /\ got.result = "ok" /\ Told(f, p, u, s)
       \/ got.count = 1 /\ got.result = "failed" /\ p = <<>> /\ u = {} /\ f.node \notin r

\* What the module does, seen at the port and under way.
Moves(p, u, r, s, p2, u2, s2) ==
    \E g \in u :
      \/ /\ g.kind = "send" /\ g.node \in r /\ p2 = Append(p, Tx(TRUE)) /\ s2 \subseteq s
         /\ \E a : Honest(a, g, s2) /\ u2 = (u \ {g}) \cup {a}
      \/ g.kind = "send" /\ g.node \notin r /\ p2 = Append(p, Tx(FALSE)) /\ u2 = u \ {g} /\ s2 = s
      \/ g.kind # "send" /\ p2 = Append(p, g) /\ u2 = u \ {g} /\ s2 = s

\* Two frames at the port.
LEMMA AppendToOne ==
    ASSUME NEW S, NEW q \in Seq(S), NEW y \in S
    PROVE  \A t \in Seq(S) : Len(q) = 1 /\ Len(t) = 2 /\ t[1] = q[1] /\ t[2] = y => Append(q, y) = t
<1>1. /\ Append(q, y) \in Seq(S) /\ Len(Append(q, y)) = Len(q) + 1 /\ Append(q, y)[Len(q) + 1] = y
      /\ \A i \in 1 .. Len(q) : Append(q, y)[i] = q[i]
  BY AppendContents
<1> DEFINE v == Append(q, y)
<1>2. ASSUME NEW t \in Seq(S), Len(q) = 1, Len(t) = 2, t[1] = q[1], t[2] = y PROVE v = t
  <2>1. v \in Seq(S) /\ Len(v) = Len(q) + 1 /\ v[Len(q) + 1] = y /\ \A i \in 1 .. Len(q) : v[i] = q[i]
    BY <1>1
  <2> HIDE DEF v
  <2>2. Len(v) = Len(t) /\ \A i \in 1 .. Len(v) : v[i] = t[i]
    BY <1>2, <2>1
  <2>3. QED
    BY <2>1, <2>2, SeqEqual
<1>3. QED
  BY <1>2

LEMMA TwoFrames ==
    ASSUME NEW x, NEW y
    PROVE  /\ Append(<<x>>, y) = <<x, y>>
           /\ <<x, y>> # <<>> /\ Head(<<x, y>>) = x /\ Tail(<<x, y>>) = <<y>>
           /\ <<x>> # <<>> /\ Head(<<x>>) = x /\ Tail(<<x>>) = <<>>
<1>1. Append(<<x>>, y) = <<x, y>>
  <2> DEFINE S == {x, y}  q == <<x>>  t == <<x, y>>
  <2>1. /\ q \in Seq(S) /\ y \in S /\ t \in Seq(S) /\ Len(q) = 1 /\ Len(t) = 2
        /\ q[1] = x /\ t[1] = x /\ t[2] = y
    OBVIOUS
  <2> HIDE DEF q, t, S
  <2>2. Append(q, y) = t
    BY <2>1, AppendToOne
  <2>3. QED
    BY <2>2 DEF q, t
<1>2. <<x, y>> # <<>> /\ Head(<<x, y>>) = x
  OBVIOUS
<1>3. Tail(<<x, y>>) = <<y>>
  OBVIOUS
<1>4. <<x>> # <<>> /\ Head(<<x>>) = x /\ Tail(<<x>>) = <<>>
  OBVIOUS
<1>5. QED
  BY <1>1, <1>2, <1>3, <1>4

LEMMA ToldMoves ==
    ASSUME NEW f \in Sends, NEW p, NEW u, NEW r, NEW s, NEW p2, NEW u2, NEW s2,
           Told(f, p, u, s), Moves(p, u, r, s, p2, u2, s2)
    PROVE  Told(f, p2, u2, s2)
<1>1. PICK a : Honest(a, f, s) /\ ((p = <<>> /\ u = {a}) \/ (p = <<a>> /\ u = {}))
  BY DEF Told
<1>2. a.kind = "rx"
  BY <1>1, AnswersAre DEF Honest
<1>3. p = <<>> /\ u = {a}
  BY <1>1 DEF Moves
<1>4. p2 = Append(p, a) /\ u2 = u \ {a} /\ s2 = s
  BY <1>2, <1>3 DEF Moves
<1>5. p2 = <<a>> /\ u2 = {}
  BY <1>3, <1>4
<1>6. QED
  BY <1>1, <1>4, <1>5 DEF Told

LEMMA AskedMoves ==
    ASSUME NEW f \in Sends, NEW p, NEW u, NEW r, NEW s, NEW p2, NEW u2, NEW s2,
           Asked(f, p, u, r, s), Moves(p, u, r, s, p2, u2, s2)
    PROVE  Asked(f, p2, u2, r, s2)
<1>1. f.kind = "send"
  BY DEF Sends
<1>2. CASE p = <<>> /\ u = {f}
  <2>1. CASE f.node \in r
    <3>1. PICK a : Honest(a, f, s2) /\ p2 = Append(p, Tx(TRUE)) /\ u2 = (u \ {f}) \cup {a}
      BY <1>1, <1>2, <2>1 DEF Moves
    <3>2. p2 = <<Tx(TRUE)>> /\ u2 = {a}
      BY <1>2, <3>1
    <3>3. QED
      BY <3>1, <3>2 DEF Asked
  <2>2. CASE f.node \notin r
    <3>1. p2 = Append(p, Tx(FALSE)) /\ u2 = u \ {f}
      BY <1>1, <1>2, <2>2 DEF Moves
    <3>2. p2 = <<Tx(FALSE)>> /\ u2 = {}
      BY <1>2, <3>1
    <3>3. QED
      BY <2>2, <3>2 DEF Asked
  <2>3. QED
    BY <2>1, <2>2
<1>3. ASSUME NEW a, Honest(a, f, s), p = <<Tx(TRUE)>>, u = {a} PROVE Asked(f, p2, u2, r, s2)
  <2>1. a.kind = "rx"
    BY <1>3, AnswersAre DEF Honest
  <2>2. p2 = Append(p, a) /\ u2 = u \ {a} /\ s2 = s
    BY <1>3, <2>1 DEF Moves
  <2>3. p2 = <<Tx(TRUE), a>> /\ u2 = {}
    BY <1>3, <2>2, TwoFrames
  <2>4. QED
    BY <1>3, <2>2, <2>3 DEF Asked
<1>4. u # {}
  BY DEF Moves
<1>5. QED
  BY <1>2, <1>3, <1>4 DEF Asked

LEMMA ExchangeMoves ==
    ASSUME NEW f \in Sends, NEW got, NEW p, NEW u, NEW r, NEW s, NEW p2, NEW u2, NEW s2,
           Exchange(f, got, p, u, r, s), Moves(p, u, r, s, p2, u2, s2)
    PROVE  Exchange(f, got, p2, u2, r, s2)
<1>1. u # {}
  BY DEF Moves
<1>2. QED
  BY <1>1, AskedMoves, ToldMoves DEF Exchange

\* A node that leaves is there no more and sound no more.
LEMMA ExchangeShrinks ==
    ASSUME NEW f, NEW got, NEW p, NEW u, NEW r, NEW s, NEW r2 \in SUBSET r, NEW s2 \in SUBSET s
    PROVE  /\ Asked(f, p, u, r, s) => Asked(f, p, u, r2, s2)
           /\ Told(f, p, u, s) => Told(f, p, u, s2)
           /\ Exchange(f, got, p, u, r, s) => Exchange(f, got, p, u, r2, s2)
<1>1. \A a : Honest(a, f, s) => Honest(a, f, s2)
  BY DEF Honest
<1>2. Asked(f, p, u, r, s) => Asked(f, p, u, r2, s2)
  BY <1>1 DEF Asked
<1>3. Told(f, p, u, s) => Told(f, p, u, s2)
  BY <1>1 DEF Told
<1>4. QED
  BY <1>2, <1>3 DEF Exchange

\* What is read: the confirmation, a refusal, ...
LEMMA AskedRead ==
    ASSUME NEW f, NEW p, NEW u, NEW r, NEW s, Asked(f, p, u, r, s)
    PROVE  /\ p = <<>> => u # {}
           /\ p # <<>> =>
                \/ Head(p) = Tx(FALSE) /\ Tail(p) = <<>> /\ u = {} /\ f.node \notin r
                \/ Head(p) = Tx(TRUE) /\ Told(f, Tail(p), u, s)
<1>1. CASE p = <<>> /\ u = {f}
  BY <1>1
<1>2. CASE p = <<Tx(FALSE)>> /\ u = {} /\ f.node \notin r
  <2>1. Head(p) = Tx(FALSE) /\ Tail(p) = <<>> /\ p # <<>>
    BY <1>2
  <2>2. QED
    BY <1>2, <2>1
<1>3. ASSUME NEW a, Honest(a, f, s), (p = <<Tx(TRUE)>> /\ u = {a}) \/ (p = <<Tx(TRUE), a>> /\ u = {})
      PROVE  p # <<>> /\ Head(p) = Tx(TRUE) /\ Told(f, Tail(p), u, s)
  <2> DEFINE x == Tx(TRUE)
  <2>0. (p = <<x>> /\ u = {a}) \/ (p = <<x, a>> /\ u = {})
    BY <1>3
  <2> HIDE DEF x
  <2>1. p # <<>> /\ Head(p) = x
    BY <2>0, TwoFrames
  <2>2. (Tail(p) = <<>> /\ u = {a}) \/ (Tail(p) = <<a>> /\ u = {})
    <3>1. CASE p = <<x>> /\ u = {a}
      BY <3>1, TwoFrames
    <3>2. CASE p = <<x, a>> /\ u = {}
      <4>1. Tail(<<x, a>>) = <<a>>
        BY TwoFrames
      <4>2. QED
        BY <3>2, <4>1
    <3>3. QED
      BY <2>0, <3>1, <3>2
  <2>3. QED
    BY <1>3, <2>1, <2>2 DEF Told, x
<1>4. QED
  BY <1>1, <1>2, <1>3 DEF Asked

\* ... the answer.
LEMMA ToldRead ==
    ASSUME NEW f, NEW p, NEW u, NEW s, Told(f, p, u, s)
    PROVE  /\ p = <<>> => u # {}
           /\ p # <<>> => Honest(Head(p), f, s) /\ Tail(p) = <<>> /\ u = {}
<1>1. PICK a : Honest(a, f, s) /\ ((p = <<>> /\ u = {a}) \/ (p = <<a>> /\ u = {}))
  BY DEF Told
<1>2. p = <<a>> => Head(p) = a /\ Tail(p) = <<>> /\ p # <<>>
  OBVIOUS
<1>3. QED
  BY <1>1, <1>2

\* What getResponse makes of a frame, and of a time-out.
LEMMA ExchangeRead ==
    ASSUME NEW f \in Sends, NEW got \in Responses, NEW p, NEW u, NEW r, NEW s,
           Exchange(f, got, p, u, r, s), p # <<>>
    PROVE  LET g == taken(got, Head(p))
           IN  \/ ~ ends(g) /\ Exchange(f, g, Tail(p), u, r, s)
               \/ /\ ends(g) /\ g.result = "ok" /\ Tail(p) = <<>> /\ u = {}
                  /\ \E a : Honest(a, f, s) /\ g.buf = <<a>>
<1> DEFINE g == taken(got, Head(p))
<1>0. DOMAIN got = {"count", "result", "buf"}
  BY DEF Responses
<1>1. CASE got.count = 0 /\ got.result = "failed" /\ Asked(f, p, u, r, s)
  <2>1. CASE Head(p) = Tx(FALSE) /\ Tail(p) = <<>> /\ u = {} /\ f.node \notin r
    <3>1. g.count = 1 /\ g.result = "failed" /\ g.buf = <<>>
      BY <1>0, <1>1, <2>1 DEF taken, Tx, Exchange, Responses
    <3>2. QED
      BY <2>1, <3>1 DEF ends, Exchange
  <2>2. CASE Head(p) = Tx(TRUE) /\ Told(f, Tail(p), u, s)
    <3>1. g.count = 1 /\ g.result = "ok" /\ g.buf = <<>>
      BY <1>0, <1>1, <2>2 DEF taken, Tx, Exchange, Responses
    <3>2. QED
      BY <2>2, <3>1 DEF ends, Exchange
  <2>3. QED
    BY <1>1, <2>1, <2>2, AskedRead
<1>2. CASE got.count = 1 /\ got.result = "ok" /\ Told(f, p, u, s)
  <2>1. Honest(Head(p), f, s) /\ Tail(p) = <<>> /\ u = {}
    BY <1>2, ToldRead
  <2>2. Head(p).kind = "rx"
    BY <2>1, AnswersAre DEF Honest
  <2>3. g.count = 2 /\ g.result = "ok" /\ g.buf = Append(<<>>, Head(p))
    BY <1>0, <1>2, <2>2 DEF taken, Exchange, Responses
  <2>4. g.buf = <<Head(p)>>
    BY <2>3
  <2>5. QED
    BY <2>1, <2>3, <2>4 DEF ends
<1>3. QED
  BY <1>1, <1>2 DEF Exchange

LEMMA ExchangeTimeOut ==
    ASSUME NEW f, NEW got \in Responses, NEW r, NEW s, Exchange(f, got, <<>>, {}, r, s)
    PROVE  f.node \notin r /\ got.buf = <<>> /\ ends(timedOut(got)) /\ timedOut(got).result = "timeout"
<1>1. f.node \notin r /\ got.buf = <<>>
  BY AskedRead, ToldRead DEF Exchange
<1>2. timedOut(got).result = "timeout"
  BY DEF timedOut, Responses
<1>3. QED
  BY <1>1, <1>2 DEF ends

-----------------------------------------------------------------------------
(* While no frame is late or lost and no command is handled during a scan,  *)
(* one thread at a time uses the port, and what is there or under way       *)
(* belongs to what it has sent.                                             *)

Quiet == port = <<>> /\ UnderWay = {}
Single == \A f \in UnderWay : air[f] = 1
AtHand == ToSet(port) \cup UnderWay
Using == {"discover", "acking", "desTx", "desRx"}

\* The main loop waits for the response to its command; a scan, for what its step asks.
MainPort == main.pc = "wait" => Exchange(Req(Package), main.got, port, UnderWay, reachable, sound)
ScanPort ==
    /\ scan.pc = "discover" => \A f \in AtHand : f.kind = "nd"
    /\ scan.pc = "acking" => Exchange(Syn(Target), scan.got, port, UnderWay, reachable, sound)
    /\ scan.pc = "desTx" => Asked(Des(Target), port, UnderWay, reachable, sound)
    /\ scan.pc = "desRx" => Told(Des(Target), port, UnderWay, sound)
    /\ scan.pc \notin Using /\ main.pc # "wait" => Quiet

\* The buffers are empty where they are used next, and a description is the target's.
Buffers ==
    /\ scan.pc \in {"start", "discover", "syn"} => scan.got.buf = <<>>
    /\ main.pc \in {"wait", "clear"} \/ main.got = NoResponse
    /\ scan.pc \notin {"ask", "register"} => scan.des = <<>>
    /\ scan.pc \in {"ask", "register"} =>
          scan.des \in {<<>>, <<[kind |-> "rx", what |-> "des", node |-> Target]>>}

Alone ==
    /\ Single
    /\ main.pc \in {"wait", "clear"} => scan.pc = "idle"
    /\ MainPort /\ ScanPort /\ Buffers

\* The ip under which the manager knows a node leads to it.
InTable ==
    \A n \in Nodes : table[n] # NoIp =>
        \E k \in DOMAIN xbeeDevices : xbeeDevices[k] = [address |-> n, ip |-> table[n]]

\* The ip of a command leads to the node the manager means, if to any.
Meant ==
    \A p \in InHand : p.kind = "forward" =>
        \A k \in DOMAIN xbeeDevices : xbeeDevices[k].ip = p.ip => xbeeDevices[k].address = p.for

\* What a scan has found of the sound nodes.
Finding ==
    /\ scan.from <= ipCount
    /\ scan.pc \in {"idle", "start"} => sound = {}
    /\ scan.pc = "discover" =>
          \A n \in sound : [kind |-> "nd", node |-> n] \in AtHand \/ n \in ToSet(scan.addrs)
    /\ scan.pc \notin {"idle", "start", "discover"} => sound \subseteq ToSet(scan.addrs)
    /\ \A k \in DOMAIN scan.addrs :
          k < scan.i /\ scan.addrs[k] \in sound => table[scan.addrs[k]] >= scan.from
    /\ scan.pc \in {"des", "desTx", "desRx"} /\ Target \in sound => scan.tries = 0
    /\ scan.pc \in {"ask", "register"} /\ Target \in sound => scan.des # <<>>
    /\ scan.pc = "register" => scan.ip >= scan.from

Sure == Alone /\ InTable /\ Meant /\ Finding

\* Trouble does not end, and faults come one at a time.
LEMMA TroubleGrows ==
    ASSUME [Next]_vars
    PROVE  /\ faults' \in {faults, faults + 1}
           /\ mixed' = mixed \/ mixed' = (mixed \/ scan.pc # "idle")
<1>1. faults' \in {faults, faults + 1}
  <2>1. ASSUME NEW read, timeOut(read) PROVE faults' \in {faults, faults + 1}
    BY <2>1 DEF timeOut
  <2>2. readPacket => faults' = faults
    BY DEF readPacket
  <2>3. ScanAllDevice => faults' \in {faults, faults + 1}
    BY <2>1, <2>2 DEF ScanAllDevice, startScan, discover, sendSyn, recvAck, sendDes, recvTx, recvData,
       askIoTIp, registerDevice, endScan
  <2>4. serverLoop => faults' \in {faults, faults + 1}
    BY <2>1, <2>2 DEF serverLoop, RecviveData, handleManagerPackage, handleForwardingPackage, getResponse,
       clearComportBuffer
  <2>5. QED
    BY <2>3, <2>4 DEF Next, Module, Confirm, Deliver, Lose, Rescan, Request, Leave, vars
<1>2. mixed' = mixed \/ mixed' = (mixed \/ scan.pc # "idle")
  <2>1. serverLoop => mixed' = mixed \/ mixed' = (mixed \/ scan.pc # "idle")
    BY Zenon DEF serverLoop, RecviveData, handleManagerPackage, handleForwardingPackage, getResponse, clearComportBuffer
  <2>2. QED
    BY <2>1, ScanLeaves, OutsideLeaves DEF Next, UnderWay, vars
<1>3. QED
  BY <1>1, <1>2

LEMMA UntroubledBefore ==
    ASSUME Types, [Next]_vars, Untroubled'
    PROVE  Untroubled /\ faults' = faults
<1>0. faults \in Nat /\ faults' = 0 /\ ~ mixed'
  BY DEF Types, Outside, Untroubled
<1>1. faults' \in {faults, faults + 1} /\ (mixed' = mixed \/ mixed' = (mixed \/ scan.pc # "idle"))
  BY TroubleGrows
<1>2. ~ mixed
  BY <1>0, <1>1
<1>3. faults = 0 /\ faults' = faults
  BY <1>0, <1>1
<1>4. QED
  BY <1>2, <1>3 DEF Untroubled

\* Without a fault, a time-out means that nothing is to come.
LEMMA CalmTimeOut ==
    ASSUME Types, NEW read, timeOut(read), faults' = faults
    PROVE  Quiet
<1>1. faults \in Nat /\ faults + 1 # faults
  BY DEF Types, Outside
<1>2. port = <<>> /\ air = EmptyBag
  BY <1>1 DEF timeOut
<1>3. QED
  BY <1>2, BagEmpty DEF Quiet, UnderWay

\* Requests, and that a transmission is under way alone.
LEMMA RequestTypes ==
    /\ \A n \in Nodes : Syn(n) \in Sends /\ Des(n) \in Sends
    /\ \A p \in Packages : p.kind = "forward" => Req(p) \in Sends
BY DEF Syn, Des, Req, Sends, Packages

LEMMA ExchangeSends ==
    ASSUME NEW f \in Sends, NEW got, NEW p, NEW u, NEW r, NEW s, NEW g \in u, g.kind = "send"
    PROVE  /\ Asked(f, p, u, r, s) => u = {g}
           /\ Told(f, p, u, s) => u = {g}
           /\ Exchange(f, got, p, u, r, s) => u = {g}
<1>1. Asked(f, p, u, r, s) => u = {g}
  BY DEF Asked
<1>2. Told(f, p, u, s) => u = {g}
  BY DEF Told
<1>3. QED
  BY <1>1, <1>2 DEF Exchange

\* What a thread waits for, and who it asked.
LEMMA Askers ==
    ASSUME Types
    PROVE  /\ main.pc = "wait" => Req(Package) \in Sends
           /\ scan.pc \in {"acking", "desTx", "desRx"} => Syn(Target) \in Sends /\ Des(Target) \in Sends
           /\ scan.pc \notin {"idle", "start", "discover", "syn"} => Target \in Nodes
<1>1. main.pc = "wait" => Package \in Packages /\ Package.kind = "forward"
  BY PackageFacts DEF Types, MainLocals
<1>2. scan.pc \notin {"idle", "start", "discover", "syn"} => Target \in Nodes
  BY TargetFacts DEF Types, ScanLocals
<1>3. QED
  BY <1>1, <1>2, RequestTypes

LEMMA SendAlone ==
    ASSUME Types, Alone, NEW g \in UnderWay, g.kind = "send"
    PROVE  UnderWay = {g}
<1>1. CASE main.pc = "wait"
  BY <1>1, Askers, ExchangeSends DEF Alone, MainPort
<1>2. CASE scan.pc = "acking"
  BY <1>2, Askers, ExchangeSends DEF Alone, ScanPort
<1>3. CASE scan.pc \in {"desTx", "desRx"}
  <2>1. Des(Target) \in Sends
    BY <1>3, Askers
  <2>2. Asked(Des(Target), port, UnderWay, reachable, sound) \/ Told(Des(Target), port, UnderWay, sound)
    BY <1>3 DEF Alone, ScanPort
  <2>3. QED
    BY <2>1, <2>2, ExchangeSends
<1>4. QED
  BY <1>1, <1>2, <1>3 DEF Alone, ScanPort, Using, AtHand, Quiet

LEMMA ModuleMoves ==
    ASSUME Types, Alone, Module
    PROVE  Moves(port, UnderWay, reachable, sound, port', UnderWay', sound') /\ Single' /\ sound' \subseteq sound
<1>0. Single
  BY DEF Alone
<1>1. ASSUME NEW g \in UnderWay, Deliver(g)
      PROVE  Moves(port, UnderWay, reachable, sound, port', UnderWay', sound') /\ Single' /\ sound' \subseteq sound
  <2>1. g.kind # "send" /\ port' = Append(port, g) /\ air' = Without(g) /\ sound' = sound
    BY <1>1 DEF Deliver, noneWrong
  <2>2. UnderWay' = UnderWay \ {g} /\ \A f \in UnderWay' : air'[f] = 1
    <3>1. /\ BagToSet(air (-) SetToBag({g})) = BagToSet(air) \ {g}
          /\ \A f \in BagToSet(air) \ {g} : (air (-) SetToBag({g}))[f] = 1
      BY <1>0, BagWithout DEF Single, UnderWay
    <3>2. QED
      BY <2>1, <3>1 DEF UnderWay, Without
  <2>3. QED
    BY <2>1, <2>2 DEF Moves, Single
<1>2. ASSUME NEW g \in UnderWay, Confirm(g)
      PROVE  Moves(port, UnderWay, reachable, sound, port', UnderWay', sound') /\ Single' /\ sound' \subseteq sound
  <2>1. g.kind = "send" /\ port' = Append(port, [kind |-> "tx", ok |-> g.node \in reachable])
    BY <1>2 DEF Confirm
  <2>2. /\ BagToSet(Without(g)) = UnderWay \ {g} /\ \A f \in UnderWay \ {g} : Without(g)[f] = 1
        /\ UnderWay \ {g} = {}
    BY <1>0, <2>1, BagWithout, SendAlone DEF Single, UnderWay, Without
  <2>3. CASE g.node \notin reachable
    <3>1. air' = Without(g) /\ sound' = sound
      BY <1>2, <2>3 DEF Confirm, noneWrong
    <3>2. port' = Append(port, Tx(FALSE))
      <4>1. (g.node \in reachable) = FALSE
        BY <2>3
      <4>2. QED
        BY <2>1, <4>1 DEF Tx
    <3>3. UnderWay' = UnderWay \ {g} /\ Single'
      BY <2>2, <3>1 DEF UnderWay, Single
    <3>4. QED
      BY <2>1, <2>3, <3>1, <3>2, <3>3 DEF Moves
  <2>4. CASE g.node \in reachable
    <3>1. PICK a \in Answers(g) :
            /\ air' = Without(g) (+) SetToBag({a})
            /\ IF a.what # "garbled" THEN noneWrong
               ELSE /\ eventsLeft
                    /\ wrongSums' = wrongSums + 1
                    /\ sound' = sound \ {g.node}
      BY <1>2, <2>4 DEF Confirm
    <3>2. port' = Append(port, Tx(TRUE))
      <4>1. (g.node \in reachable) = TRUE
        BY <2>4
      <4>2. QED
        BY <2>1, <4>1 DEF Tx
    <3>3. sound' \subseteq sound /\ Honest(a, g, sound')
      BY <3>1 DEF Honest, noneWrong
    <3>4. /\ BagToSet(Without(g) (+) SetToBag({a})) = BagToSet(Without(g)) \cup {a}
          /\ \A f \in {a} : f \notin BagToSet(Without(g)) => (Without(g) (+) SetToBag({a}))[f] = 1
      BY BagAdd
    <3>5. UnderWay' = (UnderWay \ {g}) \cup {a} /\ Single'
      BY <2>2, <3>1, <3>4 DEF UnderWay, Single
    <3>6. QED
      BY <2>1, <2>4, <3>2, <3>3, <3>5 DEF Moves
  <2>5. QED
    BY <2>3, <2>4
<1>3. QED
  BY <1>1, <1>2 DEF Module, UnderWay

LEMMA NextKnows ==
    ASSUME Types, [Next]_vars
    PROVE  UNCHANGED <<xbeeDevices, table>> \/ (registerDevice /\ Registering)
<1>1. ScanAllDevice => UNCHANGED <<xbeeDevices, table>> \/ (registerDevice /\ Registering)
  BY ScanKnows, RegisterFacts DEF askIoTIp, broker
<1>2. QED
  BY <1>1, MainLeaves, OutsideLeaves DEF Next, UnderWay, vars, broker, manager

LEMMA InTableStep == ASSUME Types, DevicesDistinct, Alone, InTable, [Next]_vars PROVE InTable'
<1>1. CASE UNCHANGED <<xbeeDevices, table>>
  BY <1>1 DEF InTable
<1>2. CASE Registering
  <2>1. PICK i \in DOMAIN xbeeDevices' : EntryAdded(i)
    BY <1>2, RegisteringAdds
  <2>2. scan.des = <<[kind |-> "rx", what |-> "des", node |-> Target]>>
    BY <1>2 DEF Registering, Alone, Buffers
  <2>3. scan.des[1].node = Target
    BY <2>2
  <2>4. table' = [table EXCEPT ![Target] = scan.ip] /\ table \in [Nodes -> NoIp .. MaxIps - 1] /\ Target \in Nodes
    BY <1>2, <2>3 DEF Registering, Types, Outside
  <2>5. ASSUME NEW n \in Nodes, table'[n] # NoIp
        PROVE  \E k \in DOMAIN xbeeDevices' : xbeeDevices'[k] = [address |-> n, ip |-> table'[n]]
    <3>1. CASE n = Target
      BY <2>1, <2>4, <3>1 DEF EntryAdded
    <3>2. CASE n # Target
      <4>1. table'[n] = table[n]
        BY <2>4, <3>2
      <4>2. PICK k \in DOMAIN xbeeDevices : xbeeDevices[k] = [address |-> n, ip |-> table[n]]
        BY <2>5, <4>1 DEF InTable
      <4>3. CASE k # i
        BY <2>1, <4>1, <4>2, <4>3 DEF EntryAdded
      <4>4. CASE k = i
        <5>1. xbeeDevices[i].address = n
          BY <4>2, <4>4
        <5>2. xbeeDevices[i].address = Target
          BY <2>1, <4>4 DEF EntryAdded
        <5>3. QED
          BY <3>2, <5>1, <5>2
      <4>5. QED
        BY <4>3, <4>4
    <3>3. QED
      BY <3>1, <3>2
  <2>6. QED
    BY <2>5 DEF InTable
<1>3. QED
  BY <1>1, <1>2, NextKnows

LEMMA MeantStep == ASSUME Types, DevicesDistinct, Ips, InTable, Meant, [Next]_vars PROVE Meant'
<1>1. ASSUME NEW p \in InHand', p.kind = "forward"
      PROVE  \A k \in DOMAIN xbeeDevices : xbeeDevices[k].ip = p.ip => xbeeDevices[k].address = p.for
  <2>1. CASE p \in InHand
    BY <1>1, <2>1 DEF Meant
  <2>2. ASSUME NEW n \in Nodes, Request(n),
               p = [kind |-> "forward", ip |-> table[n], req |-> requests', for |-> n]
        PROVE  \A k \in DOMAIN xbeeDevices : xbeeDevices[k].ip = p.ip => xbeeDevices[k].address = p.for
    <3>1. p.ip = table[n] /\ p.for = n
      BY <2>2
    <3>2. table[n] # NoIp
      BY <2>2 DEF Request
    <3>3. PICK j \in DOMAIN xbeeDevices : xbeeDevices[j] = [address |-> n, ip |-> table[n]]
      BY <3>2 DEF InTable
    <3>4. \A k \in DOMAIN xbeeDevices : xbeeDevices[k].ip = table[n] => k = j
      BY <3>3 DEF DevicesDistinct
    <3>5. QED
      BY <3>1, <3>3, <3>4
  <2>3. QED
    BY <1>1, <2>1, <2>2, InHandStep
<1>2. CASE UNCHANGED xbeeDevices
  BY <1>1, <1>2 DEF Meant
<1>3. CASE registerDevice /\ Registering
  <2>1. PICK i \in DOMAIN xbeeDevices' : EntryAdded(i)
    BY <1>3, RegisteringAdds
  <2>2. InHand' = InHand
    BY <1>3 DEF registerDevice, scanUnchanged, InHand
  <2>3. \A p \in InHand : p.kind = "forward" => p.ip # scan.ip
    BY <1>3 DEF Ips, Given, Registering
  <2>4. ASSUME NEW p \in InHand, p.kind = "forward", NEW k \in DOMAIN xbeeDevices', xbeeDevices'[k].ip = p.ip
        PROVE  xbeeDevices'[k].address = p.for
    <3>1. k # i
      BY <2>1, <2>3, <2>4 DEF EntryAdded
    <3>2. k \in DOMAIN xbeeDevices /\ xbeeDevices'[k] = xbeeDevices[k]
      BY <2>1, <3>1 DEF EntryAdded
    <3>3. QED
      BY <2>4, <3>2 DEF Meant
  <2>5. QED
    BY <2>2, <2>4 DEF Meant
<1>4. QED
  BY <1>2, <1>3, NextKnows

\* What was found moves from the air to the port.
LEMMA DiscoveryKeeps ==
    ASSUME Types, Module, \A f \in AtHand : f.kind = "nd", Single
    PROVE  AtHand' = AtHand
<1>1. PICK f \in UnderWay : Confirm(f) \/ Deliver(f)
  BY DEF Module, UnderWay
<1>2. f.kind = "nd"
  BY DEF AtHand
<1>3. port' = Append(port, f) /\ air' = air (-) SetToBag({f})
  BY <1>1, <1>2 DEF Confirm, Deliver, Without
<1>4. BagToSet(air (-) SetToBag({f})) = BagToSet(air) \ {f}
  BY BagWithout DEF Single, UnderWay
<1>5. UnderWay' = UnderWay \ {f}
  BY <1>3, <1>4 DEF UnderWay
<1>6. port \in Seq(Frame) /\ f \in Frame
  BY <1>2, FrameKinds DEF Types, Serial
<1>7. ToSet(port') = ToSet(port) \cup {f}
  BY <1>3, <1>6, AppendContents
<1>8. QED
  BY <1>5, <1>7 DEF AtHand

\* The steps of the manager, the module and the nodes.
LEMMA OutsideCalm ==
    ASSUME Types, Alone, Finding,
           Module \/ Rescan \/ \E n \in Nodes : Request(n) \/ Leave(n)
    PROVE  Alone' /\ Finding'
<1>0. /\ UNCHANGED <<xbeeDevices, scan, main, table, ipCount>>
      /\ Target' = Target /\ Package' = Package
  BY OutsideLeaves DEF Target, Package
<1>b. Buffers' /\ (main.pc \in {"wait", "clear"} => scan.pc = "idle")
  BY <1>0 DEF Alone, Buffers
<1>f. ASSUME sound' \subseteq sound, scan.pc = "discover" => AtHand \subseteq AtHand' PROVE Finding'
  BY <1>0, <1>f DEF Finding
<1>1. CASE Module
  <2>0. UNCHANGED <<reachable, faults>>
    BY <1>1 DEF Module, Confirm, Deliver
  <2>1. Moves(port, UnderWay, reachable, sound, port', UnderWay', sound') /\ Single' /\ sound' \subseteq sound
    BY <1>1, ModuleMoves
  <2> DEFINE p2 == port'  u2 == UnderWay'  s2 == sound'
  <2>2. Moves(port, UnderWay, reachable, sound, p2, u2, s2)
    BY <2>1
  <2> HIDE DEF p2, u2, s2
  <2>3. CASE main.pc = "wait"
    <3> DEFINE f == Req(Package)  got == main.got
    <3>1. f \in Sends /\ Exchange(f, got, port, UnderWay, reachable, sound)
      BY <2>3, Askers DEF Alone, MainPort
    <3> HIDE DEF f, got
    <3>2. Exchange(f, got, p2, u2, reachable, s2)
      BY <2>2, <3>1, ExchangeMoves
    <3>3. MainPort'
      BY <1>0, <2>0, <3>2 DEF MainPort, f, got, p2, u2, s2
    <3>4. ScanPort'
      BY <1>0, <2>3 DEF ScanPort, Alone, Using
    <3>5. scan.pc = "idle"
      BY <2>3 DEF Alone
    <3>6. QED
      BY <1>0, <1>b, <1>f, <2>1, <3>3, <3>4, <3>5 DEF Alone
  <2>4. CASE main.pc # "wait"
    <3>1. UnderWay # {}
      BY <2>1 DEF Moves
    <3>2. scan.pc \in Using
      BY <2>4, <3>1 DEF Alone, ScanPort, Quiet
    <3>3. ScanPort'
      <4>1. CASE scan.pc = "discover"
        <5>1. \A f \in AtHand : f.kind = "nd"
          BY <4>1 DEF Alone, ScanPort
        <5>2. AtHand' = AtHand
          BY <1>1, <5>1, DiscoveryKeeps DEF Alone
        <5>3. QED
          BY <1>0, <4>1, <5>1, <5>2 DEF ScanPort, Using
      <4>2. CASE scan.pc = "acking"
        <5> DEFINE f == Syn(Target)  got == scan.got
        <5>1. f \in Sends /\ Exchange(f, got, port, UnderWay, reachable, sound)
          BY <4>2, Askers DEF Alone, ScanPort
        <5> HIDE DEF f, got
        <5>2. Exchange(f, got, p2, u2, reachable, s2)
          BY <2>2, <5>1, ExchangeMoves
        <5>3. QED
          BY <1>0, <2>0, <4>2, <5>2 DEF ScanPort, Using, f, got, p2, u2, s2
      <4>3. CASE scan.pc = "desTx"
        <5> DEFINE f == Des(Target)
        <5>1. f \in Sends /\ Asked(f, port, UnderWay, reachable, sound)
          BY <4>3, Askers DEF Alone, ScanPort
        <5> HIDE DEF f
        <5>2. Asked(f, p2, u2, reachable, s2)
          BY <2>2, <5>1, AskedMoves
        <5>3. QED
          BY <1>0, <2>0, <4>3, <5>2 DEF ScanPort, Using, f, p2, u2, s2
      <4>4. CASE scan.pc = "desRx"
        <5> DEFINE f == Des(Target)
        <5>1. f \in Sends /\ Told(f, port, UnderWay, sound)
          BY <4>4, Askers DEF Alone, ScanPort
        <5> HIDE DEF f
        <5>2. Told(f, p2, u2, s2)
          BY <2>2, <5>1, ToldMoves
        <5>3. QED
          BY <1>0, <2>0, <4>4, <5>2 DEF ScanPort, Using, f, p2, u2, s2
      <4>5. QED
        BY <3>2, <4>1, <4>2, <4>3, <4>4 DEF Using
    <3>4. scan.pc = "discover" => AtHand \subseteq AtHand'
      BY <1>1, DiscoveryKeeps DEF Alone, ScanPort
    <3>5. MainPort'
      BY <1>0, <2>4 DEF MainPort
    <3>6. QED
      BY <1>0, <1>b, <1>f, <2>1, <3>3, <3>4, <3>5 DEF Alone
  <2>5. QED
    BY <2>3, <2>4
<1>2. CASE Rescan \/ \E n \in Nodes : Request(n)
  <2>1. UNCHANGED <<port, air, reachable, sound>>
    BY <1>2 DEF Rescan, Request, serial, noneWrong
  <2>2. UNCHANGED <<UnderWay, AtHand>>
    BY <2>1 DEF UnderWay, AtHand
  <2>3. MainPort' /\ ScanPort' /\ Single'
    BY <1>0, <2>1, <2>2 DEF Alone, MainPort, ScanPort, Single, Quiet
  <2>4. QED
    BY <1>0, <1>b, <1>f, <2>1, <2>2, <2>3 DEF Alone
<1>3. ASSUME NEW n \in Nodes, Leave(n) PROVE Alone' /\ Finding'
  <2>1. UNCHANGED <<port, air>> /\ reachable' = reachable \ {n} /\ sound' = sound \ {n}
    BY <1>3 DEF Leave, serial
  <2>2. UNCHANGED <<UnderWay, AtHand>>
    BY <2>1 DEF UnderWay, AtHand
  <2>3. reachable \ {n} \in SUBSET reachable /\ sound \ {n} \in SUBSET sound
    OBVIOUS
  <2>4. MainPort'
    BY <1>0, <2>1, <2>2, <2>3, ExchangeShrinks DEF Alone, MainPort
  <2>5. ScanPort'
    BY <1>0, <2>1, <2>2, <2>3, ExchangeShrinks DEF Alone, ScanPort, Quiet
  <2>6. Single'
    BY <2>1, <2>2 DEF Alone, Single
  <2>7. QED
    BY <1>0, <1>b, <1>f, <2>1, <2>2, <2>4, <2>5, <2>6 DEF Alone
<1>4. QED
  BY <1>1, <1>2, <1>3

\* The steps of the main loop.
LEMMA MainCalm ==
    ASSUME Types, OneRescan, Sure, serverLoop, Untroubled, Untroubled', faults' = faults
    PROVE  Alone' /\ Finding'
<1>0. /\ UNCHANGED <<xbeeDevices, table, ipCount, reachable, sound>> /\ main \in Mains
      /\ Single /\ Finding /\ Buffers /\ MainPort /\ ScanPort
      /\ main.pc \in {"wait", "clear"} => scan.pc = "idle"
  BY MainLeaves DEF Sure, Alone, Types, MainLocals
<1>f. ASSUME UNCHANGED scan, scan.pc = "discover" => AtHand' = AtHand PROVE Finding'
  <2>1. Target' = Target
    BY <1>f DEF Target
  <2>2. QED
    BY <1>0, <1>f, <2>1 DEF Finding
<1>i. ASSUME scan.pc = "idle", UNCHANGED scan PROVE Finding'
  BY <1>f, <1>i
<1>n. ASSUME scan.pc = "idle", UNCHANGED scan, Quiet', main'.pc \notin {"wait", "clear"}, main'.got = NoResponse
      PROVE  Alone'
  <2>1. MainPort' /\ ScanPort' /\ Single'
    BY <1>n DEF MainPort, ScanPort, Single, Quiet, Using
  <2>2. Buffers'
    BY <1>0, <1>n DEF Buffers
  <2>3. QED
    BY <1>n, <2>1, <2>2 DEF Alone
<1>1. CASE RecviveData
  <2>1. /\ main.pc = "recv" /\ UNCHANGED <<port, air, scan>>
        /\ main' = main \/ \E s : main' = [main EXCEPT !.pc = "handle", !.batch = s]
    BY <1>1 DEF RecviveData, serial
  <2>2. main'.pc \in {"recv", "handle"} /\ main'.got = main.got
    BY <1>0, <2>1 DEF Mains
  <2>3. UNCHANGED <<UnderWay, AtHand, Target>>
    BY <2>1 DEF UnderWay, AtHand, Target
  <2>4. ScanPort' /\ MainPort' /\ Single' /\ Buffers'
    BY <1>0, <2>1, <2>2, <2>3 DEF ScanPort, MainPort, Single, Buffers, Quiet
  <2>5. Alone'
    BY <2>2, <2>4 DEF Alone
  <2>6. QED
    BY <1>f, <2>1, <2>3, <2>5
<1>2. CASE handleManagerPackage
  <2>1. /\ main.pc = "handle" /\ Package.kind = "rescan" /\ main' = nextPackage /\ UNCHANGED <<port, air>>
        /\ scan' = [Idle EXCEPT !.pc = "start"]
    BY <1>2 DEF handleManagerPackage, serial
  <2>2. main.batch \in Seq(Packages) /\ main.batch # <<>>
    BY <2>1 DEF Types, MainLocals, Mains
  <2>3. 1 \in RescansIn(main.batch)
    BY <2>1, <2>2, HeadTailProperties, LenProperties, EmptySeq DEF Package, RescansIn
  <2>4. scan.pc = "idle"
    BY <2>3 DEF OneRescan
  <2>5. Quiet /\ sound = {}
    BY <1>0, <2>1, <2>4 DEF ScanPort, Using, Finding
  <2>6. main'.pc \notin {"wait", "clear"} /\ main'.got = NoResponse
    BY <1>0, <2>1, <2>2, NextPackage
  <2>7. scan'.pc = "start" /\ scan'.got.buf = <<>> /\ scan'.des = <<>> /\ scan'.addrs = <<>> /\ scan'.from = 0
    BY <2>1 DEF Idle, NoResponse
  <2>8. UnderWay' = UnderWay
    BY <2>1 DEF UnderWay
  <2>9. Alone'
    BY <1>0, <2>1, <2>5, <2>6, <2>7, <2>8 DEF Alone, MainPort, ScanPort, Single, Buffers, Quiet, Using
  <2>10. ipCount \in Nat /\ DOMAIN <<>> = {}
    BY DEF Types, Outside
  <2>11. Finding'
    BY <1>0, <2>5, <2>7, <2>10 DEF Finding
  <2>12. QED
    BY <2>9, <2>11
<1>3. CASE handleForwardingPackage
  <2> DEFINE i == findDeviceIndex(Package.ip)
  <2>1. /\ main.pc = "handle" /\ Package.kind = "forward" /\ UNCHANGED scan
        /\ \/ /\ i > 0 /\ main' = [main EXCEPT !.pc = "wait"] /\ UNCHANGED port
              /\ air' = air (+) SetToBag({[kind |-> "send", what |-> "req", req |-> Package.req,
                                           node |-> xbeeDevices[i].address]})
           \/ main' = nextPackage /\ port' = <<>> /\ UNCHANGED air
    BY <1>3 DEF handleForwardingPackage, sendData
  <2>2. scan.pc = "idle"
    <3>1. mixed' = (mixed \/ scan.pc # "idle") /\ ~ mixed'
      BY <1>3 DEF handleForwardingPackage, Untroubled
    <3>2. QED
      BY <3>1
  <2>3. Quiet
    BY <1>0, <2>1, <2>2 DEF ScanPort, Using
  <2>4. main.got = NoResponse
    BY <1>0, <2>1 DEF Buffers
  <2>5. CASE main' = nextPackage /\ port' = <<>> /\ UNCHANGED air
    <3>1. main.batch # <<>>
      BY <2>1 DEF Types, MainLocals
    <3>2. main'.pc \notin {"wait", "clear"} /\ main'.got = NoResponse
      BY <1>0, <2>5, <3>1, NextPackage
    <3>3. Quiet'
      BY <2>3, <2>5 DEF Quiet, UnderWay
    <3>4. QED
      BY <1>i, <1>n, <2>1, <2>2, <3>2, <3>3
  <2>6. CASE ~ (main' = nextPackage /\ port' = <<>> /\ UNCHANGED air)
    <3>1. /\ i > 0 /\ main' = [main EXCEPT !.pc = "wait"] /\ UNCHANGED port
          /\ air' = air (+) SetToBag({[kind |-> "send", what |-> "req", req |-> Package.req,
                                       node |-> xbeeDevices[i].address]})
      BY <2>1, <2>6
    <3>2. i \in DOMAIN xbeeDevices /\ xbeeDevices[i].ip = Package.ip
      BY <3>1, DeviceFound, LenProperties DEF Types, Shared
    <3>3. Package \in InHand
      <4>1. main.batch \in Seq(Packages) /\ main.batch # <<>>
        BY <2>1 DEF Types, MainLocals, Mains
      <4>2. QED
        BY <4>1, TailSet DEF InHand, Package
    <3>4. xbeeDevices[i].address = Package.for
      BY <2>1, <3>2, <3>3 DEF Sure, Meant
    <3>5. air' = air (+) SetToBag({Req(Package)})
      BY <3>1, <3>4 DEF Req
    <3>6. /\ BagToSet(air (+) SetToBag({Req(Package)})) = BagToSet(air) \cup {Req(Package)}
          /\ \A f \in {Req(Package)} : f \notin BagToSet(air) => (air (+) SetToBag({Req(Package)}))[f] = 1
      BY BagAdd
    <3>7. port' = <<>> /\ UnderWay' = {Req(Package)} /\ air'[Req(Package)] = 1
      BY <2>3, <3>1, <3>5, <3>6 DEF Quiet, UnderWay
    <3>8. main'.pc = "wait" /\ main'.got = NoResponse /\ main'.batch = main.batch
      BY <1>0, <2>4, <3>1 DEF Mains
    <3>9. Package' = Package
      BY <3>8 DEF Package
    <3>10. MainPort'
      BY <3>7, <3>8, <3>9 DEF MainPort, Exchange, Asked, NoResponse
    <3>11. ScanPort' /\ Single' /\ Buffers'
      BY <1>0, <2>1, <2>2, <3>7, <3>8 DEF ScanPort, Single, Buffers, Using
    <3>12. Alone'
      BY <2>1, <2>2, <3>10, <3>11 DEF Alone
    <3>13. QED
      BY <1>i, <2>1, <2>2, <3>12
  <2>7. QED
    BY <2>5, <2>6
<1>4. CASE getResponse
  <2> DEFINE f == Req(Package)  got == main.got
  <2>1. /\ main.pc = "wait" /\ scan.pc = "idle" /\ UNCHANGED <<air, scan>>
        /\ \/ readPacket /\ answerManager(taken(got, Head(port)))
           \/ timeOut(got.count > 0) /\ UNCHANGED port /\ answerManager(timedOut(got))
    BY <1>0, <1>4 DEF getResponse
  <2>2. UnderWay' = UnderWay
    BY <2>1 DEF UnderWay
  <2>3. f \in Sends /\ got \in Responses /\ Exchange(f, got, port, UnderWay, reachable, sound)
    BY <1>0, <2>1, Askers DEF MainPort, Mains
  <2>4. ASSUME NEW g \in Responses, answerManager(g), ends(g) => Quiet',
               ~ ends(g) => Exchange(f, g, port', UnderWay', reachable, sound)
        PROVE  Alone'
    <3>1. /\ main'.batch = main.batch
          /\ \/ ~ ends(g) /\ main'.pc = "wait" /\ main'.got = g
             \/ ends(g) /\ main'.pc = "clear"
      BY <2>1, <2>4, AnswerFacts DEF Types
    <3>2. Package' = Package
      BY <3>1 DEF Package
    <3>3. MainPort'
      BY <1>0, <2>4, <3>1, <3>2 DEF MainPort
    <3>4. ScanPort' /\ Single' /\ Buffers'
      BY <1>0, <2>1, <2>2, <2>4, <3>1 DEF ScanPort, Single, Buffers, Using
    <3>5. QED
      BY <2>1, <3>3, <3>4 DEF Alone
  <2>5. CASE readPacket /\ answerManager(taken(got, Head(port)))
    <3> DEFINE g == taken(got, Head(port))
    <3>1. port # <<>> /\ port' = Tail(port)
      BY <2>5 DEF readPacket
    <3>2. \/ ~ ends(g) /\ Exchange(f, g, Tail(port), UnderWay, reachable, sound)
          \/ ends(g) /\ Tail(port) = <<>> /\ UnderWay = {}
      <4> HIDE DEF f, got
      <4>1. QED
        BY <2>3, <3>1, ExchangeRead, ZenonT(60)
    <3>3. g \in Responses
      BY <2>3, <2>5, ReadFacts, TakenTypes DEF Types
    <3>4. answerManager(g)
      BY <2>5
    <3> HIDE DEF g, f, got
    <3>5. ends(g) => Quiet'
      BY <2>2, <3>1, <3>2 DEF Quiet
    <3>6. ~ ends(g) => Exchange(f, g, port', UnderWay', reachable, sound)
      BY <2>2, <3>1, <3>2
    <3>7. Alone'
      BY <2>4, <3>3, <3>4, <3>5, <3>6
    <3>8. QED
      BY <1>i, <2>1, <3>7
  <2>6. CASE timeOut(got.count > 0) /\ UNCHANGED port /\ answerManager(timedOut(got))
    <3> DEFINE g == timedOut(got)
    <3>1. Quiet
      BY <2>6, CalmTimeOut
    <3>2. ends(g)
      <4>1. Exchange(f, got, <<>>, {}, reachable, sound)
        BY <2>3, <3>1 DEF Quiet
      <4> HIDE DEF f, got
      <4>2. QED
        BY <2>3, <4>1, ExchangeTimeOut
    <3>3. g \in Responses
      BY <2>3, TimedOutTypes
    <3>4. answerManager(g)
      BY <2>6
    <3> HIDE DEF g
    <3>5. Quiet'
      BY <2>2, <2>6, <3>1 DEF Quiet
    <3>6. Alone'
      BY <2>4, <3>2, <3>3, <3>4, <3>5
    <3>7. QED
      BY <1>i, <2>1, <3>6
  <2>7. QED
    BY <2>1, <2>5, <2>6
<1>5. CASE clearComportBuffer
  <2>1. /\ main.pc = "clear" /\ scan.pc = "idle" /\ port' = <<>> /\ main' = nextPackage
        /\ UNCHANGED <<air, scan>>
    BY <1>0, <1>5 DEF clearComportBuffer
  <2>2. Quiet'
    BY <1>0, <2>1 DEF ScanPort, Using, Quiet, UnderWay
  <2>3. main.batch # <<>>
    BY <2>1 DEF Types, MainLocals
  <2>4. main'.pc \notin {"wait", "clear"} /\ main'.got = NoResponse
    BY <1>0, <2>1, <2>3, NextPackage
  <2>5. QED
    BY <1>i, <1>n, <2>1, <2>2, <2>4
<1>6. QED
  BY <1>1, <1>2, <1>3, <1>4, <1>5 DEF serverLoop

\* A scan goes on among the nodes it has found: to the next step for its node, or to the
\* next node when this one is not sound.
LEMMA FindingGoes ==
    ASSUME Types, Finding, UNCHANGED <<table, sound, ipCount>>,
           scan.pc \notin {"idle", "start", "discover"},
           scan'.pc \notin {"idle", "start", "discover", "register"},
           scan'.addrs = scan.addrs, scan'.from = scan.from,
           \/ /\ scan'.i = scan.i
              /\ scan'.pc \in {"des", "desTx", "desRx"} /\ Target \in sound => scan'.tries = 0
              /\ scan'.pc = "ask" /\ Target \in sound => scan'.des # <<>>
           \/ scan'.i = scan.i + 1 /\ scan'.pc = "syn" /\ Target \notin sound
    PROVE  Finding'
<1>1. CASE scan'.i = scan.i
  <2>1. Target' = Target
    BY <1>1 DEF Target
  <2>2. QED
    BY <1>1, <2>1 DEF Finding
<1>2. CASE scan'.i = scan.i + 1 /\ scan'.pc = "syn" /\ Target \notin sound
  <2>1. scan.i \in Nat /\ DOMAIN scan.addrs = 1 .. Len(scan.addrs) /\ Len(scan.addrs) \in Nat
    BY LenProperties DEF Types, ScanLocals, Scans
  <2>2. ASSUME NEW k \in DOMAIN scan.addrs, k < scan.i + 1, scan.addrs[k] \in sound PROVE k < scan.i
    BY <1>2, <2>1, <2>2 DEF Target
  <2>3. QED
    BY <1>2, <2>2 DEF Finding
<1>3. QED
  BY <1>1, <1>2

\* While a scan runs, the main loop does not use the port.
LEMMA ScanAlone ==
    ASSUME Types, Alone, ScanAllDevice
    PROVE  /\ main.pc \notin {"wait", "clear"}
           /\ main'.pc \notin {"wait", "clear"} /\ main'.got = NoResponse
<1>1. main.pc \notin {"wait", "clear"} /\ main.got = NoResponse
  BY ScanLeaves DEF Alone, Buffers
<1>2. endScan => main' = main \/ main' = Waiting
  BY DEF endScan
<1>3. QED
  BY <1>1, <1>2, ScanLeaves DEF Waiting

\* A thread that sends when all is quiet has its request under way alone.
LEMMA SendsAlone ==
    ASSUME Quiet, Single, NEW f, sendData(f), UNCHANGED port
    PROVE  port' = <<>> /\ BagToSet(air') = {f} /\ \A g \in BagToSet(air') : air'[g] = 1
<1>1. /\ BagToSet(air (+) SetToBag({f})) = BagToSet(air) \cup {f}
      /\ \A g \in {f} : g \notin BagToSet(air) => (air (+) SetToBag({f}))[g] = 1
  BY BagAdd
<1>2. QED
  BY <1>1 DEF Quiet, UnderWay, sendData

\* The steps of a scan.
LEMMA ScanCalm ==
    ASSUME Types, Ips, Sure, ScanAllDevice, Untroubled, Untroubled', faults' = faults
    PROVE  Alone' /\ Finding'
<1>0. /\ scan \in Scans /\ scan.i \in Nat /\ scan.got \in Responses
      /\ Single /\ Finding /\ Buffers /\ ScanPort /\ Alone
      /\ main.pc \notin {"wait", "clear"}
      /\ main'.pc \notin {"wait", "clear"} /\ main'.got = NoResponse
      /\ scan.pc \notin Using => Quiet
      /\ sound \subseteq reachable /\ ipCount \in Nat
      /\ reachable' = reachable
  BY ScanAlone, ScanLeaves DEF Sure, Alone, ScanPort, Types, ScanLocals, Scans, Outside
<1>a. ASSUME Single', ScanPort', Buffers' PROVE Alone'
  BY <1>0, <1>a DEF Alone, MainPort
<1>q. ASSUME Quiet', scan'.pc \notin Using, Buffers' PROVE Alone'
  <2>1. ScanPort'
    BY <1>q DEF ScanPort, Using
  <2>2. Single'
    BY <1>q DEF Single, Quiet
  <2>3. QED
    BY <1>a, <1>q, <2>1, <2>2
<1>1. CASE startScan
  <2> DEFINE R == {[kind |-> "nd", node |-> n] : n \in reachable}
  <2>1. /\ scan.pc = "start" /\ port' = <<>> /\ air' = air (+) SetToBag(R)
        /\ scan' = [Idle EXCEPT !.pc = "discover", !.from = ipCount]
        /\ sound' = reachable /\ UNCHANGED <<table, ipCount>>
    BY <1>1 DEF startScan
  <2>2. Quiet
    BY <1>0, <2>1 DEF Using
  <2>3. \A f \in R : f.kind = "nd"
    OBVIOUS
  <2>4. \A n \in reachable : [kind |-> "nd", node |-> n] \in R
    OBVIOUS
  <2> HIDE DEF R
  <2>5. /\ BagToSet(air (+) SetToBag(R)) = BagToSet(air) \cup R
        /\ \A f \in R : f \notin BagToSet(air) => (air (+) SetToBag(R))[f] = 1
    BY BagAdd
  <2>6. UnderWay' = R /\ \A f \in R : air'[f] = 1
    BY <2>1, <2>2, <2>5 DEF Quiet, UnderWay
  <2>7. ToSet(<<>>) = {} /\ DOMAIN <<>> = {}
    BY DEF ToSet
  <2>8. AtHand' = R
    BY <2>1, <2>6, <2>7 DEF AtHand
  <2>9. /\ scan'.pc = "discover" /\ scan'.addrs = <<>> /\ scan'.from = ipCount
        /\ scan'.got.buf = <<>> /\ scan'.des = <<>>
    BY <2>1 DEF Idle, NoResponse
  <2>10. Alone'
    BY <1>0, <1>a, <2>3, <2>6, <2>8, <2>9 DEF Single, ScanPort, Buffers, Using
  <2>11. Finding'
    BY <1>0, <2>1, <2>4, <2>7, <2>8, <2>9 DEF Finding
  <2>12. QED
    BY <2>10, <2>11
<1>2. CASE discover
  <2>1. /\ scan.pc = "discover" /\ UNCHANGED <<air, table, ipCount, sound>>
        /\ \A f \in AtHand : f.kind = "nd"
        /\ scan.i = 1 /\ port \in Seq(Frame) /\ scan.addrs \in Seq(Nodes)
    BY <1>0, <1>2 DEF discover, ScanPort, Types, ScanLocals, Serial, Scans
  <2>2. UnderWay' = UnderWay
    BY <2>1 DEF UnderWay
  <2>3. CASE readPacket
    <3>1. port # <<>> /\ port' = Tail(port)
      BY <2>3 DEF readPacket
    <3>2. /\ Head(port) \in ToSet(port) /\ Head(port) \in Frame
          /\ ToSet(Tail(port)) \cup {Head(port)} = ToSet(port)
      BY <2>1, <3>1, HeadAndTail
    <3>3. Head(port).kind = "nd" /\ Head(port).node \in Nodes
      BY <2>1, <3>2, FrameKinds DEF AtHand
    <3>4. scan' = [scan EXCEPT !.addrs = Append(@, Head(port).node)]
      <4>1. ~ timeOut(FALSE)
        BY <3>1 DEF timeOut
      <4>2. QED
        BY <1>2, <3>3, <4>1 DEF discover, recvResponse
    <3>5. /\ scan'.addrs = Append(scan.addrs, Head(port).node) /\ scan'.pc = "discover" /\ scan'.i = 1
          /\ scan'.from = scan.from /\ scan'.got = scan.got /\ scan'.des = scan.des
      BY <1>0, <2>1, <3>4 DEF Scans
    <3>6. ToSet(scan'.addrs) = ToSet(scan.addrs) \cup {Head(port).node}
      BY <2>1, <3>3, <3>5, AppendContents
    <3>7. AtHand = AtHand' \cup {Head(port)}
      BY <2>2, <3>1, <3>2 DEF AtHand
    <3>8. Alone'
      BY <1>0, <1>a, <2>1, <2>2, <3>5, <3>7 DEF Single, ScanPort, Buffers, Using
    <3>9. \A n \in sound : [kind |-> "nd", node |-> n] \in AtHand' \/ n \in ToSet(scan'.addrs)
      <4>1. ASSUME NEW n \in sound, [kind |-> "nd", node |-> n] = Head(port) PROVE n = Head(port).node
        BY <4>1
      <4>2. QED
        BY <1>0, <2>1, <3>6, <3>7, <4>1 DEF Finding
    <3>10. \A k \in DOMAIN scan'.addrs : ~ (k < scan'.i)
      <4>1. scan'.addrs \in Seq(Nodes)
        BY <2>1, <3>3, <3>5, AppendContents
      <4>2. DOMAIN scan'.addrs = 1 .. Len(scan'.addrs)
        BY <4>1, LenProperties
      <4>3. QED
        BY <3>5, <4>2
    <3>11. Finding'
      BY <1>0, <2>1, <3>5, <3>9, <3>10 DEF Finding
    <3>12. QED
      BY <3>8, <3>11
  <2>4. CASE ~ readPacket
    <3>1. timeOut(FALSE) /\ UNCHANGED port /\ discoveryFailed
      BY <1>2, <2>4 DEF discover
    <3>2. Quiet
      BY <3>1, CalmTimeOut
    <3>3. ToSet(<<>>) = {}
      BY DEF ToSet
    <3>4. Quiet' /\ AtHand = {} /\ AtHand' = {}
      BY <2>2, <3>1, <3>2, <3>3 DEF Quiet, AtHand
    <3>5. /\ scan'.pc \in {"discover", "syn"} /\ scan'.addrs = scan.addrs /\ scan'.i = 1
          /\ scan'.from = scan.from /\ scan'.got = scan.got /\ scan'.des = scan.des
      BY <1>0, <2>1, <3>1 DEF discoveryFailed, Scans
    <3>6. Buffers'
      BY <1>0, <2>1, <3>5 DEF Buffers
    <3>7. Alone'
      BY <1>a, <3>4, <3>5, <3>6 DEF Single, ScanPort, Using, Quiet
    <3>8. sound \subseteq ToSet(scan.addrs)
      BY <1>0, <2>1, <3>4 DEF Finding
    <3>9. Finding'
      BY <1>0, <2>1, <3>5, <3>8 DEF Finding
    <3>10. QED
      BY <3>7, <3>9
  <2>5. QED
    BY <2>3, <2>4
<1>3. CASE sendSyn
  <2>1. /\ scan.pc = "syn" /\ UNCHANGED <<port, table, ipCount, sound>> /\ sendData(Syn(Target))
        /\ scan' = [scan EXCEPT !.pc = "acking", !.got = [NoResponse EXCEPT !.buf = scan.got.buf]]
    BY <1>3 DEF sendSyn, Syn
  <2>2. Quiet /\ scan.got.buf = <<>>
    BY <1>0, <2>1 DEF Using, Buffers
  <2>3. [NoResponse EXCEPT !.buf = <<>>] = NoResponse
    BY DEF NoResponse
  <2>4. /\ scan'.pc = "acking" /\ scan'.got = NoResponse /\ scan'.i = scan.i /\ scan'.addrs = scan.addrs
        /\ scan'.from = scan.from /\ scan'.des = scan.des
    BY <1>0, <2>1, <2>2, <2>3 DEF Scans
  <2>5. Target' = Target
    BY <2>4 DEF Target
  <2>6. port' = <<>> /\ UnderWay' = {Syn(Target)} /\ Single'
    BY <1>0, <2>1, <2>2, SendsAlone DEF Single, UnderWay
  <2>7. ScanPort'
    BY <2>4, <2>5, <2>6 DEF ScanPort, Using, Exchange, Asked, NoResponse
  <2>8. Buffers'
    BY <1>0, <2>1, <2>4 DEF Buffers
  <2>9. Finding'
    BY <1>0, <2>1, <2>4, FindingGoes
  <2>10. QED
    BY <1>a, <2>6, <2>7, <2>8, <2>9
<1>4. CASE recvAck
  <2> DEFINE f == Syn(Target)  got == scan.got
  <2>1. /\ scan.pc = "acking" /\ UNCHANGED <<air, table, ipCount, sound>>
        /\ \/ readPacket /\ synAnswer(taken(got, Head(port)))
           \/ timeOut(got.count > 0) /\ UNCHANGED port /\ synAnswer(timedOut(got))
    BY <1>4 DEF recvAck
  <2>2. UnderWay' = UnderWay
    BY <2>1 DEF UnderWay
  <2>3. /\ f \in Sends /\ f.node = Target /\ f.what = "SYN" /\ got \in Responses
        /\ Exchange(f, got, port, UnderWay, reachable, sound)
    BY <1>0, <2>1, Askers DEF ScanPort, Syn
  <2>4. CASE readPacket /\ synAnswer(taken(got, Head(port)))
    <3> DEFINE g == taken(got, Head(port))
    <3>1. port # <<>> /\ port' = Tail(port) /\ synAnswer(g) /\ g \in Responses
      BY <2>3, <2>4, ReadFacts, TakenTypes DEF readPacket, Types
    <3>2. \/ ~ ends(g) /\ Exchange(f, g, Tail(port), UnderWay, reachable, sound)
          \/ /\ ends(g) /\ g.result = "ok" /\ Tail(port) = <<>> /\ UnderWay = {}
             /\ \E a : Honest(a, f, sound) /\ g.buf = <<a>>
      <4> HIDE DEF f, got
      <4>1. QED
        BY <2>3, <3>1, ExchangeRead, ZenonT(60)
    <3> HIDE DEF g, f, got
    <3>3. CASE ~ ends(g) /\ Exchange(f, g, Tail(port), UnderWay, reachable, sound)
      <4>1. scan' = [scan EXCEPT !.got = g]
        BY <3>1, <3>3 DEF synAnswer
      <4>2. /\ scan'.pc = "acking" /\ scan'.got = g /\ scan'.i = scan.i /\ scan'.addrs = scan.addrs
            /\ scan'.from = scan.from /\ scan'.des = scan.des
        BY <1>0, <2>1, <4>1 DEF Scans
      <4>3. Target' = Target
        BY <4>2 DEF Target
      <4>4. ScanPort' /\ Single'
        BY <1>0, <2>1, <2>2, <3>1, <3>3, <4>2, <4>3 DEF ScanPort, Using, Single, f
      <4>5. Buffers'
        BY <1>0, <2>1, <4>2 DEF Buffers
      <4>6. Finding'
        BY <1>0, <2>1, <4>2, FindingGoes
      <4>7. QED
        BY <1>a, <4>4, <4>5, <4>6
    <3>4. CASE /\ ends(g) /\ g.result = "ok" /\ Tail(port) = <<>> /\ UnderWay = {}
               /\ \E a : Honest(a, f, sound) /\ g.buf = <<a>>
      <4>1. isAck(g.buf)
        <5>1. PICK a : Honest(a, f, sound) /\ g.buf = <<a>>
          BY <3>4
        <5>2. a.what = "ACK"
          BY <2>3, <5>1, AnswersAre DEF Honest
        <5>3. QED
          BY <5>1, <5>2 DEF isAck
      <4>2. scan' = [scan EXCEPT !.pc = "des", !.got = g, !.tries = 0, !.asks = 0]
        BY <3>1, <3>4, <4>1 DEF synAnswer
      <4>3. /\ scan'.pc = "des" /\ scan'.tries = 0 /\ scan'.i = scan.i /\ scan'.addrs = scan.addrs
            /\ scan'.from = scan.from /\ scan'.des = scan.des
        BY <1>0, <4>2 DEF Scans
      <4>4. Quiet'
        BY <2>2, <3>1, <3>4 DEF Quiet
      <4>5. Buffers'
        BY <1>0, <2>1, <4>3 DEF Buffers
      <4>6. Finding'
        BY <1>0, <2>1, <4>3, FindingGoes
      <4>7. QED
        BY <1>q, <4>3, <4>4, <4>5, <4>6 DEF Using
    <3>5. QED
      BY <3>2, <3>3, <3>4
  <2>5. CASE timeOut(got.count > 0) /\ UNCHANGED port /\ synAnswer(timedOut(got))
    <3> DEFINE g == timedOut(got)
    <3>1. Quiet
      BY <2>5, CalmTimeOut
    <3>2. f.node \notin reachable /\ ends(g) /\ g.result = "timeout"
      <4>1. Exchange(f, got, <<>>, {}, reachable, sound)
        BY <2>3, <3>1 DEF Quiet
      <4> HIDE DEF f, got
      <4>2. QED
        BY <2>3, <4>1, ExchangeTimeOut
    <3>3. synAnswer(g)
      BY <2>5
    <3> HIDE DEF g, f
    <3>4. scan' = [scan EXCEPT !.pc = "syn", !.i = @ + 1, !.got = NoResponse]
      BY <3>2, <3>3 DEF synAnswer
    <3>5. /\ scan'.pc = "syn" /\ scan'.i = scan.i + 1 /\ scan'.got = NoResponse /\ scan'.addrs = scan.addrs
          /\ scan'.from = scan.from /\ scan'.des = scan.des
      BY <1>0, <3>4 DEF Scans
    <3>6. Quiet'
      BY <2>2, <2>5, <3>1 DEF Quiet
    <3>7. Buffers'
      BY <1>0, <2>1, <3>5 DEF Buffers, NoResponse
    <3>8. Target \notin sound
      BY <1>0, <2>3, <3>2
    <3>9. Finding'
      BY <1>0, <2>1, <3>5, <3>8, FindingGoes
    <3>10. QED
      BY <1>q, <3>5, <3>6, <3>7, <3>9 DEF Using
  <2>6. QED
    BY <2>1, <2>4, <2>5
<1>5. CASE sendDes
  <2>1. /\ scan.pc = "des" /\ UNCHANGED <<port, table, ipCount, sound>> /\ sendData(Des(Target))
        /\ scan' = [scan EXCEPT !.pc = "desTx", !.des = <<>>, !.asks = @ + 1]
    BY <1>5 DEF sendDes, Des
  <2>2. Quiet
    BY <1>0, <2>1 DEF Using
  <2>3. /\ scan'.pc = "desTx" /\ scan'.i = scan.i /\ scan'.addrs = scan.addrs /\ scan'.tries = scan.tries
        /\ scan'.from = scan.from /\ scan'.des = <<>>
    BY <1>0, <2>1 DEF Scans
  <2>4. Target' = Target
    BY <2>3 DEF Target
  <2>5. port' = <<>> /\ UnderWay' = {Des(Target)} /\ Single'
    BY <1>0, <2>1, <2>2, SendsAlone DEF Single, UnderWay
  <2>6. ScanPort'
    BY <2>3, <2>4, <2>5 DEF ScanPort, Using, Asked
  <2>7. Buffers'
    BY <1>0, <2>3 DEF Buffers
  <2>8. Target \in sound => scan.tries = 0
    BY <1>0, <2>1 DEF Finding
  <2>9. Finding'
    BY <1>0, <2>1, <2>3, <2>8, FindingGoes
  <2>10. QED
    BY <1>a, <2>5, <2>6, <2>7, <2>9
<1>6. CASE recvTx
  <2> DEFINE f == Des(Target)
  <2>1. /\ scan.pc = "desTx" /\ UNCHANGED <<air, table, ipCount, sound>>
        /\ Asked(f, port, UnderWay, reachable, sound) /\ f.node = Target /\ scan.des = <<>>
    BY <1>0, <1>6 DEF recvTx, ScanPort, Des, Buffers
  <2>2. UnderWay' = UnderWay
    BY <2>1 DEF UnderWay
  <2>3. readPacket
    <3>1. CASE timeOut(FALSE) /\ UNCHANGED port
      <4>1. Quiet
        BY <3>1, CalmTimeOut
      <4> HIDE DEF f
      <4>2. QED
        BY <2>1, <4>1, AskedRead DEF Quiet
    <3>2. QED
      BY <1>6, <3>1 DEF recvTx
  <2>4. port # <<>> /\ port' = Tail(port)
    BY <2>3 DEF readPacket
  <2>5. goTo(IF recvResponse("tx") THEN "desRx" ELSE "ask")
    <3>1. ~ timeOut(FALSE)
      BY <2>4 DEF timeOut
    <3>2. QED
      BY <1>6, <3>1 DEF recvTx
  <2>6. /\ scan'.pc = (IF recvResponse("tx") THEN "desRx" ELSE "ask") /\ scan'.i = scan.i
        /\ scan'.addrs = scan.addrs /\ scan'.from = scan.from /\ scan'.des = scan.des /\ scan'.tries = scan.tries
    BY <1>0, <2>5 DEF goTo, Scans
  <2>7. Target' = Target
    BY <2>6 DEF Target
  <2>8. Target \in sound => scan.tries = 0
    BY <1>0, <2>1 DEF Finding
  <2>9. \/ Head(port) = Tx(FALSE) /\ Tail(port) = <<>> /\ UnderWay = {} /\ f.node \notin reachable
        \/ Head(port) = Tx(TRUE) /\ Told(f, Tail(port), UnderWay, sound)
    <3> HIDE DEF f
    <3>1. QED
      BY <2>1, <2>4, AskedRead
  <2> HIDE DEF f
  <2>10. CASE Head(port) = Tx(TRUE) /\ Told(f, Tail(port), UnderWay, sound)
    <3>1. scan'.pc = "desRx"
      BY <2>6, <2>10 DEF recvResponse, Tx
    <3>2. ScanPort' /\ Single'
      BY <1>0, <2>1, <2>2, <2>4, <2>7, <2>10, <3>1 DEF ScanPort, Using, Single, f
    <3>3. Buffers'
      BY <1>0, <2>1, <2>6, <3>1 DEF Buffers
    <3>4. Finding'
      BY <1>0, <2>1, <2>6, <2>8, <3>1, FindingGoes
    <3>5. QED
      BY <1>a, <3>2, <3>3, <3>4
  <2>11. CASE Head(port) = Tx(FALSE) /\ Tail(port) = <<>> /\ UnderWay = {} /\ f.node \notin reachable
    <3>1. scan'.pc = "ask"
      BY <2>6, <2>11 DEF recvResponse, Tx
    <3>2. Quiet'
      BY <2>2, <2>4, <2>11 DEF Quiet
    <3>3. Buffers'
      BY <1>0, <2>1, <2>6, <3>1 DEF Buffers
    <3>4. Target \notin sound
      BY <1>0, <2>1, <2>11
    <3>5. Finding'
      BY <1>0, <2>1, <2>6, <3>1, <3>4, FindingGoes
    <3>6. QED
      BY <1>q, <3>1, <3>2, <3>3, <3>5 DEF Using
  <2>12. QED
    BY <2>9, <2>10, <2>11
<1>7. CASE recvData
  <2> DEFINE f == Des(Target)  a == Head(port)
  <2>1. /\ scan.pc = "desRx" /\ UNCHANGED <<air, table, ipCount, sound>>
        /\ Told(f, port, UnderWay, sound) /\ f.node = Target /\ f.what = "DES" /\ scan.des = <<>>
        /\ f \in Sends
    BY <1>0, <1>7, Askers DEF recvData, ScanPort, Des, Buffers
  <2>2. UnderWay' = UnderWay
    BY <2>1 DEF UnderWay
  <2>3. readPacket
    <3>1. CASE timeOut(scan.des # <<>>) /\ UNCHANGED port
      <4>1. Quiet
        BY <3>1, CalmTimeOut
      <4> HIDE DEF f
      <4>2. QED
        BY <2>1, <4>1, ToldRead DEF Quiet
    <3>2. QED
      BY <1>7, <3>1 DEF recvData
  <2>4. port # <<>> /\ port' = Tail(port)
    BY <2>3 DEF readPacket
  <2>5. Honest(a, f, sound) /\ Tail(port) = <<>> /\ UnderWay = {}
    <3> HIDE DEF f
    <3>1. QED
      BY <2>1, <2>4, ToldRead
  <2>6. a \in {[kind |-> "rx", what |-> w, node |-> Target] : w \in {"des", "garbled"}}
    <3> HIDE DEF f, a
    <3>1. a \in Answers(f)
      BY <2>5 DEF Honest
    <3>2. a \in {[kind |-> "rx", what |-> w, node |-> f.node] : w \in {"des", "garbled"}}
      BY <2>1, <3>1, AnswersAre
    <3>3. QED
      BY <2>1, <3>2
  <2> HIDE DEF f
  <2>7. /\ a.kind = "rx" /\ a.what \in {"des", "garbled"}
        /\ a.what = "des" => a = [kind |-> "rx", what |-> "des", node |-> Target]
        /\ a.what = "garbled" => Target \notin sound
    BY <2>1, <2>5, <2>6 DEF Honest
  <2>8. checkDescription(<<a>>)
    <3>1. CASE timeOut(scan.des # <<>>) /\ UNCHANGED port
      <4>1. Quiet
        BY <3>1, CalmTimeOut
      <4>2. QED
        BY <2>4, <4>1 DEF Quiet
    <3>2. Append(scan.des, a) = <<a>>
      BY <2>1
    <3>3. recvResponse("rx") /\ hasStartAndEnd(a)
      BY <2>7 DEF recvResponse, hasStartAndEnd
    <3>4. QED
      BY <1>7, <3>1, <3>2, <3>3 DEF recvData
  <2>9. Quiet'
    BY <2>2, <2>4, <2>5 DEF Quiet
  <2>10. checkSumPasses(<<a>>) <=> a.what = "des" /\ scan.tries = 0
    BY DEF checkSumPasses
  <2>11. Target \in sound => scan.tries = 0
    BY <1>0, <2>1 DEF Finding
  <2> HIDE DEF a
  <2>12. CASE checkSumPasses(<<a>>)
    <3>1. scan' = [scan EXCEPT !.pc = "ask", !.des = <<a>>]
      BY <2>8, <2>12 DEF checkDescription
    <3>2. /\ scan'.pc = "ask" /\ scan'.des = <<a>> /\ scan'.i = scan.i /\ scan'.addrs = scan.addrs
          /\ scan'.from = scan.from
      BY <1>0, <3>1 DEF Scans
    <3>3. Target' = Target
      BY <3>2 DEF Target
    <3>4. Buffers'
      BY <1>0, <2>7, <2>10, <2>12, <3>2, <3>3 DEF Buffers
    <3>5. <<a>> # <<>>
      OBVIOUS
    <3>6. Finding'
      BY <1>0, <2>1, <3>2, <3>5, FindingGoes
    <3>7. QED
      BY <1>q, <2>9, <3>2, <3>4, <3>6 DEF Using
  <2>13. CASE ~ checkSumPasses(<<a>>)
    <3>1. scan' = [scan EXCEPT !.des = <<>>, !.tries = @ + 1,
                               !.pc = IF scan.tries + 1 < maxReTryTimes THEN "des" ELSE "ask"]
      BY <2>8, <2>13 DEF checkDescription
    <3>2. /\ scan'.pc \in {"des", "ask"} /\ scan'.des = <<>> /\ scan'.i = scan.i /\ scan'.addrs = scan.addrs
          /\ scan'.from = scan.from
      BY <1>0, <3>1 DEF Scans
    <3>3. Buffers'
      BY <1>0, <3>2 DEF Buffers
    <3>4. Target \notin sound
      BY <2>7, <2>10, <2>11, <2>13
    <3>5. Finding'
      BY <1>0, <2>1, <3>2, <3>4, FindingGoes
    <3>6. QED
      BY <1>q, <2>9, <3>2, <3>3, <3>5 DEF Using
  <2>14. QED
    BY <2>12, <2>13
<1>8. CASE askIoTIp
  <2>1. /\ scan.pc = "ask" /\ UNCHANGED <<port, air, table, sound>> /\ ipCount' = ipCount + 1
        /\ scan' = [scan EXCEPT !.pc = "register", !.ip = ipCount]
    BY <1>8 DEF askIoTIp, serial
  <2>2. /\ scan'.pc = "register" /\ scan'.ip = ipCount /\ scan'.i = scan.i /\ scan'.addrs = scan.addrs
        /\ scan'.from = scan.from /\ scan'.des = scan.des
    BY <1>0, <2>1 DEF Scans
  <2>3. Target' = Target
    BY <2>2 DEF Target
  <2>4. Quiet'
    BY <1>0, <2>1 DEF Using, Quiet, UnderWay
  <2>5. Buffers'
    BY <1>0, <2>1, <2>2, <2>3 DEF Buffers
  <2>6. scan.from \in Nat /\ scan.from <= ipCount
    BY <1>0 DEF Scans, Finding
  <2>7. Finding'
    BY <1>0, <2>1, <2>2, <2>3, <2>6 DEF Finding
  <2>8. QED
    BY <1>q, <2>2, <2>4, <2>5, <2>7 DEF Using
<1>9. CASE registerDevice
  <2>1. /\ scan.pc = "register" /\ scan'.pc = "syn" /\ scan'.i = scan.i + 1 /\ scan'.addrs = scan.addrs
        /\ scan'.from = scan.from /\ scan'.got = NoResponse /\ UNCHANGED <<port, air, ipCount, sound>>
        /\ Registering \/ (UNCHANGED table /\ scan.des = <<>>)
    BY <1>9, RegisterFacts
  <2>2. scan'.des = <<>>
    BY <1>0, <1>9 DEF registerDevice, Scans
  <2>3. Quiet'
    BY <1>0, <2>1 DEF Using, Quiet, UnderWay
  <2>4. Buffers'
    BY <1>0, <2>1, <2>2 DEF Buffers, NoResponse
  <2>5. CASE UNCHANGED table /\ scan.des = <<>>
    <3>1. Target \notin sound
      BY <1>0, <2>1, <2>5 DEF Finding
    <3>2. Finding'
      BY <1>0, <2>1, <2>5, <3>1, FindingGoes
    <3>3. QED
      BY <1>q, <2>1, <2>3, <2>4, <3>2 DEF Using
  <2>6. CASE Registering
    <3>1. scan.des = <<[kind |-> "rx", what |-> "des", node |-> Target]>>
      BY <1>0, <2>6 DEF Registering, Buffers
    <3>2. scan.des[1].node = Target
      BY <3>1
    <3>3. /\ table' = [table EXCEPT ![Target] = scan.ip] /\ table \in [Nodes -> NoIp .. MaxIps - 1]
          /\ scan.addrs \in Seq(Nodes) /\ scan.ip >= scan.from /\ scan.pc = "register"
      BY <1>0, <2>1, <2>6, <3>2 DEF Registering, Types, Outside, Scans, Finding
    <3>4. ASSUME NEW k \in DOMAIN scan.addrs, k < scan.i + 1, scan.addrs[k] \in sound
          PROVE  table'[scan.addrs[k]] >= scan.from
      <4> DEFINE n == scan.addrs[k]
      <4>1. n \in Nodes /\ k \in Nat
        BY <3>3, LenProperties, ElementOfSeq
      <4>2. k = scan.i => n = Target
        BY DEF Target
      <4>3. k < scan.i => table[n] >= scan.from
        BY <1>0, <3>4 DEF Finding
      <4>4. k < scan.i \/ k = scan.i
        BY <1>0, <3>4, <4>1
      <4> HIDE DEF n
      <4>5. CASE n = Target
        BY <3>3, <4>1, <4>5 DEF n
      <4>6. CASE n # Target
        BY <3>3, <4>1, <4>2, <4>3, <4>4, <4>6 DEF n
      <4>7. QED
        BY <4>5, <4>6
    <3>5. Finding'
      BY <1>0, <2>1, <3>4 DEF Finding
    <3>6. QED
      BY <1>q, <2>1, <2>3, <2>4, <3>5 DEF Using
  <2>7. QED
    BY <2>1, <2>5, <2>6
<1>10. CASE endScan
  <2>1. scan.pc = "syn" /\ UNCHANGED <<port, air, ipCount, table>> /\ scan' = Idle /\ sound' = {}
    BY <1>10 DEF endScan, serial, manager
  <2>2. Quiet'
    BY <1>0, <2>1 DEF Using, Quiet, UnderWay
  <2>3. scan'.pc = "idle" /\ scan'.addrs = <<>> /\ scan'.from = 0 /\ scan'.des = <<>>
    BY <2>1 DEF Idle
  <2>4. Buffers'
    BY <1>0, <2>3 DEF Buffers
  <2>5. DOMAIN <<>> = {}
    OBVIOUS
  <2>6. Finding'
    BY <1>0, <2>1, <2>3, <2>5 DEF Finding
  <2>7. QED
    BY <1>q, <2>2, <2>3, <2>4, <2>6 DEF Using
<1>11. QED
  BY <1>1, <1>2, <1>3, <1>4, <1>5, <1>6, <1>7, <1>8, <1>9, <1>10 DEF ScanAllDevice

-----------------------------------------------------------------------------
(* The invariant and the theorems.                                         *)

Inv == /\ Types /\ Ips /\ DevicesDistinct /\ OneRescan
       /\ Untroubled => Sure

LEMMA InitInv == Init => Inv
<1> SUFFICES ASSUME Init PROVE Inv
  OBVIOUS
<1>1. Types
  BY InitTypes
<1>2. /\ scan = [Idle EXCEPT !.pc = "start"] /\ main = [Waiting EXCEPT !.pc = "off"]
      /\ xbeeDevices = <<>> /\ port = <<>> /\ air = EmptyBag /\ wire = <<>>
      /\ table = [n \in Nodes |-> NoIp] /\ ipCount = 0 /\ rescans = 0 /\ sound = {}
  BY DEF Init
<1>3. /\ scan.pc = "start" /\ scan.got = NoResponse /\ scan.des = <<>> /\ scan.addrs = <<>>
      /\ scan.i = 1 /\ scan.from = 0
  BY <1>2 DEF Idle
<1>4. main.pc = "off" /\ main.got = NoResponse /\ main.batch = <<>>
  BY <1>2 DEF Waiting
<1>5. DOMAIN <<>> = {} /\ ToSet(<<>>) = {}
  BY DEF ToSet
<1>6. Ips /\ DevicesDistinct
  BY <1>2, <1>3, <1>4, <1>5 DEF Ips, DevicesDistinct, InHand, Given, NoIp
<1>7. OneRescan
  BY <1>2, <1>3, <1>4, <1>5 DEF OneRescan, RescansIn
<1>8. Quiet
  BY <1>2, BagEmpty DEF Quiet, UnderWay
<1>9. Alone
  BY <1>3, <1>4, <1>8 DEF Alone, Single, MainPort, ScanPort, Buffers, Using, Quiet, NoResponse
<1>10. InTable /\ Meant
  BY <1>2, <1>4, <1>5 DEF InTable, Meant, InHand
<1>11. Finding
  BY <1>2, <1>3, <1>5 DEF Finding
<1>12. QED
  BY <1>1, <1>6, <1>7, <1>9, <1>10, <1>11 DEF Inv, Sure

\* What is sure stays so until there is trouble.
LEMMA SureStep ==
    ASSUME Types, Ips, DevicesDistinct, OneRescan, Sure, Untroubled, Untroubled', faults' = faults,
           [Next]_vars
    PROVE  Sure'
<1>1. Alone /\ InTable /\ Meant /\ Finding
  BY DEF Sure
<1>2. InTable' /\ Meant'
  BY <1>1, InTableStep, MeantStep
<1>3. CASE ScanAllDevice
  BY <1>2, <1>3, ScanCalm DEF Sure
<1>4. CASE serverLoop
  BY <1>2, <1>4, MainCalm DEF Sure
<1>5. CASE Module \/ Rescan \/ \E n \in Nodes : Request(n) \/ Leave(n)
  BY <1>1, <1>2, <1>5, OutsideCalm DEF Sure
<1>6. CASE \E f \in BagToSet(air) : Lose(f)
  <2>1. faults' = faults + 1 /\ faults \in Nat
    BY <1>6 DEF Lose, Types, Outside
  <2>2. QED
    BY <2>1
<1>7. CASE UNCHANGED vars
  <2>1. UNCHANGED <<port, air, scan, main, reachable, table, ipCount, sound>>
    BY <1>7 DEF vars, serial, manager
  <2>2. /\ Target' = Target /\ Package' = Package /\ UnderWay' = UnderWay /\ AtHand' = AtHand
        /\ Single' = Single /\ Quiet' = Quiet /\ Buffers' = Buffers
    BY <2>1 DEF Target, Package, UnderWay, AtHand, Single, Quiet, Buffers
  <2>3. Alone'
    BY <1>1, <2>1, <2>2 DEF Alone, MainPort, ScanPort
  <2>4. Finding'
    BY <1>1, <2>1, <2>2 DEF Finding
  <2>5. QED
    BY <1>2, <2>3, <2>4 DEF Sure
<1>8. QED
  BY <1>3, <1>4, <1>5, <1>6, <1>7 DEF Next

LEMMA InvStep == ASSUME Inv, [Next]_vars PROVE Inv'
<1>1. Types /\ Ips /\ DevicesDistinct /\ OneRescan /\ (Untroubled => Sure)
  BY DEF Inv
<1>2. Types'
  BY <1>1, TypesStep
<1>3. Ips' /\ DevicesDistinct' /\ OneRescan'
  BY <1>1, <1>2, IpsStep, DistinctStep, OneRescanStep
<1>4. ASSUME Untroubled' PROVE Sure'
  <2>1. Untroubled /\ faults' = faults
    BY <1>1, <1>4, UntroubledBefore
  <2>2. QED
    BY <1>1, <1>4, <2>1, SureStep
<1>5. QED
  BY <1>2, <1>3, <1>4 DEF Inv

LEMMA InvHolds == Spec => []Inv
BY InitInv, InvStep, PTL DEF Spec

\* The members of the broker have their types, no node is listed twice and no ip stands
\* for two nodes, whatever is late or lost; and with no trouble the ip under which the
\* manager knows a device is that of the node which described it (addNewDevice,
\* askDeviceDescription, ScanAllDevice).
THEOREM ManagerRightNode == Spec => []RightNode
<1>1. Inv => RightNode
  <2>1. ASSUME Inv PROVE RightNode
    <3>1. Types /\ DevicesDistinct /\ (Untroubled => InTable)
      BY <2>1 DEF Inv, Sure
    <3>2. TypeOK
      BY <3>1, TypeOKHolds
    <3>3. QED
      BY <3>1, <3>2 DEF RightNode, InTable
  <2>2. QED
    BY <2>1
<1>2. QED
  BY <1>1, InvHolds, PTL

\* The wait for a response ends in getResponse only.
LEMMA WaitEnds ==
    ASSUME Types, [Next]_vars, main.pc = "wait", main'.pc = "clear"
    PROVE  getResponse
<1>1. main' # main
  OBVIOUS
<1>2. ScanAllDevice => main' = main
  BY ScanLeaves DEF endScan
<1>3. serverLoop
  BY <1>1, <1>2, OutsideLeaves DEF Next, UnderWay, vars
<1>4. QED
  BY <1>3 DEF serverLoop, RecviveData, handleManagerPackage, handleForwardingPackage, clearComportBuffer

\* The manager gets the response of the node it means, to the command it means, or none
\* because the node has left (handleForwardingPackage, getResponse), with no frame late or
\* lost and no command during a scan.
THEOREM RightAnswers == Spec => CommandsAnswered
<1> DEFINE Step == main.pc = "wait" /\ main'.pc = "clear" /\ Untroubled' =>
        LET n == Package.for
            value == [kind |-> "rx", what |-> "value", node |-> n, req |-> Package.req]
        IN  \/ answer' = <<[req |-> Package.req, frames |-> <<value>>]>>
            \/ answer' = <<>> /\ n \notin reachable
<1>1. ASSUME Inv, [Next]_vars PROVE [Step]_vars
  <2> DEFINE n == Package.for
             value == [kind |-> "rx", what |-> "value", node |-> n, req |-> Package.req]
             f == Req(Package)  got == main.got
  <2> SUFFICES ASSUME main.pc = "wait", main'.pc = "clear", Untroubled'
               PROVE  \/ answer' = <<[req |-> Package.req, frames |-> <<value>>]>>
                      \/ answer' = <<>> /\ n \notin reachable
    OBVIOUS
  <2>1. Types /\ Untroubled /\ Sure /\ faults' = faults
    BY <1>1, UntroubledBefore DEF Inv
  <2>2. getResponse
    BY <1>1, <2>1, WaitEnds
  <2>3. /\ \/ readPacket /\ answerManager(taken(got, Head(port)))
           \/ timeOut(got.count > 0) /\ answerManager(timedOut(got))
    BY <2>2 DEF getResponse
  <2>4. f \in Sends /\ got \in Responses /\ Exchange(f, got, port, UnderWay, reachable, sound)
    BY <2>1, Askers DEF MainPort, Sure, Alone, Types, MainLocals, Mains
  <2>5. f.node = n /\ f.what = "req" /\ f.req = Package.req
    BY DEF Req
  <2>6. ASSUME NEW g, answerManager(g)
        PROVE  ends(g) /\ answer' = IF g.result = "ok" /\ g.buf # <<>>
                                      THEN <<[req |-> Package.req, frames |-> g.buf]>>
                                      ELSE <<>>
    <3>1. main \in Mains
      BY <2>1 DEF Types, MainLocals
    <3>2. ~ ends(g) => main'.pc = "wait"
      BY <2>6, <3>1 DEF answerManager, Mains
    <3>3. QED
      BY <2>6, <3>2 DEF answerManager
  <2>7. CASE readPacket /\ answerManager(taken(got, Head(port)))
    <3> DEFINE g == taken(got, Head(port))
    <3>1. port # <<>>
      BY <2>7 DEF readPacket
    <3>2. ends(g) /\ answer' = IF g.result = "ok" /\ g.buf # <<>>
                                 THEN <<[req |-> Package.req, frames |-> g.buf]>>
                                 ELSE <<>>
      BY <2>6, <2>7
    <3>3. g.result = "ok" /\ \E a : Honest(a, f, sound) /\ g.buf = <<a>>
      <4>1. ends(g)
        BY <3>2
      <4> HIDE DEF f, got
      <4>2. QED
        BY <2>4, <3>1, <4>1, ExchangeRead, ZenonT(60)
    <3>4. PICK a : Honest(a, f, sound) /\ g.buf = <<a>>
      BY <3>3
    <3>5. a = value
      <4>1. a \in Answers(f)
        BY <3>4 DEF Honest
      <4> HIDE DEF f
      <4>2. Answers(f) = {[kind |-> "rx", what |-> "value", node |-> f.node, req |-> f.req]}
        BY <2>4, <2>5, AnswersAre
      <4>3. QED
        BY <2>5, <4>1, <4>2
    <3> HIDE DEF g
    <3>6. QED
      BY <3>2, <3>3, <3>4, <3>5
  <2>8. CASE timeOut(got.count > 0) /\ answerManager(timedOut(got))
    <3>1. Quiet
      BY <2>1, <2>8, CalmTimeOut
    <3>2. Exchange(f, got, <<>>, {}, reachable, sound)
      BY <2>4, <3>1 DEF Quiet
    <3>3. f.node \notin reachable /\ timedOut(got).result = "timeout"
      <4> HIDE DEF f, got
      <4>1. QED
        BY <2>4, <3>2, ExchangeTimeOut
    <3>4. answer' = <<>>
      BY <2>6, <2>8, <3>3
    <3>5. QED
      BY <2>5, <3>3, <3>4
  <2>9. QED
    BY <2>3, <2>7, <2>8
<1>2. QED
  BY <1>1, InvHolds, PTL DEF Spec, CommandsAnswered

\* Only the last step of a scan leaves "syn" for "idle".
LEMMA ScanEnds ==
    ASSUME Types, [Next]_vars, scan.pc = "syn", scan'.pc = "idle"
    PROVE  endScan
<1>1. scan' # scan /\ scan \in Scans
  BY DEF Types, ScanLocals
<1>2. ASSUME serverLoop PROVE FALSE
  <2>1. scan' = scan \/ scan' = [Idle EXCEPT !.pc = "start"]
    BY <1>2 DEF serverLoop, RecviveData, handleManagerPackage, handleForwardingPackage, getResponse,
       clearComportBuffer
  <2>2. QED
    BY <1>1, <2>1 DEF Idle
<1>3. ScanAllDevice
  BY <1>1, <1>2, OutsideLeaves DEF Next, UnderWay, vars
<1>4. ~ sendSyn
  BY <1>1 DEF sendSyn, Scans
<1>5. QED
  BY <1>3, <1>4 DEF ScanAllDevice, startScan, discover, recvAck, sendDes, recvTx, recvData, askIoTIp,
     registerDevice

\* A scan that ends with no trouble has given every node that was there all the time, with
\* its descriptions right, an ip of this scan (ScanAllDevice), wherever the node stands
\* among those found and whatever the others do.
THEOREM ScanFindsSound == Spec => SoundNodesFound
<1> DEFINE Step == scan.pc = "syn" /\ scan'.pc = "idle" /\ Untroubled =>
                       \A n \in sound : table[n] >= scan.from
<1>1. ASSUME Inv, [Next]_vars PROVE [Step]_vars
  <2> SUFFICES ASSUME scan.pc = "syn", scan'.pc = "idle", Untroubled, NEW n \in sound
               PROVE  table[n] >= scan.from
    OBVIOUS
  <2>1. Types /\ Finding
    BY <1>1 DEF Inv, Sure
  <2>2. ~ Remaining
    BY <1>1, <2>1, ScanEnds DEF endScan
  <2>3. scan.i \in Nat /\ DOMAIN scan.addrs = 1 .. Len(scan.addrs) /\ Len(scan.addrs) \in Nat
    BY <2>1, LenProperties DEF Types, ScanLocals, Scans
  <2>4. PICK k \in DOMAIN scan.addrs : scan.addrs[k] = n
    BY <2>1 DEF Finding, ToSet
  <2>5. k < scan.i
    BY <2>2, <2>3, <2>4 DEF Remaining
  <2>6. QED
    BY <2>1, <2>4, <2>5 DEF Finding
<1>2. QED
  BY <1>1, InvHolds, PTL DEF Spec, SoundNodesFound

-----------------------------------------------------------------------------
(* How often a node is asked.  askDeviceDescription counts descriptions, not *)
(* times: each time-out that is not counted costs a fault, one before it or  *)
(* its own.  With as many such time-outs as faults no frame can be missing,  *)
(* and a description is at hand whenever the scan waits for one.             *)

Describing == {"des", "desTx", "desRx"}
Descriptions == [kind : {"rx"}, what : {"des", "garbled"}, node : Nodes]

\* Times DES was sent and neither counted nor is being waited for.
Uncounted == scan.asks - scan.tries - (IF scan.pc = "des" THEN 0 ELSE 1)

\* Besides descriptions, DES is under way, or its confirmation is at the port p.
Confirming(p, u, b) ==
    /\ ToSet(p) \subseteq Descriptions
    /\ \E f \in u : /\ f.kind = "send" /\ f.what = "DES" /\ b[f] = 1
                    /\ u \ {f} \subseteq Descriptions
Confirmed(p, u) ==
    /\ u \subseteq Descriptions
    /\ \E k \in DOMAIN p :
          /\ p[k].kind = "tx"
          /\ \A j \in DOMAIN p : j # k => p[j] \in Descriptions
          /\ p[k].ok => (ToSet(p) \cup u) \cap Descriptions # {}

NoneMissing ==
    /\ scan.pc \in {"des", "desRx"} => AtHand \subseteq Descriptions
    /\ scan.pc = "desRx" => AtHand # {}
    /\ scan.pc = "desTx" => Confirming(port, UnderWay, air) \/ Confirmed(port, UnderWay)

Apart == scan.pc # "idle" => main.pc \notin {"wait", "clear"}
Allowed == scan.pc \in Describing =>
              Uncounted \in 0 .. faults /\ (Uncounted = faults => NoneMissing)
Budget == ~ mixed => Apart /\ Allowed /\ AsksBounded

\* The bag without one of its elements keeps those it has once.
LEMMA BagTakes ==
    ASSUME NEW B, NEW g, NEW h \in BagToSet(B), B[h] = 1
    PROVE  /\ h # g => h \in BagToSet(B (-) SetToBag({g})) /\ (B (-) SetToBag({g}))[h] = 1
           /\ h = g => h \notin BagToSet(B (-) SetToBag({g}))
BY DEF (-), SetToBag, BagToSet

\* What is appended to the port is added to what is there.
LEMMA AppendSet ==
    ASSUME NEW S, NEW p \in Seq(S), NEW e \in S
    PROVE  /\ ToSet(Append(p, e)) = ToSet(p) \cup {e}
           /\ DOMAIN Append(p, e) = DOMAIN p \cup {Len(p) + 1}
           /\ \A k \in DOMAIN p : k # Len(p) + 1 /\ Append(p, e)[k] = p[k]
           /\ Append(p, e)[Len(p) + 1] = e
<1> DEFINE q == Append(p, e)
<1>1. /\ q \in Seq(S) /\ Len(q) = Len(p) + 1 /\ q[Len(p) + 1] = e
      /\ \A k \in 1 .. Len(p) : q[k] = p[k]
      /\ DOMAIN q = 1 .. Len(q) /\ DOMAIN p = 1 .. Len(p) /\ Len(p) \in Nat
  BY AppendContents, LenProperties
<1> HIDE DEF q
<1>2. /\ DOMAIN q = DOMAIN p \cup {Len(p) + 1}
      /\ \A k \in DOMAIN p : k # Len(p) + 1 /\ q[k] = p[k]
  BY <1>1
<1>3. ToSet(q) = ToSet(p) \cup {e}
  BY <1>1, <1>2 DEF ToSet
<1>4. QED
  BY <1>1, <1>2, <1>3 DEF q

\* What is under way is a transmission or a description, and the module moves it on.
LEMMA NoneMissingMoves ==
    ASSUME Types, NoneMissing, scan.pc \in Describing, scan' = scan, Module
    PROVE  NoneMissing'
<1>0. port \in Seq(Frame) /\ \A f \in Descriptions : f.kind = "rx"
  BY DEF Types, Serial, Descriptions
<1>1. ASSUME NEW g \in UnderWay, Deliver(g) PROVE NoneMissing'
  <2>1. g.kind # "send" /\ port' = Append(port, g) /\ air' = Without(g) /\ g \in Frame
    BY <1>1, FrameKinds DEF Deliver, Types, Serial
  <2>2. UnderWay' \subseteq UnderWay
    BY <2>1, BagWithout DEF UnderWay, Without
  <2> DEFINE n == Len(port) + 1
  <2>3. /\ ToSet(port') = ToSet(port) \cup {g} /\ DOMAIN port' = DOMAIN port \cup {n}
        /\ \A k \in DOMAIN port : k # n /\ port'[k] = port[k]
        /\ port'[n] = g
    BY <1>0, <2>1, AppendSet
  <2> HIDE DEF n
  <2>4. CASE scan.pc \in {"des", "desRx"}
    BY <1>0, <2>2, <2>3, <2>4 DEF NoneMissing, AtHand
  <2>5. CASE Confirming(port, UnderWay, air)
    <3>1. PICK f \in UnderWay : /\ f.kind = "send" /\ f.what = "DES" /\ air[f] = 1
                                /\ UnderWay \ {f} \subseteq Descriptions
      BY <2>5 DEF Confirming
    <3>2. f # g /\ g \in Descriptions
      BY <2>1, <3>1
    <3>3. f \in UnderWay' /\ air'[f] = 1
      <4>1. f \in BagToSet(air (-) SetToBag({g})) /\ (air (-) SetToBag({g}))[f] = 1
        <5>1. f \in BagToSet(air) /\ air[f] = 1 /\ f # g
          BY <3>1, <3>2 DEF UnderWay
        <5>2. QED
          BY <5>1, BagTakes
      <4>2. QED
        BY <2>1, <4>1 DEF UnderWay, Without
    <3>4. ToSet(port') \subseteq Descriptions
      BY <2>3, <2>5, <3>2 DEF Confirming
    <3>5. Confirming(port', UnderWay', air')
      BY <2>2, <3>1, <3>3, <3>4 DEF Confirming
    <3>6. CASE scan.pc = "desTx"
      BY <3>5, <3>6 DEF NoneMissing
    <3>7. QED
      BY <2>4, <3>6 DEF Describing
  <2>6. CASE Confirmed(port, UnderWay)
    <3>1. PICK k \in DOMAIN port :
            /\ port[k].kind = "tx"
            /\ \A j \in DOMAIN port : j # k => port[j] \in Descriptions
      BY <2>6 DEF Confirmed
    <3>2. g \in Descriptions /\ UnderWay' \subseteq Descriptions
      BY <2>2, <2>6 DEF Confirmed
    <3>3. /\ k \in DOMAIN port' /\ port'[k].kind = "tx"
          /\ \A j \in DOMAIN port' : j # k => port'[j] \in Descriptions
          /\ g \in (ToSet(port') \cup UnderWay') \cap Descriptions
      BY <2>3, <3>1, <3>2
    <3>4. Confirmed(port', UnderWay')
      BY <3>2, <3>3 DEF Confirmed
    <3>5. CASE scan.pc = "desTx"
      BY <3>4, <3>5 DEF NoneMissing
    <3>6. QED
      BY <2>4, <3>5 DEF Describing
  <2>7. QED
    BY <2>4, <2>5, <2>6 DEF NoneMissing, Describing
<1>2. ASSUME NEW g \in UnderWay, Confirm(g) PROVE NoneMissing'
  <2>1. g.kind = "send" /\ port' = Append(port, [kind |-> "tx", ok |-> g.node \in reachable])
    BY <1>2 DEF Confirm
  <2>2. g \notin Descriptions
    BY <1>0, <2>1
  <2>3. scan.pc = "desTx" /\ Confirming(port, UnderWay, air)
    BY <2>2 DEF NoneMissing, Describing, AtHand, Confirmed
  <2>4. g.what = "DES" /\ air[g] = 1 /\ UnderWay \ {g} \subseteq Descriptions /\ ToSet(port) \subseteq Descriptions
    BY <2>2, <2>3 DEF Confirming
  <2>5. BagToSet(Without(g)) \subseteq Descriptions
    <3>1. BagToSet(Without(g)) \subseteq UnderWay /\ g \notin BagToSet(Without(g))
      BY <2>4, BagWithout, BagTakes DEF UnderWay, Without
    <3>2. QED
      BY <2>4, <3>1
  <2>6. UnderWay' \subseteq Descriptions /\ (g.node \in reachable => UnderWay' # {})
    <3>1. CASE g.node \notin reachable
      <4>1. air' = Without(g)
        BY <1>2, <3>1 DEF Confirm
      <4>2. QED
        BY <2>5, <3>1, <4>1 DEF UnderWay
    <3>2. CASE g.node \in reachable
      <4>1. PICK r \in Answers(g) : air' = Without(g) (+) SetToBag({r})
        BY <1>2, <3>2 DEF Confirm
      <4>2. r \in Descriptions
        <5>1. g \in Sends
          BY <2>1, FrameKinds DEF Types, Serial
        <5>2. r \in {[kind |-> "rx", what |-> w, node |-> g.node] : w \in {"des", "garbled"}} /\ g.node \in Nodes
          BY <2>4, <4>1, <5>1, AnswersAre
        <5>3. QED
          BY <5>2 DEF Descriptions
      <4>3. UnderWay' = BagToSet(Without(g)) \cup {r}
        BY <4>1, BagAdd DEF UnderWay
      <4>4. QED
        BY <2>5, <4>2, <4>3
    <3>3. QED
      BY <3>1, <3>2
  <2> DEFINE n == Len(port) + 1  tx == [kind |-> "tx", ok |-> g.node \in reachable]
  <2>7. tx \in Frame
    <3>1. (g.node \in reachable) \in BOOLEAN
      OBVIOUS
    <3>2. QED
      BY <3>1, FrameKinds
  <2>8. tx.kind = "tx" /\ (tx.ok <=> g.node \in reachable) /\ port' = Append(port, tx)
    BY <2>1
  <2> HIDE DEF n, tx
  <2>9. /\ DOMAIN port' = DOMAIN port \cup {n}
        /\ \A k \in DOMAIN port : k # n /\ port'[k] = port[k]
        /\ port'[n] = tx
    BY <1>0, <2>7, <2>8, AppendSet DEF n
  <2>10. \A k \in DOMAIN port : port[k] \in Descriptions
    BY <2>4 DEF ToSet
  <2>11. Confirmed(port', UnderWay')
    <3>1. \A j \in DOMAIN port' : j # n => port'[j] \in Descriptions
      BY <2>9, <2>10
    <3>2. port'[n].ok => (ToSet(port') \cup UnderWay') \cap Descriptions # {}
      BY <2>6, <2>8, <2>9
    <3>3. QED
      BY <2>6, <2>8, <2>9, <3>1, <3>2 DEF Confirmed
  <2>12. QED
    BY <2>3, <2>11 DEF NoneMissing
<1>3. QED
  BY <1>1, <1>2 DEF Module, UnderWay

\* What is read was at the port, and what is left there was so too.
LEMMA ReadTakes ==
    ASSUME Types, readPacket, UNCHANGED air
    PROVE  /\ Head(port) \in ToSet(port) /\ ToSet(port') \subseteq ToSet(port)
           /\ UnderWay' = UnderWay /\ AtHand' \subseteq AtHand /\ faults' = faults
<1>1. port \in Seq(Frame) /\ port # <<>> /\ port' = Tail(port) /\ faults' = faults
  BY DEF readPacket, Types, Serial
<1>2. Head(port) \in ToSet(port) /\ ToSet(port') \subseteq ToSet(port)
  BY <1>1, TailSet
<1>3. UnderWay' = UnderWay
  BY DEF UnderWay
<1>4. QED
  BY <1>1, <1>2, <1>3 DEF AtHand

\* When DES is confirmed, what is left are descriptions, one at least.
LEMMA ConfirmationRead ==
    ASSUME Types, readPacket, UNCHANGED air, recvResponse("tx"),
           Confirming(port, UnderWay, air) \/ Confirmed(port, UnderWay)
    PROVE  AtHand' \subseteq Descriptions /\ AtHand' # {}
<1>1. /\ port \in Seq(Frame) /\ port # <<>> /\ port' = Tail(port) /\ UnderWay' = UnderWay
      /\ Head(port).kind = "tx" /\ Head(port).ok
  BY DEF readPacket, recvResponse, Types, Serial, UnderWay
<1>2. \A f \in Descriptions : f.kind = "rx"
  BY DEF Descriptions
<1>3. Confirmed(port, UnderWay)
  <2>1. Head(port) \in ToSet(port)
    BY <1>1, TailSet
  <2>2. QED
    BY <1>1, <1>2, <2>1 DEF Confirming
<1>4. /\ Len(Tail(port)) = Len(port) - 1 /\ Len(port) \in Nat \ {0} /\ Head(port) = port[1]
      /\ \A k \in 1 .. Len(Tail(port)) : Tail(port)[k] = port[k + 1]
      /\ DOMAIN port = 1 .. Len(port) /\ DOMAIN Tail(port) = 1 .. Len(Tail(port))
  <2>1. Tail(port) \in Seq(Frame) /\ Len(port) \in Nat /\ (Len(port) = 0 => port = <<>>)
    BY <1>1, HeadTailProperties, LenProperties, EmptySeq
  <2>2. QED
    BY <1>1, <2>1, HeadTailProperties, LenProperties
<1>5. PICK k \in DOMAIN port :
        /\ port[k].kind = "tx"
        /\ \A j \in DOMAIN port : j # k => port[j] \in Descriptions
        /\ port[k].ok => (ToSet(port) \cup UnderWay) \cap Descriptions # {}
  BY <1>3 DEF Confirmed
<1>6. k = 1
  BY <1>1, <1>2, <1>4, <1>5
<1>7. \A j \in 1 .. Len(port) - 1 : Tail(port)[j] = port[j + 1] /\ port[j + 1] \in Descriptions
  BY <1>4, <1>5, <1>6
<1>8. ToSet(port') \subseteq Descriptions
  BY <1>1, <1>4, <1>7 DEF ToSet
<1>9. PICK r \in ToSet(port) \cup UnderWay : r \in Descriptions
  BY <1>1, <1>4, <1>5, <1>6
<1>10. r \in ToSet(port) => r \in ToSet(port')
  <2>1. SUFFICES ASSUME r \in ToSet(port) PROVE r \in ToSet(port')
    OBVIOUS
  <2>2. PICK j \in 1 .. Len(port) : port[j] = r
    BY <1>4, <2>1 DEF ToSet
  <2>3. j # 1
    BY <1>1, <1>2, <1>4, <1>9, <2>2
  <2>4. j - 1 \in 1 .. Len(Tail(port)) /\ Tail(port)[j - 1] = r
    BY <1>4, <2>2, <2>3
  <2>5. QED
    BY <1>1, <1>4, <2>4 DEF ToSet
<1>11. QED
  BY <1>1, <1>3, <1>8, <1>9, <1>10 DEF AtHand, Confirmed

\* A time-out is free only where nothing is to come.
LEMMA TimeOutCosts ==
    ASSUME NEW read, timeOut(read), UNCHANGED <<port, air>>
    PROVE  /\ AtHand' = AtHand
           /\ faults' = faults + 1 \/ (faults' = faults /\ AtHand = {})
<1>1. port = <<>> /\ air = EmptyBag => AtHand = {}
  BY BagEmpty DEF AtHand, UnderWay, ToSet
<1>2. AtHand' = AtHand
  BY DEF AtHand, UnderWay
<1>3. faults' = faults + 1 \/ (port = <<>> /\ air = EmptyBag /\ faults' = faults)
  BY DEF timeOut
<1>4. QED
  BY <1>1, <1>2, <1>3

\* A step that does not ask, and after which the scan is not waiting for a description.
LEMMA NoMoreAsked ==
    ASSUME Types, AsksBounded, ~ mixed, faults' \in {faults, faults + 1},
           scan'.asks \in {0, scan.asks}
    PROVE  AsksBounded' /\ (scan'.pc \notin Describing => Allowed')
<1>1. scan.asks \in Nat /\ faults \in Nat /\ maxReTryTimes \in Nat
  BY DEF Types, ScanLocals, Scans, Outside
<1>2. scan.asks <= maxReTryTimes + faults
  BY DEF AsksBounded
<1>3. scan'.asks <= maxReTryTimes + faults'
  BY <1>1, <1>2
<1>4. QED
  BY <1>3 DEF AsksBounded, Allowed

LEMMA DescribingBudget ==
    ASSUME Types, Budget, ~ mixed, sendDes \/ recvTx \/ recvData
    PROVE  Allowed' /\ AsksBounded'
<1> DEFINE asks == scan.asks  tries == scan.tries
<1>0. /\ asks \in Nat /\ tries \in Nat /\ faults \in Nat /\ scan \in Scans
      /\ maxReTryTimes \in Nat /\ Allowed /\ AsksBounded
  BY DEF Types, ScanLocals, Scans, Outside, Budget
<1>f. faults' \in {faults, faults + 1}
  BY DEF sendDes, recvTx, recvData, timeOut, readPacket
<1>d. \A f \in Descriptions : f.kind = "rx" /\ f.what \in {"des", "garbled"}
  BY DEF Descriptions
<1> HIDE DEF asks, tries
<1>1. CASE sendDes
  <2>1. /\ scan.pc = "des" /\ UNCHANGED <<port, faults>> /\ air' = air (+) SetToBag({Des(Target)})
        /\ scan' = [scan EXCEPT !.pc = "desTx", !.des = <<>>, !.asks = @ + 1]
    BY <1>1 DEF sendDes, sendData, Des
  <2>2. scan'.pc = "desTx" /\ scan'.asks = asks + 1 /\ scan'.tries = tries
    BY <1>0, <2>1 DEF Scans, asks, tries
  <2>3. Uncounted = asks - tries /\ tries < maxReTryTimes
    BY <1>0, <2>1 DEF Uncounted, Types, ScanLocals, asks, tries
  <2>4. Uncounted' = Uncounted
    BY <1>0, <2>2, <2>3 DEF Uncounted
  <2>5. Uncounted \in 0 .. faults /\ (Uncounted = faults => NoneMissing)
    BY <1>0, <2>1 DEF Allowed, Describing
  <2>6. NoneMissing => NoneMissing'
    <3>1. SUFFICES ASSUME AtHand \subseteq Descriptions PROVE Confirming(port', UnderWay', air')
      BY <2>1, <2>2 DEF NoneMissing
    <3>2. Des(Target) \notin UnderWay /\ Des(Target).kind = "send" /\ Des(Target).what = "DES"
      BY <1>d, <3>1 DEF AtHand, Des
    <3>3. UnderWay' = UnderWay \cup {Des(Target)} /\ air'[Des(Target)] = 1
      BY <2>1, <3>2, BagAdd DEF UnderWay
    <3>4. QED
      BY <2>1, <3>1, <3>2, <3>3 DEF Confirming, AtHand
  <2>7. AsksBounded'
    <3>1. asks + 1 <= maxReTryTimes + faults
      BY <1>0, <2>3, <2>5
    <3>2. QED
      BY <2>1, <2>2, <3>1 DEF AsksBounded
  <2>8. QED
    BY <2>1, <2>4, <2>5, <2>6, <2>7 DEF Allowed
<1>2. CASE recvTx
  <2>1. /\ scan.pc = "desTx" /\ UNCHANGED air
        /\ scan' = [scan EXCEPT !.pc = "desRx"] \/ scan' = [scan EXCEPT !.pc = "ask"]
        /\ scan' = [scan EXCEPT !.pc = "desRx"] => readPacket /\ recvResponse("tx")
    BY <1>0, <1>2 DEF recvTx, goTo, Scans
  <2>2. scan'.asks = asks /\ scan'.tries = tries
    BY <1>0, <2>1 DEF Scans, asks, tries
  <2>3. AsksBounded' /\ (scan'.pc \notin Describing => Allowed')
    BY <1>0, <1>f, <2>2, NoMoreAsked DEF asks
  <2>4. CASE scan' = [scan EXCEPT !.pc = "desRx"]
    <3>1. readPacket /\ recvResponse("tx") /\ scan'.pc = "desRx"
      BY <1>0, <2>1, <2>4 DEF Scans
    <3>2. Uncounted' = Uncounted /\ faults' = faults
      BY <2>1, <2>2, <3>1 DEF Uncounted, readPacket, asks, tries
    <3>3. Uncounted \in 0 .. faults /\ (Uncounted = faults => NoneMissing)
      BY <1>0, <2>1 DEF Allowed, Describing
    <3>4. NoneMissing => NoneMissing'
      BY <2>1, <3>1, ConfirmationRead DEF NoneMissing
    <3>5. QED
      BY <2>3, <3>2, <3>3, <3>4 DEF Allowed
  <2>5. CASE scan' = [scan EXCEPT !.pc = "ask"]
    BY <1>0, <2>3, <2>5 DEF Scans, Describing
  <2>6. QED
    BY <2>1, <2>4, <2>5
<1>3. CASE recvData
  <2>1. /\ scan.pc = "desRx" /\ UNCHANGED air
        /\ \/ /\ readPacket /\ recvResponse("rx") /\ hasStartAndEnd(Head(port))
              /\ checkDescription(Append(scan.des, Head(port)))
           \/ /\ readPacket /\ ~ (recvResponse("rx") /\ hasStartAndEnd(Head(port)))
              /\ scan' = scan \/ scan' = [scan EXCEPT !.des = Append(@, Head(port))]
           \/ /\ timeOut(scan.des # <<>>) /\ UNCHANGED port
              /\ scan' = [scan EXCEPT !.pc = "des", !.des = <<>>]
    BY <1>3 DEF recvData
  <2>2. Uncounted = asks - tries - 1 /\ Uncounted \in 0 .. faults /\ (Uncounted = faults => NoneMissing)
    BY <1>0, <2>1 DEF Uncounted, Allowed, Describing, asks, tries
  <2>3. ASSUME readPacket, hasStartAndEnd(Head(port)), checkDescription(Append(scan.des, Head(port)))
        PROVE  Allowed' /\ AsksBounded'
    <3>1. /\ scan'.asks = asks
          /\ scan'.pc = "ask" \/ (scan'.pc = "des" /\ scan'.tries = tries + 1)
      BY <1>0, <2>3 DEF checkDescription, Scans, asks, tries
    <3>2. AsksBounded' /\ (scan'.pc \notin Describing => Allowed')
      BY <1>0, <1>f, <3>1, NoMoreAsked DEF asks
    <3>3. CASE scan'.pc = "des" /\ scan'.tries = tries + 1
      <4>1. Uncounted' = Uncounted
        BY <1>0, <2>2, <3>1, <3>3 DEF Uncounted
      <4>2. NoneMissing => NoneMissing'
        BY <2>1, <2>3, <3>3, ReadTakes DEF NoneMissing
      <4>3. faults' = faults
        BY <2>3 DEF readPacket
      <4>4. QED
        BY <2>2, <3>2, <4>1, <4>2, <4>3 DEF Allowed
    <3>4. QED
      BY <3>1, <3>2, <3>3 DEF Describing
  <2>4. ASSUME readPacket, ~ (recvResponse("rx") /\ hasStartAndEnd(Head(port))),
               scan' = scan \/ scan' = [scan EXCEPT !.des = Append(@, Head(port))]
        PROVE  Allowed' /\ AsksBounded'
    <3>1. scan'.asks = asks /\ scan'.tries = tries /\ scan'.pc = "desRx" /\ faults' = faults
      BY <1>0, <2>1, <2>4 DEF Scans, asks, tries, readPacket
    <3>2. ~ NoneMissing
      <4>1. Head(port) \in AtHand
        BY <2>1, <2>4, ReadTakes DEF AtHand
      <4>2. Head(port) \notin Descriptions
        BY <1>d, <2>4 DEF recvResponse, hasStartAndEnd
      <4>3. QED
        BY <2>1, <4>1, <4>2 DEF NoneMissing
    <3>3. Uncounted' = Uncounted
      BY <2>2, <3>1 DEF Uncounted
    <3>4. AsksBounded'
      BY <1>0, <1>f, <3>1, NoMoreAsked DEF asks
    <3>5. QED
      BY <2>2, <3>1, <3>2, <3>3, <3>4 DEF Allowed
  <2>5. ASSUME timeOut(scan.des # <<>>), UNCHANGED port, scan' = [scan EXCEPT !.pc = "des", !.des = <<>>]
        PROVE  Allowed' /\ AsksBounded'
    <3>1. scan'.asks = asks /\ scan'.tries = tries /\ scan'.pc = "des"
      BY <1>0, <2>5 DEF Scans, asks, tries
    <3>2. AtHand' = AtHand /\ (faults' = faults + 1 \/ (faults' = faults /\ AtHand = {}))
      BY <2>1, <2>5, TimeOutCosts
    <3>3. Uncounted' = Uncounted + 1
      BY <1>0, <2>2, <3>1 DEF Uncounted
    <3>4. NoneMissing => AtHand \subseteq Descriptions /\ AtHand # {}
      BY <2>1 DEF NoneMissing
    <3>5. AtHand \subseteq Descriptions => NoneMissing'
      BY <3>1, <3>2 DEF NoneMissing
    <3>6. Uncounted' \in 0 .. faults' /\ (Uncounted' = faults' => NoneMissing')
      BY <1>0, <2>2, <3>2, <3>3, <3>4, <3>5
    <3>7. AsksBounded'
      BY <1>0, <1>f, <3>1, NoMoreAsked DEF asks
    <3>8. QED
      BY <3>6, <3>7 DEF Allowed
  <2>6. QED
    BY <2>1, <2>3, <2>4, <2>5
<1>4. QED
  BY <1>1, <1>2, <1>3

LEMMA ScanBudget ==
    ASSUME Inv, Inv', Budget, ~ mixed, ScanAllDevice
    PROVE  Apart' /\ Allowed' /\ AsksBounded'
<1>0. /\ Types /\ scan \in Scans /\ Apart /\ AsksBounded /\ faults' \in {faults, faults + 1} /\ ~ mixed'
      /\ Idle.pc = "idle" /\ Idle.asks = 0
  BY ScanLeaves, TroubleGrows DEF Inv, Types, ScanLocals, Budget, Next, Idle
<1>1. Apart'
  <2>1. CASE endScan
    BY <1>0, <2>1 DEF endScan, Apart
  <2>2. CASE main' = main
    BY <1>0, <2>2, ScanLeaves DEF Apart
  <2>3. QED
    BY <2>1, <2>2, ScanLeaves
<1>2. CASE startScan \/ discover \/ sendSyn \/ askIoTIp \/ registerDevice \/ endScan
  <2>1. scan'.asks \in {0, scan.asks} /\ scan'.pc \notin Describing
    <3>1. startScan \/ endScan => scan'.asks = 0 /\ scan'.pc \in {"discover", "idle"}
      BY <1>0 DEF startScan, endScan, Idle
    <3>2. discover => scan'.asks = scan.asks /\ scan'.pc \in {"discover", "syn"}
      BY <1>0 DEF discover, discoveryFailed, Scans
    <3>3. sendSyn => scan'.asks = scan.asks /\ scan'.pc = "acking"
      BY <1>0 DEF sendSyn, Scans
    <3>4. askIoTIp \/ registerDevice => scan'.asks = scan.asks /\ scan'.pc \in {"register", "syn"}
      BY <1>0 DEF askIoTIp, registerDevice, Scans
    <3>5. QED
      BY <1>2, <3>1, <3>2, <3>3, <3>4 DEF Describing
  <2>2. QED
    BY <1>0, <1>1, <2>1, NoMoreAsked
<1>3. CASE recvAck
  <2>1. /\ \E got : synAnswer(got)
        /\ scan.pc = "acking"
    BY <1>3 DEF recvAck
  <2>2. \/ scan'.asks = scan.asks /\ scan'.pc \in {"acking", "syn"}
        \/ scan'.asks = 0 /\ scan'.tries = 0 /\ scan'.pc = "des"
    BY <1>0, <2>1 DEF synAnswer, Scans
  <2>3. AsksBounded' /\ (scan'.pc \notin Describing => Allowed')
    BY <1>0, <2>2, NoMoreAsked
  <2>4. CASE scan'.asks = 0 /\ scan'.tries = 0 /\ scan'.pc = "des"
    <3>1. Uncounted' = 0 /\ faults' \in Nat
      BY <2>4 DEF Uncounted, Inv, Types, Outside
    <3>2. ASSUME faults' = 0 PROVE NoneMissing'
      <4>1. Alone'
        BY <1>0, <3>2 DEF Untroubled, Inv, Sure
      <4>2. main'.pc # "wait"
        BY <1>1, <2>4 DEF Apart
      <4>3. Quiet'
        BY <2>4, <4>1, <4>2 DEF Alone, ScanPort, Using
      <4>4. AtHand' = {}
        BY <4>3 DEF Quiet, AtHand, ToSet
      <4>5. QED
        BY <2>4, <4>4 DEF NoneMissing
    <3>3. QED
      BY <1>1, <2>3, <3>1, <3>2 DEF Allowed
  <2>5. QED
    BY <1>1, <2>2, <2>3, <2>4 DEF Describing
<1>4. CASE sendDes \/ recvTx \/ recvData
  BY <1>0, <1>1, <1>4, DescribingBudget
<1>5. QED
  BY <1>2, <1>3, <1>4 DEF ScanAllDevice

LEMMA MainBudget ==
    ASSUME Types, Budget, ~ mixed, ~ mixed', serverLoop
    PROVE  Apart' /\ Allowed' /\ AsksBounded'
<1>0. /\ scan \in Scans /\ main \in Mains /\ Apart /\ Allowed /\ AsksBounded
      /\ faults' \in {faults, faults + 1}
      /\ Idle.asks = 0
  BY TroubleGrows DEF Types, ScanLocals, MainLocals, Budget, Next, Idle
<1>1. CASE RecviveData
  <2>1. /\ UNCHANGED <<port, air, scan, faults>>
        /\ main' = main \/ main'.pc \in {"recv", "handle"}
    BY <1>0, <1>1 DEF RecviveData, serial, Mains
  <2>2. Apart'
    BY <1>0, <2>1 DEF Apart
  <2>3. Allowed' /\ AsksBounded'
    BY <1>0, <2>1 DEF Allowed, AsksBounded, Uncounted, NoneMissing, AtHand, UnderWay
  <2>4. QED
    BY <2>2, <2>3
<1>2. CASE handleManagerPackage
  <2>1. scan'.asks = 0 /\ scan'.pc = "start" /\ main' = nextPackage /\ main.pc = "handle"
    BY <1>2 DEF handleManagerPackage, Idle
  <2>2. main'.pc \in {"recv", "handle"}
    BY <2>1 DEF nextPackage, Waiting
  <2>3. QED
    BY <1>0, <2>1, <2>2, NoMoreAsked DEF Apart, Describing
<1>3. ASSUME scan.pc = "idle", scan' = scan PROVE Apart' /\ Allowed' /\ AsksBounded'
  BY <1>0, <1>3, NoMoreAsked DEF Apart, Describing
<1>4. CASE handleForwardingPackage
  <2>1. mixed' = (mixed \/ scan.pc # "idle") /\ scan' = scan
    BY <1>4 DEF handleForwardingPackage
  <2>2. QED
    BY <1>3, <2>1
<1>5. CASE getResponse \/ clearComportBuffer
  <2>1. main.pc \in {"wait", "clear"} /\ scan' = scan
    BY <1>5 DEF getResponse, clearComportBuffer
  <2>2. QED
    BY <1>0, <1>3, <2>1 DEF Apart
<1>6. QED
  BY <1>1, <1>2, <1>4, <1>5 DEF serverLoop

LEMMA OutsideBudget ==
    ASSUME Types, Budget, ~ mixed,
           Module \/ (\E f \in UnderWay : Lose(f)) \/ Rescan \/ \E n \in Nodes : Request(n) \/ Leave(n)
    PROVE  Apart' /\ Allowed' /\ AsksBounded'
<1>0. /\ scan' = scan /\ main' = main /\ Apart /\ Allowed /\ AsksBounded
      /\ faults' \in {faults, faults + 1} /\ faults \in Nat /\ scan \in Scans
  BY OutsideLeaves, TroubleGrows DEF Budget, Next, UnderWay, Types, Outside, ScanLocals
<1>1. Apart' /\ AsksBounded'
  BY <1>0, NoMoreAsked DEF Apart
<1>u. Uncounted' = Uncounted
  BY <1>0 DEF Uncounted
<1>2. CASE Module
  <2>1. faults' = faults
    BY <1>2 DEF Module, Confirm, Deliver
  <2>2. scan.pc \in Describing /\ NoneMissing => NoneMissing'
    BY <1>0, <1>2, NoneMissingMoves
  <2>3. QED
    BY <1>0, <1>1, <1>u, <2>1, <2>2 DEF Allowed
<1>3. CASE \E f \in UnderWay : Lose(f)
  <2>1. faults' = faults + 1
    BY <1>3 DEF Lose
  <2>2. Allowed'
    BY <1>0, <1>u, <2>1 DEF Allowed
  <2>3. QED
    BY <1>1, <2>2
<1>4. CASE Rescan \/ \E n \in Nodes : Request(n) \/ Leave(n)
  <2>1. UNCHANGED <<port, air, faults>>
    BY <1>4 DEF Rescan, Request, Leave, serial
  <2>2. NoneMissing' = NoneMissing
    BY <1>0, <2>1 DEF NoneMissing, AtHand, UnderWay
  <2>3. QED
    BY <1>0, <1>1, <1>u, <2>1, <2>2 DEF Allowed
<1>5. QED
  BY <1>2, <1>3, <1>4

LEMMA BudgetStep == ASSUME Inv, Inv', Budget, [Next]_vars PROVE Budget'
<1> SUFFICES ASSUME ~ mixed' PROVE Apart' /\ Allowed' /\ AsksBounded'
  BY DEF Budget
<1>1. ~ mixed /\ Types
  <2>1. mixed' = mixed \/ mixed' = (mixed \/ scan.pc # "idle")
    BY TroubleGrows
  <2>2. ~ mixed
    BY <2>1
  <2>3. QED
    BY <2>2 DEF Inv
<1>2. CASE ScanAllDevice
  BY <1>1, <1>2, ScanBudget
<1>3. CASE serverLoop
  BY <1>1, <1>3, MainBudget
<1>4. CASE Module \/ (\E f \in UnderWay : Lose(f)) \/ Rescan \/ \E n \in Nodes : Request(n) \/ Leave(n)
  BY <1>1, <1>4, OutsideBudget
<1>5. CASE UNCHANGED vars
  <2>1. UNCHANGED <<port, air, scan, main, faults, mixed>>
    BY <1>5 DEF vars, serial
  <2>2. QED
    BY <1>1, <2>1 DEF Budget, Apart, Allowed, AsksBounded, Uncounted, NoneMissing, AtHand, UnderWay
<1>6. QED
  BY <1>2, <1>3, <1>4, <1>5 DEF Next, UnderWay

LEMMA InitBudget == Init => Budget
<1> SUFFICES ASSUME Init PROVE Budget
  OBVIOUS
<1>1. scan.pc = "start" /\ scan.asks = 0 /\ main.pc = "off" /\ faults = 0
  BY DEF Init, Idle, Waiting
<1>2. QED
  BY <1>1 DEF Budget, Apart, Allowed, Describing, AsksBounded

\* A node is asked for its description at most maxReTryTimes times and once more for every
\* frame that was late or lost (askDeviceDescription, whose tryTimes counts descriptions
\* and not time-outs), unless a command was handled during a scan.
THEOREM AskingBounded == Spec => []AsksBounded
<1>1. Inv /\ Budget => AsksBounded
  BY DEF Budget, AsksBounded
<1>2. QED
  BY <1>1, InvHolds, InitBudget, BudgetStep, PTL DEF Spec
=============================================================================
