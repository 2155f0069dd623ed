--------------------------- MODULE LoRaBrokerProofs --------------------------
(***************************************************************************)
(* ListedNodesFound, AnswersTrue and DeadNodesGone for any number of end   *)
(* nodes, any configuration, and any number of tries, commands, ips and    *)
(* waits that are too short.                                               *)
(*                                                                         *)
(* The first and the last are about the entries a scan has passed.  The    *)
(* second is about what a node owes: what it makes and leaves is its own,  *)
(* and what comes while a command is handled alone is its answer to that.  *)
(***************************************************************************)
EXTENDS LoRaBroker, SequenceLemmas

Device == [addr : Nodes, ip : NoIp .. MaxIps - 1]
ScanPcs == {"idle", "start", "join", "joining", "clear", "cleared", "enquire", "acking",
            "ask", "register"}
MainPcs == {"off", "recv", "handle", "send", "enquire", "wait"}
Scans == [pc : ScanPcs, i : Nat, try : 1 .. maxRetryTimes, got : Seq(Reply), gone : SUBSET Nodes]
Mains == [pc : MainPcs, batch : Seq(Packages), index : Nat, addr : Nodes \cup {"none"},
          alone : BOOLEAN, afresh : BOOLEAN]

\* What a node makes and leaves for the broker is its own.
Answers(n) == [kind : {"ACK"}] \cup [kind : {"data"}, node : {n}, req : 1 .. MaxRequests]
Owed == /\ making \in [Nodes -> Seq(Reply)] /\ left \in [Nodes -> Seq(Reply)]
        /\ \A n \in Nodes : making[n] \in Seq(Answers(n)) /\ left[n] \in Seq(Answers(n))

\* The types of what the threads share, and of what is around them.
Shared == /\ LoRaDevices \in Seq(Device) /\ nowScanning \in BOOLEAN
          /\ port \in Seq(Reply) /\ Owed /\ asked \subseteq Query
Outside == /\ wire \in Seq(Packages) /\ table \in [Nodes -> NoIp .. MaxIps - 1]
           /\ ipCount \in 0 .. MaxIps /\ requests \in 0 .. MaxRequests
           /\ reachable \subseteq Nodes /\ up \in BOOLEAN

\* The locals of the threads.
ScanLocals == /\ scan \in Scans
              /\ scan.i \in 1 .. Len(LoRaDevices) + 1
              /\ scan.pc \notin {"idle", "start", "join", "ask"} => Checking
MainLocals == /\ main \in Mains
              /\ main.pc \in {"off", "recv"} <=> main.batch = <<>>
              /\ main.pc \in {"send", "enquire", "wait"} => Package.kind = "forward"
              /\ main.pc = "send" => main.index > 0
              /\ main.pc \in {"enquire", "wait"} => main.addr \in Nodes

Types == Shared /\ Outside /\ ScanLocals /\ MainLocals

\* The manager knows the node n by the ip of one of the first m entries.
Found(n, m) ==
    \E k \in 1 .. m : LoRaDevices[k].addr = n /\ LoRaDevices[k].ip = table[n] /\ table[n] # NoIp

\* The entries a scan has registered, all of them between scans.
Registered ==
    /\ scan.pc = "idle" =>
         \A k \in DOMAIN LoRaDevices : Found(LoRaDevices[k].addr, Len(LoRaDevices))
    /\ scan.pc \in {"ask", "register"} =>
         \A k \in DOMAIN LoRaDevices : k < scan.i => Found(LoRaDevices[k].addr, scan.i - 1)
    /\ scan.pc = "register" => Target.ip # NoIp

\* There is at most one "rescan" on its way to the main loop, and a scan in the
\* thread it starts is the only one: the scan of Start has ended by then.
RescansIn(s) == {k \in DOMAIN s : s[k].kind = "rescan"}
OneRescan ==
    /\ rescans \in {0, 1}
    /\ RescansIn(wire) # {} \/ RescansIn(main.batch) # {} => scan.pc = "idle" /\ rescans = 1
    /\ RescansIn(wire) = {} \/ RescansIn(main.batch) = {}
    /\ \A j, k \in RescansIn(wire) : j = k
    /\ \A j, k \in RescansIn(main.batch) : j = k
    /\ main.pc # "off" /\ rescans = 0 => scan.pc = "idle"
    /\ main.pc = "off" => rescans = 0

\* Unless a join was not answered in time, one is asked for the target of the scan only,
\* and the JoinOK is that of a node that answers.
Joins ==
    /\ \A q \in asked :
         q.kind = "join" => q.by = "scan" /\ scan.pc = "joining" /\ q.node = Target.addr
    /\ scan.pc = "joining" /\ Target.addr \in scan.gone =>
         \A k \in DOMAIN port : port[k].kind # "JoinOK"

\* The entries the scan has kept so far are none of the nodes that were gone.
Checks == {"clear", "cleared", "enquire", "acking"}
Kept ==
    /\ scan.pc \in Checks => Target.addr \notin scan.gone
    /\ scan.pc \in {"join", "joining"} \cup Checks =>
         \A k \in DOMAIN LoRaDevices : k < scan.i => LoRaDevices[k].addr \notin scan.gone
    /\ scan.pc \in {"ask", "register"} =>
         \A k \in DOMAIN LoRaDevices : LoRaDevices[k].addr \notin scan.gone

Gone == /\ scan.gone \cap reachable = {} /\ joinLate \in BOOLEAN
        /\ joinLate \/ (Joins /\ Kept)

\* While a command is handled alone, only its own enquiry is asked, and what is at the
\* port is the node's; if it is also handled afresh, that is the response to it.
Response == [kind |-> "data", node |-> main.addr, req |-> Package.req]
Enquiry == [by |-> "main", kind |-> "enquiry", node |-> main.addr]
Alone ==
    /\ main.pc \in {"send", "enquire", "wait"} /\ main.alone => scan.pc = "idle"
    /\ main.pc = "wait" /\ main.alone =>
         /\ asked \subseteq {Enquiry} /\ port \in Seq(Answers(main.addr))
         /\ main.afresh => port \in Seq({Response})
    /\ main.pc \in {"enquire", "wait"} /\ main.alone /\ main.afresh =>
         making[main.addr] \in Seq({Response}) /\ left[main.addr] \in Seq({Response})
Apart == Alone /\ AnswersTrue

USE LoRaAssumption

-----------------------------------------------------------------------------
(* Types.                                                                  *)

\* The broker goes on to the next package of the batch, or waits for the next batch.
LEMMA NextPackage ==
    ASSUME main \in Mains, main.batch # <<>>, main' = nextPackage
    PROVE  /\ main' \in Mains
           /\ main'.batch = Tail(main.batch)
           /\ main'.pc \in {"handle", "recv"}
           /\ main'.pc = "recv" <=> main'.batch = <<>>
<1>1. main.batch \in Seq(Packages)
  BY DEF Mains
<1>2. /\ Tail(main.batch) \in Seq(Packages)
      /\ Len(Tail(main.batch)) = Len(main.batch) - 1
      /\ Len(main.batch) \in Nat \ {0}
  BY <1>1, HeadTailProperties, EmptySeq
<1>3. Tail(main.batch) = <<>> <=> ~ (Len(main.batch) > 1)
  <2>1. Tail(main.batch) = <<>> <=> Len(Tail(main.batch)) = 0
    BY <1>2, EmptySeq
  <2>2. \A n \in Nat \ {0} : n - 1 = 0 <=> ~ (n > 1)
    OBVIOUS
  <2>3. Len(Tail(main.batch)) = 0 <=> ~ (Len(main.batch) > 1)
    BY <1>2, <2>2, Zenon
  <2>4. QED
    BY <2>1, <2>3, Zenon
<1>4. QED
  BY <1>2, <1>3 DEF nextPackage, Waiting, Mains, MainPcs

LEMMA PackageFacts ==
    ASSUME main \in Mains, main.batch # <<>>
    PROVE  /\ Package \in Packages
           /\ Package.kind = "forward" => Package.req \in 1 .. MaxRequests
<1>1. Package \in Packages
  BY HeadTailProperties DEF Mains, Package
<1>2. QED
  BY <1>1 DEF Packages

LEMMA TargetFacts ==
    ASSUME LoRaDevices \in Seq(Device), scan.i \in 1 .. Len(LoRaDevices)
    PROVE  Target \in Device /\ Target.addr \in Nodes
<1>1. Target \in Device
  BY ElementOfSeq DEF Target
<1>2. QED
  BY <1>1 DEF Device

\* What a node makes and leaves stays in S if what it is told is in S, ...
LEMMA Told ==
    ASSUME making \in [Nodes -> Seq(Reply)], NEW n \in Nodes, NEW r, tell(n, r),
           NEW S, NEW m \in Nodes, making[m] \in Seq(S), m = n => r \in S
    PROVE  making'[m] \in Seq(S)
<1>1. CASE m = n
  <2>1. Append(making[n], r) \in Seq(S)
    BY <1>1, AppendContents
  <2>2. QED
    BY <1>1, <2>1 DEF tell
<1>2. CASE m # n
  BY <1>2 DEF tell
<1>3. QED
  BY <1>1, <1>2

LEMMA ToldOwed ==
    ASSUME Owed, NEW n \in Nodes, NEW r \in Reply, r \in Answers(n), tell(n, r), left' = left
    PROVE  Owed'
<1>1. /\ making \in [Nodes -> Seq(Reply)] /\ left \in [Nodes -> Seq(Reply)]
      /\ \A m \in Nodes : making[m] \in Seq(Answers(m)) /\ left[m] \in Seq(Answers(m))
  BY DEF Owed
<1>2. \A m \in Nodes : making'[m] \in Seq(Answers(m)) /\ making'[m] \in Seq(Reply)
  <2>1. TAKE m \in Nodes
  <2>2. making'[m] \in Seq(Answers(m))
    BY <1>1, Told
  <2>3. making'[m] \in Seq(Reply)
    BY <1>1, Told
  <2>4. QED
    BY <2>2, <2>3
<1>3. making' = [making EXCEPT ![n] = Append(@, r)] \/ making' = making
  BY DEF tell
<1>4. making' \in [Nodes -> Seq(Reply)]
  BY <1>1, <1>2, <1>3
<1>5. QED
  BY <1>1, <1>2, <1>4 DEF Owed

\* ... and when the node makes its next reply, or the module takes what it has left.
LEMMA Replied ==
    ASSUME Owed, NEW n \in Nodes, nodeReplies(n),
           NEW S, NEW m \in Nodes, making[m] \in Seq(S), left[m] \in Seq(S)
    PROVE  making'[m] \in Seq(S) /\ left'[m] \in Seq(S)
<1>1. /\ making \in [Nodes -> Seq(Reply)] /\ left \in [Nodes -> Seq(Reply)]
      /\ making[n] # <<>>
      /\ left' = [left EXCEPT ![n] = Append(@, Head(making[n]))]
      /\ making' = [making EXCEPT ![n] = Tail(@)]
  BY DEF Owed, nodeReplies
<1>2. CASE m = n
  <2>1. Head(making[m]) \in S /\ Tail(making[m]) \in Seq(S)
    BY <1>1, <1>2, HeadTailProperties
  <2>2. Append(left[m], Head(making[m])) \in Seq(S)
    BY <2>1, AppendContents
  <2>3. QED
    BY <1>1, <1>2, <2>1, <2>2
<1>3. CASE m # n
  BY <1>1, <1>3
<1>4. QED
  BY <1>2, <1>3

LEMMA RepliedOwed == ASSUME Owed, NEW n \in Nodes, nodeReplies(n) PROVE Owed'
<1>1. /\ making \in [Nodes -> Seq(Reply)] /\ left \in [Nodes -> Seq(Reply)]
      /\ \A m \in Nodes : making[m] \in Seq(Answers(m)) /\ left[m] \in Seq(Answers(m))
  BY DEF Owed
<1>2. ASSUME NEW m \in Nodes
      PROVE  making'[m] \in Seq(Answers(m)) /\ left'[m] \in Seq(Answers(m))
  BY <1>1, <1>2, Replied
<1>3. ASSUME NEW m \in Nodes PROVE making'[m] \in Seq(Reply) /\ left'[m] \in Seq(Reply)
  BY <1>1, <1>3, Replied
<1>4. making' \in [Nodes -> Seq(Reply)] /\ left' \in [Nodes -> Seq(Reply)]
  <2>1. /\ left' = [left EXCEPT ![n] = Append(@, Head(making[n]))]
        /\ making' = [making EXCEPT ![n] = Tail(@)]
    BY DEF nodeReplies
  <2>2. QED
    BY <1>1, <1>3, <2>1
<1>5. QED
  BY <1>2, <1>4 DEF Owed

LEMMA TakenOwed ==
    ASSUME Owed, NEW n, left' = left \/ left' = [left EXCEPT ![n] = <<>>],
           making' = making \/ making' = [making EXCEPT ![n] = <<>>]
    PROVE  Owed'
<1>1. \A m \in Nodes : <<>> \in Seq(Answers(m)) /\ <<>> \in Seq(Reply)
  BY EmptySeq
<1>2. QED
  BY <1>1 DEF Owed

\* Whoever waited no longer does; what is asked is asked as before.
LEMMA Abandoned ==
    ASSUME asked \subseteq Query, NEW by \in {"scan", "main"}, abandon(by)
    PROVE  /\ asked' \subseteq Query
           /\ Answered(by) => asked' = asked
           /\ \A q \in asked' : \E p \in asked : q.kind = p.kind /\ (p.by # by => q = p)
<1>1. \A p \in asked : /\ p \in Query
                       /\ p.by # by => [p EXCEPT !.by = IF @ = by THEN "none" ELSE @] = p
                       /\ p.by = by => [p EXCEPT !.by = IF @ = by THEN "none" ELSE @]
                                        = [by |-> "none", kind |-> p.kind, node |-> p.node]
  BY DEF Query
<1>2. asked' = {[p EXCEPT !.by = IF @ = by THEN "none" ELSE @] : p \in asked}
  BY DEF abandon
<1>3. ASSUME NEW q \in asked' PROVE q \in Query /\ \E p \in asked : q.kind = p.kind /\ (p.by # by => q = p)
  <2>1. PICK p \in asked : q = [p EXCEPT !.by = IF @ = by THEN "none" ELSE @]
    BY <1>2, <1>3
  <2>2. p \in Query /\ (q = p \/ (p.by = by /\ q = [by |-> "none", kind |-> p.kind, node |-> p.node]))
    BY <1>1, <2>1
  <2>3. QED
    BY <2>2 DEF Query
<1>4. ASSUME Answered(by) PROVE asked' = asked
  <2>1. \A p \in asked : p.by # by
    BY <1>4 DEF Answered
  <2>2. \A p \in asked : [p EXCEPT !.by = IF @ = by THEN "none" ELSE @] = p
    BY <1>1, <2>1
  <2>3. QED
    BY <1>2, <2>2
<1>5. QED
  BY <1>3, <1>4

LEMMA InitTypes == Init => Types
<1> SUFFICES ASSUME Init PROVE Types
  OBVIOUS
<1>1. /\ <<>> \in Seq(Device) /\ <<>> \in Seq(Reply) /\ <<>> \in Seq(Packages)
      /\ LoRaDevices = <<>> /\ Len(LoRaDevices) = 0
  BY EmptySeq DEF Init
<1>2. Shared
  <2>1. \A n \in Nodes : <<>> \in Seq(Answers(n))
    BY EmptySeq
  <2>2. Owed
    BY <1>1, <2>1 DEF Init, Owed
  <2>3. QED
    BY <1>1, <2>2 DEF Init, Shared
<1>3. Outside
  <2>1. NoIp \in NoIp .. MaxIps - 1
    BY DEF NoIp
  <2>2. QED
    BY <1>1, <2>1 DEF Init, Outside
<1>4. scan = [pc |-> "start", i |-> 1, try |-> 1, got |-> <<>>, gone |-> {}]
  BY DEF Init, Rest
<1>5. ScanLocals
  BY <1>1, <1>4 DEF ScanLocals, Scans, ScanPcs
<1>6. MainLocals
  BY <1>1 DEF Init, Waiting, MainLocals, Mains, MainPcs
<1>7. QED
  BY <1>2, <1>3, <1>5, <1>6 DEF Types

\* The manager, the nodes and the module.
LEMMA OutsideTypes ==
    ASSUME Types, Module \/ Rescan \/ \E n \in Nodes : Request(n) \/ Die(n) \/ nodeReplies(n)
    PROVE  Types'
<1>0. UNCHANGED <<LoRaDevices, nowScanning, scan, main, table, ipCount, up>>
  BY DEF Module, moduleAnswers, Rescan, Request, Die, nodeReplies, broker, manager
<1>1. ScanLocals' /\ MainLocals'
  BY <1>0 DEF Types, ScanLocals, MainLocals, Checking, Package
<1>2. ASSUME NEW q \in asked, moduleAnswers(q) PROVE Types'
  <2>1. UNCHANGED <<reachable, manager, up>> /\ asked' \subseteq asked
    BY <1>2 DEF moduleAnswers
  <2>2. port' \in Seq(Reply) /\ Owed'
    <3>1. [kind |-> "JoinOK"] \in Reply /\ <<>> \in Seq(Reply)
      BY EmptySeq DEF Reply
    <3>2. q.node \in Nodes
      BY DEF Types, Shared, Query
    <3>3. /\ Append(port, [kind |-> "JoinOK"]) \in Seq(Reply)
          /\ port \o left[q.node] \in Seq(Reply)
      BY <3>1, <3>2, AppendContents, ConcatProperties DEF Types, Shared, Owed
    <3>4. port' \in Seq(Reply)
      BY <1>2, <3>3 DEF moduleAnswers, Types, Shared
    <3>5. making' = making /\ (left' = left \/ left' = [left EXCEPT ![q.node] = <<>>])
      BY <1>2 DEF moduleAnswers
    <3>6. QED
      BY <3>4, <3>5, TakenOwed DEF Types, Shared
  <2>3. QED
    BY <1>0, <1>1, <2>1, <2>2 DEF Types, Shared, Outside, manager
<1>3. CASE Rescan
  <2>1. UNCHANGED <<reachable, serial, requests>> /\ wire' = Append(wire, [kind |-> "rescan"])
    BY <1>3 DEF Rescan
  <2>2. [kind |-> "rescan"] \in Packages
    BY DEF Packages
  <2>3. wire' \in Seq(Packages)
    BY <2>1, <2>2, AppendContents DEF Types, Outside
  <2>4. QED
    BY <1>0, <1>1, <2>1, <2>3 DEF Types, Shared, Outside, serial, Owed
<1>4. ASSUME NEW n \in Nodes, Request(n) PROVE Types'
  <2>1. /\ UNCHANGED <<reachable, serial>> /\ requests < MaxRequests /\ requests' = requests + 1
        /\ table[n] # NoIp
        /\ wire' = Append(wire, [kind |-> "forward", ip |-> table[n], req |-> requests'])
    BY <1>4 DEF Request
  <2>2. requests' \in 1 .. MaxRequests /\ table[n] \in 0 .. MaxIps - 1
    BY <2>1 DEF Types, Outside, NoIp
  <2>3. [kind |-> "forward", ip |-> table[n], req |-> requests'] \in Packages
    BY <2>2 DEF Packages
  <2>4. wire' \in Seq(Packages)
    BY <2>1, <2>3, AppendContents DEF Types, Outside
  <2>5. QED
    BY <1>0, <1>1, <2>1, <2>2, <2>4 DEF Types, Shared, Outside, serial, Owed
<1>5. ASSUME NEW n \in Nodes, Die(n) PROVE Types'
  <2>1. making' = [making EXCEPT ![n] = <<>>] /\ UNCHANGED <<left, port, asked, manager>>
        /\ reachable' \subseteq reachable
    BY <1>5 DEF Die
  <2>2. Owed'
    BY <2>1, TakenOwed DEF Types, Shared
  <2>3. QED
    BY <1>0, <1>1, <2>1, <2>2 DEF Types, Shared, Outside, manager
<1>6. ASSUME NEW n \in Nodes, nodeReplies(n) PROVE Types'
  <2>1. Owed'
    BY <1>6, RepliedOwed DEF Types, Shared
  <2>2. QED
    BY <1>0, <1>1, <1>6, <2>1 DEF nodeReplies, Types, Shared, Outside, manager
<1>7. QED
  BY <1>2, <1>3, <1>4, <1>5, <1>6 DEF Module

\* The scan's own steps leave the main loop and the manager's side alone.
LEMMA ScanLeaves ==
    ASSUME ScanAllDevice
    PROVE  /\ UNCHANGED <<up, reachable, wire, requests, rescans>> /\ up
           /\ answer' = <<>>
           /\ (scan.pc = "ask" /\ ~ Checking) \/ main' = main
BY DEF ScanAllDevice, loadLoRaConfigFile, addNode, joinAnswer, clearEndNodeBuffer, sendSyn, enquire,
   checkAlive, allChecked, askIoTIp, registerDevice, endScan, scanUnchanged, Silent, manager

\* The node that does not answer is taken off the list; the scan stays at its place.
LEMMA EraseFacts ==
    ASSUME Types, Checking, eraseDevice
    PROVE  /\ LoRaDevices' \in Seq(Device)
           /\ Len(LoRaDevices') = Len(LoRaDevices) - 1
           /\ \A k \in 1 .. Len(LoRaDevices') :
                 LoRaDevices'[k] = IF k < scan.i THEN LoRaDevices[k] ELSE LoRaDevices[k + 1]
           /\ scan' \in Scans /\ scan'.pc = "join" /\ scan'.i = scan.i /\ scan'.gone = scan.gone
           /\ scan'.i \in 1 .. Len(LoRaDevices') + 1
<1>1. LoRaDevices \in Seq(Device) /\ scan \in Scans /\ scan.i \in 1 .. Len(LoRaDevices)
  BY LenProperties DEF Types, Shared, ScanLocals, Checking
<1>2. /\ LoRaDevices' \in Seq(Device)
      /\ Len(LoRaDevices') = Len(LoRaDevices) - 1
      /\ \A k \in 1 .. Len(LoRaDevices) - 1 :
            LoRaDevices'[k] = IF k < scan.i THEN LoRaDevices[k] ELSE LoRaDevices[k + 1]
  BY <1>1, RemoveAtProperties DEF eraseDevice
<1>3. <<>> \in Seq(Reply)
  BY EmptySeq
<1>4. /\ scan' \in Scans /\ scan'.pc = "join" /\ scan'.i = scan.i /\ scan'.gone = scan.gone
  <2>1. scan' = [scan EXCEPT !.pc = "join", !.try = 1, !.got = <<>>] /\ 1 \in 1 .. maxRetryTimes
    BY DEF eraseDevice
  <2>2. QED
    BY <1>1, <1>3, <2>1 DEF Scans, ScanPcs
<1>5. scan'.i \in 1 .. Len(LoRaDevices') + 1
  BY <1>1, <1>2, <1>4, LenProperties
<1>6. QED
  BY <1>2, <1>4, <1>5

\* Steps of the scan that leave the list alone.
LEMMA ScanMoves ==
    ASSUME Types, scan' \in Scans, UNCHANGED <<LoRaDevices, nowScanning, table, ipCount, main>>,
           ScanAllDevice,
           port' \in Seq(Reply), Owed', asked' \subseteq Query,
           scan'.i \in 1 .. Len(LoRaDevices) + 1,
           scan'.pc \notin {"idle", "start", "join", "ask"} => scan'.i <= Len(LoRaDevices)
    PROVE  Types'
BY ScanLeaves DEF Types, Shared, Outside, ScanLocals, MainLocals, Checking, Package

LEMMA ScanTypes == ASSUME Types, ScanAllDevice PROVE Types'
<1>0. /\ LoRaDevices \in Seq(Device) /\ Len(LoRaDevices) \in Nat
      /\ port \in Seq(Reply) /\ Owed /\ asked \subseteq Query
      /\ scan \in Scans /\ scan.i \in 1 .. Len(LoRaDevices) + 1
      /\ scan.pc \notin {"idle", "start", "join", "ask"} => Checking
      /\ <<>> \in Seq(Reply)
      /\ UNCHANGED <<up, reachable, wire, requests, rescans>>
  BY LenProperties, EmptySeq, ScanLeaves DEF Types, Shared, ScanLocals
<1>1. ASSUME Checking PROVE scan.i \in 1 .. Len(LoRaDevices) /\ Target.addr \in Nodes
  BY <1>0, <1>1, TargetFacts DEF Checking
<1>2. ASSUME NEW kind \in {"join", "enquiry"}, Checking, ask("scan", kind, Target.addr)
      PROVE  asked' \subseteq Query
  BY <1>0, <1>1, <1>2 DEF ask, Query
<1>a. ASSUME abandon("scan") PROVE asked' \subseteq Query
  BY <1>0, <1>a, Abandoned
<1>o. ASSUME UNCHANGED <<making, left>> PROVE Owed'
  BY <1>0, <1>o DEF Owed
<1>r. 1 \in 1 .. maxRetryTimes /\ (scan.try < maxRetryTimes => scan.try + 1 \in 1 .. maxRetryTimes)
  BY <1>0 DEF Scans
<1>3. CASE loadLoRaConfigFile
  <2> DEFINE new == [k \in DOMAIN Config |-> [addr |-> Config[k], ip |-> NoIp]]
  <2>1. DOMAIN Config = 1 .. Len(Config) /\ Len(Config) \in Nat
        /\ \A k \in 1 .. Len(Config) : Config[k] \in Nodes
    BY LenProperties, ElementOfSeq
  <2>2. new \in [1 .. Len(Config) -> Device]
    BY <2>1 DEF Device, NoIp
  <2>3. LoRaDevices' = LoRaDevices \o new
    BY <1>3 DEF loadLoRaConfigFile
  <2> HIDE DEF new
  <2>4. LoRaDevices' \in Seq(Device)
    BY <1>0, <2>1, <2>2, <2>3, FunctionIsSeq, ConcatProperties
  <2>5. /\ UNCHANGED <<port, making, left, asked, table, ipCount, main>> /\ nowScanning' = TRUE
        /\ scan' = [pc |-> "join", i |-> 1, try |-> 1, got |-> <<>>, gone |-> Nodes \ reachable]
    BY <1>3 DEF loadLoRaConfigFile, Rest, serial, scanUnchanged
  <2>6. scan' \in Scans /\ scan'.i \in 1 .. Len(LoRaDevices') + 1
    BY <1>0, <2>4, <2>5, LenProperties DEF Scans, ScanPcs
  <2>7. QED
    BY <1>0, <1>o, <2>4, <2>5, <2>6 DEF Types, Shared, Outside, ScanLocals, MainLocals, Package
<1>4. CASE addNode
  <2>1. /\ scan.pc = "join" /\ Checking /\ ask("scan", "join", Target.addr) /\ port' = <<>>
        /\ scan' = [scan EXCEPT !.pc = "joining"]
        /\ UNCHANGED <<LoRaDevices, nowScanning, making, left, table, ipCount, main>>
    BY <1>4 DEF addNode, sendAtCommand, recvAtResponse, broker, scanUnchanged
  <2>2. scan' \in Scans /\ scan'.i = scan.i
    BY <1>0, <2>1 DEF Scans, ScanPcs
  <2>3. QED
    BY <1>0, <1>1, <1>2, <1>o, <2>1, <2>2, ScanMoves
<1>5. ASSUME Checking, eraseDevice, port' = <<>>, abandon("scan"),
             UNCHANGED <<nowScanning, making, left, table, ipCount, main>>
      PROVE  Types'
  BY <1>0, <1>5, <1>a, <1>o, EraseFacts DEF Types, Shared, Outside, ScanLocals, MainLocals, Package
<1>6. CASE joinAnswer
  <2>1. /\ scan.pc = "joining" /\ Checking /\ port' = <<>> /\ abandon("scan")
        /\ UNCHANGED <<nowScanning, making, left, table, ipCount, main>>
        /\ \/ scan' = [scan EXCEPT !.pc = "clear", !.try = 1] /\ UNCHANGED LoRaDevices
           \/ /\ scan.try < maxRetryTimes /\ UNCHANGED LoRaDevices
              /\ scan' = [scan EXCEPT !.pc = "join", !.try = @ + 1]
           \/ eraseDevice
    BY <1>0, <1>6 DEF joinAnswer, waited, recvAtResponse, scanUnchanged
  <2>2. ASSUME ~ eraseDevice PROVE scan' \in Scans /\ scan'.i = scan.i
    BY <1>0, <1>r, <2>1, <2>2 DEF Scans, ScanPcs
  <2>3. QED
    BY <1>0, <1>1, <1>5, <1>a, <1>o, <2>1, <2>2, ScanMoves
<1>7. CASE clearEndNodeBuffer
  <2>1. /\ scan.pc = "clear" /\ Checking /\ ask("scan", "enquiry", Target.addr)
        /\ scan' = [scan EXCEPT !.pc = "cleared"]
        /\ UNCHANGED <<LoRaDevices, nowScanning, port, making, left, table, ipCount, main>>
    BY <1>0, <1>7 DEF clearEndNodeBuffer, broker, scanUnchanged
  <2>2. scan' \in Scans /\ scan'.i = scan.i
    BY <1>0, <2>1 DEF Scans, ScanPcs
  <2>3. QED
    BY <1>0, <1>1, <1>2, <1>o, <2>1, <2>2, ScanMoves
<1>8. CASE sendSyn
  <2>1. /\ scan.pc = "cleared" /\ Checking /\ tell(Target.addr, [kind |-> "ACK"]) /\ port' = <<>>
        /\ scan' = [scan EXCEPT !.pc = "enquire"] /\ abandon("scan")
        /\ UNCHANGED <<LoRaDevices, nowScanning, left, table, ipCount, main>>
    BY <1>0, <1>8 DEF sendSyn, waited, clearComportBuffer, broker, scanUnchanged
  <2>2. scan' \in Scans /\ scan'.i = scan.i
    BY <1>0, <2>1 DEF Scans, ScanPcs
  <2>3. [kind |-> "ACK"] \in Reply /\ [kind |-> "ACK"] \in Answers(Target.addr)
    BY DEF Reply, Answers
  <2>4. Owed'
    BY <1>0, <1>1, <2>1, <2>3, ToldOwed
  <2>5. QED
    BY <1>0, <1>1, <1>a, <2>1, <2>2, <2>4, ScanMoves
<1>9. CASE enquire
  <2>1. /\ scan.pc = "enquire" /\ Checking /\ ask("scan", "enquiry", Target.addr) /\ port' = <<>>
        /\ scan' = [scan EXCEPT !.pc = "acking"]
        /\ UNCHANGED <<LoRaDevices, nowScanning, making, left, table, ipCount, main>>
    BY <1>0, <1>9 DEF enquire, clearComportBuffer, broker, scanUnchanged
  <2>2. scan' \in Scans /\ scan'.i = scan.i
    BY <1>0, <2>1 DEF Scans, ScanPcs
  <2>3. QED
    BY <1>0, <1>1, <1>2, <1>o, <2>1, <2>2, ScanMoves
<1>10. CASE checkAlive
  <2>1. /\ scan.pc = "acking" /\ Checking /\ port' = <<>> /\ abandon("scan")
        /\ UNCHANGED <<nowScanning, making, left, table, ipCount, main>>
        /\ \/ nextDevice /\ UNCHANGED LoRaDevices
           \/ /\ scan.try < maxRetryTimes /\ UNCHANGED LoRaDevices
              /\ scan' = [scan EXCEPT !.pc = "clear", !.try = @ + 1, !.got = Received]
           \/ eraseDevice
    BY <1>0, <1>10 DEF checkAlive, received, waited, scanUnchanged
  <2>2. Received \in Seq(Reply)
    BY <1>0, HeadTailProperties, AppendContents DEF Received, Scans
  <2>3. ASSUME nextDevice PROVE scan' \in Scans /\ scan'.pc = "join" /\ scan'.i = scan.i + 1
    <3>1. scan' = [scan EXCEPT !.pc = "join", !.i = scan.i + 1, !.try = 1, !.got = <<>>]
      BY <2>3 DEF nextDevice
    <3>2. scan.i + 1 \in Nat
      BY <1>0 DEF Scans
    <3>3. QED
      BY <1>0, <1>r, <3>1, <3>2 DEF Scans, ScanPcs
  <2>4. ASSUME ~ eraseDevice, ~ nextDevice PROVE scan' \in Scans /\ scan'.i = scan.i
    BY <1>0, <1>r, <2>1, <2>2, <2>4 DEF Scans, ScanPcs
  <2>5. scan.i \in 1 .. Len(LoRaDevices)
    BY <1>1, <2>1
  <2>6. CASE eraseDevice
    BY <1>5, <2>1, <2>6
  <2>7. CASE ~ eraseDevice
    <3>1. /\ scan' \in Scans /\ scan'.i \in 1 .. Len(LoRaDevices) + 1
          /\ scan'.pc # "join" => scan'.i <= Len(LoRaDevices)
      BY <1>0, <2>3, <2>4, <2>5, <2>7
    <3>2. QED
      BY <1>0, <1>a, <1>o, <2>1, <2>7, <3>1, ScanMoves
  <2>8. QED
    BY <2>6, <2>7
<1>11. CASE allChecked
  <2>1. /\ scan' = [scan EXCEPT !.pc = "ask", !.i = 1]
        /\ UNCHANGED <<LoRaDevices, nowScanning, port, making, left, asked, table, ipCount, main>>
    BY <1>11 DEF allChecked, broker, serial, scanUnchanged
  <2>2. scan' \in Scans /\ scan'.i = 1 /\ scan'.pc = "ask"
    BY <1>0, <2>1 DEF Scans, ScanPcs
  <2>3. QED
    BY <1>0, <1>o, <2>1, <2>2, ScanMoves
<1>12. CASE askIoTIp
  <2>1. /\ scan.pc = "ask" /\ Checking /\ ipCount < MaxIps /\ ipCount' = ipCount + 1
        /\ LoRaDevices' = [LoRaDevices EXCEPT ![scan.i].ip = ipCount]
        /\ scan' = [scan EXCEPT !.pc = "register"]
        /\ UNCHANGED <<nowScanning, port, making, left, asked, table, main>>
    BY <1>12 DEF askIoTIp, serial, scanUnchanged
  <2>2. ipCount \in 0 .. MaxIps
    BY DEF Types, Outside
  <2>3. [LoRaDevices[scan.i] EXCEPT !.ip = ipCount] \in Device
    <3>1. LoRaDevices[scan.i] \in Device
      BY <1>0, <1>1, <2>1, ElementOfSeq
    <3>2. QED
      BY <2>1, <2>2, <3>1, SMTT(30) DEF Device, NoIp
  <2>4. LoRaDevices' \in Seq(Device) /\ Len(LoRaDevices') = Len(LoRaDevices)
    BY <1>0, <1>1, <2>1, <2>3, ExceptSeq
  <2>5. scan' \in Scans /\ scan'.i = scan.i
    BY <1>0, <2>1 DEF Scans, ScanPcs
  <2>6. QED
    BY <1>0, <1>1, <1>o, <2>1, <2>2, <2>4, <2>5, SMTT(30)
       DEF Types, Shared, Outside, ScanLocals, MainLocals, Checking, Package
<1>13. CASE registerDevice
  <2>1. /\ scan.pc = "register" /\ Checking /\ table' = [table EXCEPT ![Target.addr] = Target.ip]
        /\ scan' = [scan EXCEPT !.pc = "ask", !.i = @ + 1]
        /\ UNCHANGED <<LoRaDevices, nowScanning, port, making, left, asked, ipCount, main>>
    BY <1>0, <1>13 DEF registerDevice, broker, serial, scanUnchanged
  <2>2. Target \in Device
    BY <1>0, <1>1, <2>1, TargetFacts
  <2>3. table' \in [Nodes -> NoIp .. MaxIps - 1]
    BY <2>1, <2>2 DEF Types, Outside, Device
  <2>4. scan' \in Scans /\ scan'.i = scan.i + 1 /\ scan'.pc = "ask"
    <3>1. scan.i + 1 \in Nat
      BY <1>0 DEF Scans
    <3>2. QED
      BY <1>0, <2>1, <3>1 DEF Scans, ScanPcs
  <2>5. scan'.i \in 1 .. Len(LoRaDevices) + 1
    BY <1>1, <2>1, <2>4
  <2>6. QED
    BY <1>0, <1>o, <2>1, <2>3, <2>4, <2>5 DEF Types, Shared, Outside, ScanLocals, MainLocals, Package
<1>14. CASE endScan
  <2>1. /\ scan' = [pc |-> "idle", i |-> 1, try |-> 1, got |-> <<>>, gone |-> {}]
        /\ nowScanning' = FALSE
        /\ main' = IF main.pc = "off" THEN Waiting ELSE main
        /\ UNCHANGED <<LoRaDevices, port, making, left, asked, table, ipCount>>
    BY <1>14 DEF endScan, Rest, serial, manager
  <2>2. scan' \in Scans /\ scan'.i \in 1 .. Len(LoRaDevices') + 1
    BY <1>0, <2>1 DEF Scans, ScanPcs
  <2>3. <<>> \in Seq(Packages)
    BY EmptySeq
  <2>4. MainLocals'
    BY <2>1, <2>3 DEF Types, MainLocals, Waiting, Mains, MainPcs, Package
  <2>5. QED
    BY <1>0, <1>o, <2>1, <2>2, <2>4 DEF Types, Shared, Outside, ScanLocals
<1>15. QED
  BY <1>3, <1>4, <1>6, <1>7, <1>8, <1>9, <1>10, <1>11, <1>12, <1>13, <1>14 DEF ScanAllDevice

\* The main loop's steps leave the list, the scan's flag and the manager's side alone.
LEMMA MainLeaves ==
    ASSUME serverLoop
    PROVE  UNCHANGED <<LoRaDevices, nowScanning, reachable, table, ipCount, requests, rescans>> /\ up
BY DEF serverLoop, RecviveData, handleManagerPackage, handleForwardingPackage, sendData, recvData,
   getResponse, mainUnchanged, broker, manager

\* What the main loop reads is some of what the manager sent, in order.
LEMMA BatchFacts ==
    ASSUME Outside, NEW n \in 1 .. Len(wire)
    PROVE  /\ SubSeq(wire, 1, n) \in Seq(Packages) /\ SubSeq(wire, n + 1, Len(wire)) \in Seq(Packages)
           /\ Len(SubSeq(wire, 1, n)) = n /\ SubSeq(wire, 1, n) # <<>>
           /\ \A k \in 1 .. n : SubSeq(wire, 1, n)[k] = wire[k]
           /\ Len(SubSeq(wire, n + 1, Len(wire))) = Len(wire) - n
           /\ \A k \in 1 .. Len(wire) - n : SubSeq(wire, n + 1, Len(wire))[k] = wire[n + k]
<1>1. wire \in Seq(Packages) /\ Len(wire) \in Nat /\ n \in Nat /\ 1 <= n /\ n <= Len(wire)
  BY LenProperties DEF Outside
<1>2. /\ SubSeq(wire, 1, n) \in Seq(Packages)
      /\ Len(SubSeq(wire, 1, n)) = n
      /\ \A k \in 1 .. n : SubSeq(wire, 1, n)[k] = wire[k]
  BY <1>1, SubSeqProperties
<1>3. /\ SubSeq(wire, n + 1, Len(wire)) \in Seq(Packages)
      /\ Len(SubSeq(wire, n + 1, Len(wire))) = Len(wire) - n
      /\ \A k \in 1 .. Len(wire) - n : SubSeq(wire, n + 1, Len(wire))[k] = wire[n + k]
  BY <1>1, SubSeqProperties
<1>4. QED
  BY <1>1, <1>2, <1>3, EmptySeq

\* The entry that the ip of a command is looked up to.
LEMMA DeviceFound ==
    ASSUME LoRaDevices \in Seq(Device), NEW ip
    PROVE  /\ findDeviceIndex(ip) \in 0 .. Len(LoRaDevices)
           /\ findDeviceIndex(ip) > 0 => LoRaDevices[findDeviceIndex(ip)].ip = ip
<1> DEFINE I == {k \in 1 .. Len(LoRaDevices) : LoRaDevices[k].ip = ip}
<1>1. Len(LoRaDevices) \in Nat /\ I \in SUBSET (1 .. Len(LoRaDevices))
  BY LenProperties
<1>2. findDeviceIndex(ip) = IF I # {} THEN Min(I) ELSE 0
  BY DEF findDeviceIndex, SelectInSeq
<1>3. \A k \in I : LoRaDevices[k].ip = ip
  OBVIOUS
<1> HIDE DEF I
<1>4. QED
  BY <1>1, <1>2, <1>3, FirstIndex

LEMMA MainTypes == ASSUME Types, serverLoop PROVE Types'
<1>0. /\ UNCHANGED <<LoRaDevices, nowScanning, reachable, table, ipCount, requests, rescans>>
      /\ up' \in BOOLEAN /\ main \in Mains
      /\ port \in Seq(Reply) /\ Owed /\ asked \subseteq Query
      /\ wire \in Seq(Packages) /\ <<>> \in Seq(Reply)
  <2>1. up' \in BOOLEAN
    BY DEF serverLoop, RecviveData, handleManagerPackage, handleForwardingPackage, sendData, recvData,
           getResponse, mainUnchanged, Types, Outside
  <2>2. QED
    BY <2>1, MainLeaves, EmptySeq DEF Types, Shared, Outside, MainLocals
<1>o. ASSUME UNCHANGED <<making, left>> PROVE Owed'
  BY <1>0, <1>o DEF Owed
<1>1. ASSUME main.batch # <<>>, main' = nextPackage PROVE MainLocals'
  BY <1>0, <1>1, NextPackage DEF MainLocals
<1>2. CASE RecviveData
  <2>1. PICK n \in 1 .. Len(wire) :
          /\ wire' = SubSeq(wire, n + 1, Len(wire))
          /\ main' = IF nowScanning THEN main
                     ELSE [main EXCEPT !.pc = "handle", !.batch = SubSeq(wire, 1, n)]
    BY <1>2 DEF RecviveData
  <2>2. main.pc = "recv" /\ UNCHANGED <<port, making, left, asked, scan>>
    BY <1>2 DEF RecviveData, serial
  <2>3. wire' \in Seq(Packages) /\ SubSeq(wire, 1, n) \in Seq(Packages) /\ SubSeq(wire, 1, n) # <<>>
    BY <2>1, BatchFacts DEF Types
  <2>4. MainLocals'
    BY <1>0, <2>1, <2>2, <2>3 DEF Types, MainLocals, Mains, MainPcs, Package
  <2>5. QED
    BY <1>0, <1>o, <2>2, <2>3, <2>4 DEF Types, Shared, Outside, ScanLocals, Checking
<1>3. CASE handleManagerPackage
  <2>1. /\ main.pc = "handle" /\ main' = nextPackage /\ UNCHANGED <<port, making, left, asked, wire>>
        /\ scan' = [pc |-> "start", i |-> 1, try |-> 1, got |-> <<>>, gone |-> {}]
    BY <1>3 DEF handleManagerPackage, serial, Rest
  <2>2. MainLocals'
    BY <1>1, <2>1 DEF Types, MainLocals
  <2>3. Len(LoRaDevices) \in Nat
    BY LenProperties DEF Types, Shared
  <2>4. ScanLocals'
    BY <1>0, <2>1, <2>3 DEF ScanLocals, Scans, ScanPcs
  <2>5. QED
    BY <1>0, <1>o, <2>1, <2>2, <2>4 DEF Types, Shared, Outside
<1>4. CASE handleForwardingPackage
  <2>1. /\ main.pc = "handle" /\ Package.kind = "forward" /\ UNCHANGED <<making, left, asked, scan, wire>>
        /\ \/ /\ findDeviceIndex(Package.ip) > 0 /\ UNCHANGED port
              /\ main' = [main EXCEPT !.pc = "send", !.index = findDeviceIndex(Package.ip),
                                    !.alone = scan.pc = "idle"]
           \/ main' = nextPackage /\ port' = <<>>
    BY <1>4 DEF handleForwardingPackage, clearComportBuffer
  <2>2. findDeviceIndex(Package.ip) \in Nat
    BY DeviceFound, LenProperties DEF Types, Shared
  <2>3. MainLocals'
    <3>1. CASE main' = nextPackage
      BY <1>1, <2>1, <3>1 DEF Types, MainLocals
    <3>2. CASE main' # nextPackage
      <4>1. /\ findDeviceIndex(Package.ip) > 0
            /\ main' = [main EXCEPT !.pc = "send", !.index = findDeviceIndex(Package.ip),
                                    !.alone = scan.pc = "idle"]
        BY <2>1, <3>2
      <4>2. /\ main' \in Mains /\ main'.pc = "send" /\ main'.batch = main.batch
            /\ main'.index = findDeviceIndex(Package.ip)
        BY <1>0, <2>2, <4>1 DEF Mains, MainPcs
      <4>3. QED
        BY <2>1, <4>1, <4>2 DEF Types, MainLocals, Package
    <3>3. QED
      BY <3>1, <3>2
  <2>4. QED
    BY <1>0, <1>o, <2>1, <2>3 DEF Types, Shared, Outside, ScanLocals, Checking
<1>5. CASE sendData
  <2>1. main.pc = "send" /\ UNCHANGED <<asked, scan, wire>>
    BY <1>5 DEF sendData, serial
  <2>2. CASE UNCHANGED <<serial, main>>
    BY <1>0, <1>o, <2>1, <2>2 DEF serial, Types, Shared, Outside, ScanLocals, MainLocals, Checking, Package
  <2>3. CASE main.index <= Len(LoRaDevices) /\ ~ UNCHANGED <<serial, main>>
    <3> DEFINE n == LoRaDevices[main.index].addr
    <3>1. /\ tell(n, [kind |-> "data", node |-> n, req |-> Package.req]) /\ port' = <<>> /\ left' = left
          /\ main' = [main EXCEPT !.pc = "enquire", !.addr = n, !.afresh = making[n] = <<>> /\ left[n] = <<>>]
      BY <1>5, <2>3 DEF sendData, clearComportBuffer
    <3>2. n \in Nodes
      <4>1. main.index \in 1 .. Len(LoRaDevices)
        BY <2>1, <2>3, LenProperties DEF Types, Shared, MainLocals, Mains
      <4>2. LoRaDevices[main.index] \in Device
        BY <4>1, ElementOfSeq DEF Types, Shared
      <4>3. QED
        BY <4>2 DEF Device
    <3> HIDE DEF n
    <3>3. /\ [kind |-> "data", node |-> n, req |-> Package.req] \in Reply
          /\ [kind |-> "data", node |-> n, req |-> Package.req] \in Answers(n)
      BY <2>1, <3>2, PackageFacts DEF Types, MainLocals, Reply, Answers
    <3>4. Owed'
      BY <1>0, <3>1, <3>2, <3>3, ToldOwed
    <3>5. MainLocals'
      BY <1>0, <2>1, <3>1, <3>2 DEF Types, MainLocals, Mains, MainPcs, Package
    <3>6. QED
      BY <1>0, <2>1, <3>1, <3>4, <3>5 DEF Types, Shared, Outside, ScanLocals, Checking
  <2>4. QED
    BY <1>5, <2>2, <2>3 DEF sendData
<1>6. CASE recvData
  <2>1. /\ main.pc = "enquire" /\ main' = [main EXCEPT !.pc = "wait", !.alone = @ /\ asked = {}] /\ port' = <<>>
        /\ asked' = asked \cup {[by |-> "main", kind |-> "enquiry", node |-> main.addr]}
        /\ UNCHANGED <<making, left, scan, wire>>
    BY <1>6 DEF recvData, ask, clearComportBuffer
  <2>2. asked' \subseteq Query
    BY <1>0, <2>1 DEF Types, MainLocals, Query
  <2>3. MainLocals'
    BY <1>0, <2>1 DEF Types, MainLocals, Mains, MainPcs, Package
  <2>4. QED
    BY <1>0, <1>o, <2>1, <2>2, <2>3 DEF Types, Shared, Outside, ScanLocals, Checking
<1>7. CASE getResponse
  <2>1. /\ main.pc = "wait" /\ main' = nextPackage /\ port' = <<>> /\ abandon("main")
        /\ UNCHANGED <<making, left, scan, wire>>
    BY <1>7 DEF getResponse, received, waited
  <2>2. MainLocals'
    BY <1>1, <2>1 DEF Types, MainLocals
  <2>3. asked' \subseteq Query
    BY <1>0, <2>1, Abandoned
  <2>4. QED
    BY <1>0, <1>o, <2>1, <2>2, <2>3 DEF Types, Shared, Outside, ScanLocals, Checking
<1>8. QED
  BY <1>2, <1>3, <1>4, <1>5, <1>6, <1>7 DEF serverLoop

LEMMA TypesStep == ASSUME Types, [Next]_vars PROVE Types'
<1>1. CASE UNCHANGED vars
  BY <1>1 DEF vars, broker, serial, manager, Types, Shared, Owed, Outside, ScanLocals, MainLocals, Checking, Package
<1>2. QED
  BY <1>1, ScanTypes, MainTypes, OutsideTypes DEF Next

-----------------------------------------------------------------------------
(* ListedNodesFound: a scan registers its entries in the order of the list,  *)
(* so that the last entry of a node is the one the manager knows it by.    *)

LEMMA TypeOKHolds == ASSUME Types PROVE TypeOK
BY LenProperties DEF Types, Shared, Owed, Outside, ScanLocals, MainLocals, Scans, Mains, Device, TypeOK

LEMMA RegisteredStep == ASSUME Types, Registered, Types', [Next]_vars PROVE Registered'
<1>0. /\ LoRaDevices \in Seq(Device) /\ Len(LoRaDevices) \in Nat
      /\ DOMAIN LoRaDevices = 1 .. Len(LoRaDevices)
      /\ scan.i \in 1 .. Len(LoRaDevices) + 1 /\ scan \in Scans
  BY LenProperties DEF Types, Shared, ScanLocals
<1>1. CASE UNCHANGED <<LoRaDevices, scan, table>>
  BY <1>1 DEF Registered, Found, Target
<1>2. CASE scan'.pc \notin {"idle", "ask", "register"}
  BY <1>2 DEF Registered
<1>3. CASE up /\ allChecked
  <2>1. scan' = [scan EXCEPT !.pc = "ask", !.i = 1] /\ UNCHANGED LoRaDevices
    BY <1>3 DEF allChecked, broker
  <2>2. scan'.pc = "ask" /\ scan'.i = 1
    BY <1>0, <2>1 DEF Scans
  <2>3. QED
    BY <1>0, <2>1, <2>2 DEF Registered
<1>4. CASE up /\ askIoTIp
  <2>1. /\ scan.pc = "ask" /\ Checking /\ ipCount < MaxIps
        /\ LoRaDevices' = [LoRaDevices EXCEPT ![scan.i].ip = ipCount]
        /\ scan' = [scan EXCEPT !.pc = "register"]
        /\ UNCHANGED table
    BY <1>4 DEF askIoTIp
  <2>2. scan'.pc = "register" /\ scan'.i = scan.i /\ scan.i \in 1 .. Len(LoRaDevices)
    BY <1>0, <2>1 DEF Scans, Checking
  <2>3. LoRaDevices'[scan.i] = [LoRaDevices[scan.i] EXCEPT !.ip = ipCount]
    BY <1>0, <2>1, <2>2
  <2>4. LoRaDevices[scan.i] \in Device /\ ipCount \in Nat
    BY <1>0, <2>2, ElementOfSeq DEF Types, Outside
  <2>5. LoRaDevices'[scan.i].ip = ipCount /\ ipCount # NoIp
    BY <2>3, <2>4 DEF Device, NoIp
  <2>6. \A k \in 1 .. Len(LoRaDevices) : k # scan.i => LoRaDevices'[k] = LoRaDevices[k]
    BY <1>0, <2>1
  <2>7. DOMAIN LoRaDevices' = DOMAIN LoRaDevices
    BY <2>1
  <2>8. ASSUME NEW k \in DOMAIN LoRaDevices', k < scan.i
        PROVE  Found(LoRaDevices[k].addr, scan.i - 1)' /\ LoRaDevices'[k] = LoRaDevices[k]
    <3>1. k \in 1 .. Len(LoRaDevices) /\ LoRaDevices'[k] = LoRaDevices[k]
      BY <1>0, <2>6, <2>7, <2>8
    <3>2. PICK j \in 1 .. scan.i - 1 :
            LoRaDevices[j].addr = LoRaDevices[k].addr /\ LoRaDevices[j].ip = table[LoRaDevices[k].addr]
            /\ table[LoRaDevices[k].addr] # NoIp
      BY <1>0, <2>1, <2>8, <3>1 DEF Registered, Found
    <3>3. LoRaDevices'[j] = LoRaDevices[j]
      BY <1>0, <2>2, <2>6
    <3>4. QED
      BY <2>1, <2>2, <3>1, <3>2, <3>3 DEF Found
  <2>9. QED
    BY <2>2, <2>5, <2>8 DEF Registered, Target
<1>5. CASE up /\ registerDevice
  <2>1. /\ scan.pc = "register" /\ table' = [table EXCEPT ![Target.addr] = Target.ip]
        /\ scan' = [scan EXCEPT !.pc = "ask", !.i = @ + 1]
        /\ UNCHANGED LoRaDevices
    BY <1>5 DEF registerDevice, broker
  <2>2. /\ scan'.pc = "ask" /\ scan'.i = scan.i + 1 /\ scan.i \in 1 .. Len(LoRaDevices)
        /\ Target.ip # NoIp
    BY <1>0, <2>1 DEF Types, ScanLocals, Scans, Checking, Registered
  <2>3. Target.addr \in Nodes /\ table \in [Nodes -> NoIp .. MaxIps - 1]
    BY <1>0, <2>2, TargetFacts DEF Types, Outside
  <2>4. table'[Target.addr] = Target.ip /\ \A n \in Nodes \ {Target.addr} : table'[n] = table[n]
    BY <2>1, <2>3
  <2>5. ASSUME NEW k \in DOMAIN LoRaDevices, k < scan.i + 1
        PROVE  \E j \in 1 .. scan.i :
                  LoRaDevices[j].addr = LoRaDevices[k].addr /\ LoRaDevices[j].ip = table'[LoRaDevices[k].addr]
                  /\ table'[LoRaDevices[k].addr] # NoIp
    <3>1. CASE LoRaDevices[k].addr = Target.addr
      <4>1. scan.i \in 1 .. scan.i
        BY <1>0
      <4>2. QED
        BY <2>2, <2>4, <3>1, <4>1 DEF Target
    <3>2. CASE LoRaDevices[k].addr # Target.addr
      <4>1. k \in 1 .. Len(LoRaDevices) /\ k < scan.i
        BY <1>0, <2>5, <3>2 DEF Target
      <4>2. PICK j \in 1 .. scan.i - 1 :
              LoRaDevices[j].addr = LoRaDevices[k].addr /\ LoRaDevices[j].ip = table[LoRaDevices[k].addr]
              /\ table[LoRaDevices[k].addr] # NoIp
        BY <2>1, <4>1 DEF Registered, Found
      <4>3. LoRaDevices[k].addr \in Nodes
        <5>1. LoRaDevices[k] \in Device
          BY <1>0, <4>1, ElementOfSeq
        <5>2. QED
          BY <5>1 DEF Device
      <4>4. table'[LoRaDevices[k].addr] = table[LoRaDevices[k].addr] /\ j \in 1 .. scan.i
        BY <1>0, <2>4, <3>2, <4>3
      <4>5. QED
        BY <4>2, <4>4
    <3>3. QED
      BY <3>1, <3>2
  <2>6. scan'.i - 1 = scan.i
    BY <1>0, <2>2
  <2>7. QED
    BY <2>1, <2>2, <2>5, <2>6 DEF Registered, Found
<1>6. CASE up /\ endScan
  <2>1. /\ scan.pc = "ask" /\ ~ Checking /\ UNCHANGED <<LoRaDevices, table>>
        /\ scan' = [pc |-> "idle", i |-> 1, try |-> 1, got |-> <<>>, gone |-> {}]
    BY <1>6 DEF endScan, Rest, manager
  <2>2. scan.i - 1 = Len(LoRaDevices) /\ \A k \in 1 .. Len(LoRaDevices) : k < scan.i
    BY <1>0, <2>1 DEF Checking
  <2>3. \A k \in DOMAIN LoRaDevices : Found(LoRaDevices[k].addr, Len(LoRaDevices))
    BY <1>0, <2>1, <2>2 DEF Registered
  <2>4. QED
    BY <2>1, <2>3 DEF Registered, Found
<1>7. CASE ScanAllDevice
  <2>1. ASSUME ~ allChecked, ~ askIoTIp, ~ registerDevice, ~ endScan
        PROVE  scan'.pc \notin {"idle", "ask", "register"}
    BY <1>0, <1>7, <2>1 DEF ScanAllDevice, loadLoRaConfigFile, addNode, joinAnswer, clearEndNodeBuffer, sendSyn,
       enquire, checkAlive, nextDevice, eraseDevice, Rest, Scans
  <2>2. QED
    BY <1>2, <1>3, <1>4, <1>5, <1>6, <1>7, <2>1 DEF ScanAllDevice
<1>8. CASE serverLoop
  <2>1. UNCHANGED scan \/ scan'.pc = "start"
    BY <1>8 DEF serverLoop, RecviveData, handleManagerPackage, handleForwardingPackage, sendData, recvData,
       getResponse, Rest
  <2>2. QED
    BY <1>1, <1>2, <1>8, <2>1, MainLeaves
<1>9. CASE UNCHANGED vars \/ Module \/ Rescan \/ \E n \in Nodes : Request(n) \/ Die(n) \/ nodeReplies(n)
  BY <1>1, <1>9 DEF vars, broker, manager, Module, moduleAnswers, Rescan, Request, Die, nodeReplies
<1>10. QED
  BY <1>7, <1>8, <1>9 DEF Next

LEMMA RegisteredAlways == Spec => [](Types /\ Registered)
<1>1. Init => Types /\ Registered
  BY InitTypes DEF Init, Rest, Registered
<1>2. Types /\ Registered /\ [Next]_vars => Types' /\ Registered'
  BY TypesStep, RegisteredStep
<1>3. QED
  BY <1>1, <1>2, PTL DEF Spec

\* Whatever the config lists, twice or never, and whichever nodes answer: between
\* scans the manager reaches a listed node by an ip the broker finds it by.
THEOREM ManagerFindsNodes == Spec => []ListedNodesFound
<1>1. ASSUME Types, Registered PROVE ListedNodesFound
  <2>1. DOMAIN LoRaDevices = 1 .. Len(LoRaDevices)
    BY <1>1, LenProperties DEF Types, Shared
  <2>2. QED
    BY <1>1, <2>1, TypeOKHolds DEF ListedNodesFound, Listed, Registered, Found
<1>2. QED
  BY <1>1, RegisteredAlways, PTL

-----------------------------------------------------------------------------
(* One scan at a time.                                                     *)

\* A thread that is idle takes no step of a scan.
LEMMA ScanRuns == ASSUME ScanAllDevice PROVE scan.pc # "idle"
BY DEF ScanAllDevice, loadLoRaConfigFile, addNode, joinAnswer, clearEndNodeBuffer, sendSyn, enquire,
   checkAlive, allChecked, askIoTIp, registerDevice, endScan

\* What the main loop does with its batch and its state.
LEMMA MainMoves ==
    ASSUME Types, serverLoop
    PROVE  /\ main.pc # "off" /\ main'.pc # "off"
           /\ \/ RecviveData
              \/ main.batch # <<>> /\ main' = nextPackage /\ wire' = wire
              \/ main'.batch = main.batch /\ wire' = wire
           /\ \/ handleManagerPackage
              \/ scan' = scan
<1>1. main \in Mains
  BY DEF Types, MainLocals
<1>2. CASE RecviveData
  BY <1>1, <1>2 DEF RecviveData, Mains
<1>3. CASE handleManagerPackage
  <2>1. main.pc = "handle" /\ main' = nextPackage /\ wire' = wire
    BY <1>3 DEF handleManagerPackage
  <2>2. main.batch # <<>>
    BY <2>1 DEF Types, MainLocals
  <2>3. QED
    BY <1>1, <1>3, <2>1, <2>2, NextPackage
<1>4. CASE handleForwardingPackage \/ getResponse
  <2>1. /\ main.pc \in {"handle", "wait"} /\ UNCHANGED <<wire, scan>>
        /\ main' = nextPackage \/ main' = [main EXCEPT !.pc = "send", !.index = findDeviceIndex(Package.ip),
                                                            !.alone = scan.pc = "idle"]
    BY <1>4 DEF handleForwardingPackage, getResponse
  <2>2. main.batch # <<>>
    BY <2>1 DEF Types, MainLocals
  <2>3. CASE main' = nextPackage
    BY <1>1, <2>1, <2>2, <2>3, NextPackage
  <2>4. CASE main' # nextPackage
    BY <1>1, <2>1, <2>4 DEF Mains
  <2>5. QED
    BY <2>3, <2>4
<1>5. CASE sendData \/ recvData
  BY <1>1, <1>5 DEF sendData, recvData, Mains
<1>6. QED
  BY <1>2, <1>3, <1>4, <1>5 DEF serverLoop

\* The "rescan" packages left when the first package is taken.
LEMMA RescansInTail ==
    ASSUME NEW s \in Seq(Packages), s # <<>>
    PROVE  \A k \in RescansIn(Tail(s)) : k + 1 \in RescansIn(s) /\ k \in Nat \ {0}
<1>1. /\ Tail(s) \in Seq(Packages) /\ Len(Tail(s)) = Len(s) - 1 /\ Len(s) \in Nat
      /\ \A k \in 1 .. Len(Tail(s)) : Tail(s)[k] = s[k + 1]
      /\ DOMAIN s = 1 .. Len(s) /\ DOMAIN Tail(s) = 1 .. Len(Tail(s))
  BY HeadTailProperties, LenProperties
<1>2. QED
  BY <1>1 DEF RescansIn

LEMMA OneRescanStep == ASSUME Types, OneRescan, [Next]_vars PROVE OneRescan'
<1>0. /\ wire \in Seq(Packages) /\ main.batch \in Seq(Packages) /\ main \in Mains
      /\ DOMAIN wire = 1 .. Len(wire) /\ Len(wire) \in Nat
      /\ RescansIn(<<>>) = {}
  BY LenProperties, EmptySeq DEF Types, Outside, MainLocals, Mains, RescansIn
<1>1. CASE UNCHANGED <<wire, main, scan, rescans>>
  BY <1>1 DEF OneRescan, RescansIn
<1>2. CASE ScanAllDevice
  <2>1. UNCHANGED <<wire, rescans>> /\ scan.pc # "idle"
    BY <1>2, ScanLeaves, ScanRuns
  <2>2. RescansIn(wire) = {} /\ RescansIn(main.batch) = {} /\ (main.pc = "off" \/ rescans = 1)
    BY <2>1 DEF OneRescan
  <2>3. CASE main' = main
    BY <2>1, <2>2, <2>3 DEF OneRescan
  <2>4. CASE main' # main
    <3>1. endScan
      BY <1>2, <2>4 DEF ScanAllDevice, loadLoRaConfigFile, addNode, joinAnswer, clearEndNodeBuffer, sendSyn,
         enquire, checkAlive, allChecked, askIoTIp, registerDevice, scanUnchanged
    <3>2. /\ main' = [pc |-> "recv", batch |-> <<>>, index |-> 0, addr |-> "none",
                       alone |-> FALSE, afresh |-> FALSE]
          /\ scan'.pc = "idle"
      BY <2>4, <3>1 DEF endScan, Waiting, Rest
    <3>3. QED
      BY <1>0, <2>1, <2>2, <3>2 DEF OneRescan
  <2>5. QED
    BY <2>3, <2>4
<1>3. CASE serverLoop
  <2>1. /\ main.pc # "off" /\ main'.pc # "off" /\ rescans' = rescans
    BY <1>3, MainMoves, MainLeaves
  <2>2. CASE RecviveData
    <3>1. PICK n \in 1 .. Len(wire) :
            /\ wire' = SubSeq(wire, n + 1, Len(wire))
            /\ main' = IF nowScanning THEN main
                       ELSE [main EXCEPT !.pc = "handle", !.batch = SubSeq(wire, 1, n)]
      BY <2>2 DEF RecviveData
    <3>2. main.pc = "recv" /\ scan' = scan
      BY <2>2 DEF RecviveData
    <3>3. RescansIn(main.batch) = {}
      BY <1>0, <3>2 DEF Types, MainLocals
    <3>4. \A k \in RescansIn(wire') : n + k \in RescansIn(wire) /\ k \in Nat \ {0}
      <4>1. /\ wire' \in Seq(Packages) /\ Len(wire') = Len(wire) - n
            /\ \A k \in 1 .. Len(wire) - n : wire'[k] = wire[n + k]
        BY <3>1, BatchFacts DEF Types
      <4>2. DOMAIN wire' = 1 .. Len(wire) - n
        BY <4>1, LenProperties
      <4>3. QED
        BY <1>0, <4>1, <4>2 DEF RescansIn
    <3>5. \/ main'.batch = main.batch
          \/ \A k \in RescansIn(main'.batch) : k \in RescansIn(wire) /\ k \in 1 .. n
      <4>1. CASE nowScanning
        BY <3>1, <4>1
      <4>2. CASE ~ nowScanning
        <5>1. main'.batch = SubSeq(wire, 1, n)
          BY <1>0, <3>1, <4>2 DEF Mains
        <5>2. /\ SubSeq(wire, 1, n) \in Seq(Packages) /\ Len(SubSeq(wire, 1, n)) = n
              /\ \A k \in 1 .. n : SubSeq(wire, 1, n)[k] = wire[k]
          BY BatchFacts DEF Types
        <5>3. DOMAIN SubSeq(wire, 1, n) = 1 .. n
          BY <5>2, LenProperties
        <5>4. QED
          BY <1>0, <5>1, <5>2, <5>3 DEF RescansIn
      <4>3. QED
        BY <4>1, <4>2
    <3>6. \A j, k \in RescansIn(wire) : j = k
      BY DEF OneRescan
    <3>7. \A j, k \in RescansIn(wire') : j = k
      BY <3>4, <3>6
    <3>8. \A j, k \in RescansIn(main'.batch) : j = k
      BY <3>3, <3>5, <3>6
    <3>9. RescansIn(wire') = {} \/ RescansIn(main'.batch) = {}
      <4>1. ASSUME NEW j \in RescansIn(wire'), NEW k \in RescansIn(main'.batch) PROVE FALSE
        <5>1. k \in RescansIn(wire) /\ k \in 1 .. n
          BY <3>3, <3>5, <4>1
        <5>2. n + j = k /\ j \in Nat \ {0}
          BY <3>4, <3>6, <4>1, <5>1
        <5>3. QED
          BY <5>1, <5>2
      <4>2. QED
        BY <4>1
    <3>10. RescansIn(wire') # {} \/ RescansIn(main'.batch) # {} => RescansIn(wire) # {}
      BY <3>3, <3>4, <3>5
    <3>11. QED
      BY <2>1, <3>2, <3>7, <3>8, <3>9, <3>10 DEF OneRescan
  <2>3. CASE main.batch # <<>> /\ main' = nextPackage /\ wire' = wire
    <3>1. main'.batch = Tail(main.batch)
      BY <1>0, <2>3, NextPackage
    <3>2. \A k \in RescansIn(main'.batch) : k + 1 \in RescansIn(main.batch) /\ k \in Nat \ {0}
      BY <1>0, <2>3, <3>1, RescansInTail
    <3>3. \A j, k \in RescansIn(main'.batch) : j = k
      BY <3>2 DEF OneRescan
    <3>4. CASE scan' = scan
      BY <2>1, <2>3, <3>2, <3>3, <3>4 DEF OneRescan
    <3>5. CASE handleManagerPackage
      <4>1. main.batch[1].kind = "rescan" /\ 1 \in DOMAIN main.batch
        BY <1>0, <2>3, <3>5, HeadTailProperties, LenProperties, EmptySeq DEF handleManagerPackage, Package
      <4>2. 1 \in RescansIn(main.batch)
        BY <4>1 DEF RescansIn
      <4>3. RescansIn(main'.batch) = {} /\ RescansIn(wire') = {} /\ rescans = 1
        BY <2>3, <3>2, <4>2 DEF OneRescan
      <4>4. QED
        BY <2>1, <4>3 DEF OneRescan
    <3>6. QED
      BY <1>3, <3>4, <3>5, MainMoves
  <2>4. CASE main'.batch = main.batch /\ wire' = wire /\ ~ (main.batch # <<>> /\ main' = nextPackage)
    <3>1. scan' = scan
      <4>1. ASSUME handleManagerPackage PROVE main.batch # <<>> /\ main' = nextPackage
        BY <4>1 DEF handleManagerPackage, Types, MainLocals
      <4>2. QED
        BY <1>3, <2>4, <4>1, MainMoves
    <3>2. QED
      BY <2>1, <2>4, <3>1 DEF OneRescan
  <2>5. QED
    BY <1>3, <2>2, <2>3, <2>4, MainMoves
<1>4. CASE Rescan
  <2>1. /\ main.pc # "off" /\ rescans < MaxRescans /\ rescans' = rescans + 1
        /\ wire' = Append(wire, [kind |-> "rescan"]) /\ UNCHANGED <<scan, main>>
    BY <1>4 DEF Rescan
  <2>2. rescans = 0 /\ rescans' = 1 /\ scan.pc = "idle"
    BY <2>1 DEF OneRescan
  <2>3. RescansIn(wire) = {} /\ RescansIn(main.batch) = {}
    BY <2>2 DEF OneRescan
  <2>4. /\ wire' \in Seq(Packages) /\ Len(wire') = Len(wire) + 1
        /\ \A k \in 1 .. Len(wire) : wire'[k] = wire[k]
    <3>1. [kind |-> "rescan"] \in Packages
      BY DEF Packages
    <3>2. QED
      BY <1>0, <2>1, <3>1, AppendContents
  <2>5. DOMAIN wire' = 1 .. Len(wire) + 1
    BY <2>4, LenProperties
  <2>6. RescansIn(wire') \subseteq {Len(wire) + 1}
    BY <1>0, <2>3, <2>4, <2>5 DEF RescansIn
  <2>7. QED
    BY <2>1, <2>2, <2>3, <2>6 DEF OneRescan
<1>5. ASSUME NEW n \in Nodes, Request(n) PROVE OneRescan'
  <2> DEFINE r == [kind |-> "forward", ip |-> table[n], req |-> requests']
  <2>1. wire' = Append(wire, r) /\ UNCHANGED <<scan, main, rescans>>
    BY <1>5 DEF Request
  <2>2. r \in Packages /\ r.kind # "rescan"
    <3>1. requests' \in 1 .. MaxRequests /\ table[n] \in 0 .. MaxIps - 1
      BY <1>5 DEF Request, Types, Outside, NoIp
    <3>2. QED
      BY <3>1 DEF Packages
  <2> HIDE DEF r
  <2>3. /\ wire' \in Seq(Packages) /\ Len(wire') = Len(wire) + 1 /\ wire'[Len(wire) + 1] = r
        /\ \A k \in 1 .. Len(wire) : wire'[k] = wire[k]
    BY <1>0, <2>1, <2>2, AppendContents
  <2>4. DOMAIN wire' = 1 .. Len(wire) + 1
    BY <2>3, LenProperties
  <2>5. RescansIn(wire') = RescansIn(wire)
    BY <1>0, <2>2, <2>3, <2>4 DEF RescansIn
  <2>6. QED
    BY <2>1, <2>5 DEF OneRescan
<1>6. CASE UNCHANGED vars \/ Module \/ \E n \in Nodes : Die(n) \/ nodeReplies(n)
  BY <1>1, <1>6 DEF vars, manager, Module, moduleAnswers, Die, nodeReplies
<1>7. QED
  BY <1>2, <1>3, <1>4, <1>5, <1>6 DEF Next

-----------------------------------------------------------------------------
(* DeadNodesGone: a node that is gone cannot join, so its entry is erased. *)

NoJoins(S) == \A q \in S : q.kind # "join"

\* That a join was not answered in time is remembered to the next scan.
LEMMA LateStays ==
    ASSUME joinLate \in BOOLEAN, [Next]_vars
    PROVE  /\ joinLate' \in BOOLEAN
           /\ joinLate = TRUE => joinLate' = TRUE \/ (up /\ loadLoRaConfigFile)
<1>1. CASE joinAnswer
  BY <1>1 DEF joinAnswer
<1>a. CASE up /\ loadLoRaConfigFile
  BY <1>a DEF loadLoRaConfigFile
<1>2. CASE ScanAllDevice /\ ~ joinAnswer /\ ~ loadLoRaConfigFile
  BY <1>2 DEF ScanAllDevice, addNode, clearEndNodeBuffer, sendSyn, enquire, checkAlive, allChecked, askIoTIp,
     registerDevice, endScan
<1>3. CASE serverLoop
  BY <1>3 DEF serverLoop, RecviveData, handleManagerPackage, handleForwardingPackage, sendData, recvData,
     getResponse, mainUnchanged
<1>4. CASE Module \/ Rescan \/ \E n \in Nodes : Request(n) \/ Die(n) \/ nodeReplies(n)
  BY <1>4 DEF Module, moduleAnswers, Rescan, Request, Die, nodeReplies
<1>5. QED
  BY <1>1, <1>a, <1>2, <1>3, <1>4 DEF Next, vars, ScanAllDevice

\* Outside of a wait for a join nothing is asked about joins.
Asks ==
    /\ scan.pc = "joining" /\ joinLate' = FALSE => Answered("scan") /\ asked' = asked
    /\ scan.pc # "joining" => (NoJoins(asked) => NoJoins(asked'))

LEMMA AskedInScan == ASSUME Types, ScanAllDevice, ~ loadLoRaConfigFile, ~ addNode PROVE Asks
<1>0. asked \subseteq Query
  BY DEF Types, Shared
<1>1. CASE joinAnswer
  <2>1. /\ scan.pc = "joining" /\ abandon("scan")
        /\ joinLate' = (joinLate \/ ~ Answered("scan"))
    BY <1>1 DEF joinAnswer, waited
  <2>2. joinLate' = FALSE => Answered("scan")
    BY <2>1
  <2>3. QED
    BY <1>0, <2>1, <2>2, Abandoned DEF Asks
<1>2. CASE sendSyn \/ checkAlive
  <2>1. scan.pc # "joining" /\ abandon("scan")
    BY <1>2 DEF sendSyn, checkAlive, waited, received
  <2>2. \A q \in asked' : \E p \in asked : q.kind = p.kind
    BY <1>0, <2>1, Abandoned
  <2>3. QED
    BY <2>1, <2>2 DEF Asks, NoJoins
<1>3. CASE clearEndNodeBuffer \/ enquire
  BY <1>3 DEF clearEndNodeBuffer, enquire, ask, Asks, NoJoins
<1>4. CASE allChecked \/ askIoTIp \/ registerDevice \/ endScan
  BY <1>4 DEF allChecked, askIoTIp, registerDevice, endScan, serial, Asks
<1>5. QED
  BY <1>1, <1>2, <1>3, <1>4 DEF ScanAllDevice

\* What each step of a scan does to the list and the target.
ScanEffect ==
    \/ loadLoRaConfigFile
    \/ addNode
    \/ /\ scan.pc = "joining" /\ port = <<[kind |-> "JoinOK"]>>
       /\ scan'.pc = "clear" /\ scan'.i = scan.i /\ scan'.gone = scan.gone /\ UNCHANGED LoRaDevices
    \/ /\ scan.pc = "joining"
       /\ scan'.pc = "join" /\ scan'.i = scan.i /\ scan'.gone = scan.gone /\ UNCHANGED LoRaDevices
    \/ scan.pc \in {"joining", "acking"} /\ Checking /\ eraseDevice
    \/ /\ scan.pc \in Checks /\ scan'.pc \in Checks
       /\ scan'.i = scan.i /\ scan'.gone = scan.gone /\ UNCHANGED LoRaDevices
    \/ /\ scan.pc = "acking"
       /\ scan'.pc = "join" /\ scan'.i = scan.i + 1 /\ scan'.gone = scan.gone /\ UNCHANGED LoRaDevices
    \/ /\ scan.pc = "join" /\ ~ Checking /\ scan'.pc = "ask"
       /\ scan'.gone = scan.gone /\ UNCHANGED LoRaDevices
    \/ /\ scan.pc \in {"ask", "register"} /\ scan'.pc \in {"ask", "register"}
       /\ scan'.gone = scan.gone
       /\ DOMAIN LoRaDevices' = DOMAIN LoRaDevices
       /\ \A k \in DOMAIN LoRaDevices : LoRaDevices'[k].addr = LoRaDevices[k].addr
    \/ scan.pc = "ask" /\ scan' = Rest

LEMMA ScanEffects == ASSUME Types, ScanAllDevice PROVE ScanEffect
<1>0. scan \in Scans /\ (scan.pc \notin {"idle", "start", "join", "ask"} => Checking)
  BY DEF Types, ScanLocals
<1>1. CASE loadLoRaConfigFile \/ addNode
  BY <1>1 DEF ScanEffect
<1>2. CASE joinAnswer
  <2>1. /\ scan.pc = "joining"
        /\ \/ /\ port = <<[kind |-> "JoinOK"]>>
              /\ scan' = [scan EXCEPT !.pc = "clear", !.try = 1]
              /\ UNCHANGED LoRaDevices
           \/ scan' = [scan EXCEPT !.pc = "join", !.try = @ + 1] /\ UNCHANGED LoRaDevices
           \/ eraseDevice
    BY <1>2 DEF joinAnswer
  <2>2. QED
    BY <1>0, <2>1 DEF ScanEffect, Scans
<1>3. CASE clearEndNodeBuffer \/ sendSyn \/ enquire
  <2>1. /\ scan.pc \in Checks
        /\ \E p \in Checks : scan' = [scan EXCEPT !.pc = p]
        /\ UNCHANGED LoRaDevices
    BY <1>3 DEF clearEndNodeBuffer, sendSyn, enquire, broker, Checks
  <2>2. scan'.pc \in Checks /\ scan'.i = scan.i /\ scan'.gone = scan.gone
    BY <1>0, <2>1 DEF Scans
  <2>3. QED
    BY <2>1, <2>2 DEF ScanEffect
<1>4. CASE checkAlive
  <2>1. /\ scan.pc = "acking"
        /\ \/ nextDevice /\ UNCHANGED LoRaDevices
           \/ /\ scan' = [scan EXCEPT !.pc = "clear", !.try = @ + 1, !.got = Received]
              /\ UNCHANGED LoRaDevices
           \/ eraseDevice
    BY <1>4 DEF checkAlive
  <2>2. CASE nextDevice /\ UNCHANGED LoRaDevices
    BY <1>0, <2>1, <2>2 DEF ScanEffect, nextDevice, Scans
  <2>3. CASE scan' = [scan EXCEPT !.pc = "clear", !.try = @ + 1, !.got = Received] /\ UNCHANGED LoRaDevices
    BY <1>0, <2>1, <2>3 DEF ScanEffect, Scans, Checks
  <2>4. CASE eraseDevice
    BY <1>0, <2>1, <2>4 DEF ScanEffect
  <2>5. QED
    BY <2>1, <2>2, <2>3, <2>4
<1>5. CASE allChecked \/ registerDevice
  BY <1>0, <1>5 DEF allChecked, registerDevice, ScanEffect, Scans, broker
<1>6. CASE askIoTIp
  <2>1. /\ scan.pc = "ask" /\ Checking /\ scan' = [scan EXCEPT !.pc = "register"]
        /\ LoRaDevices' = [LoRaDevices EXCEPT ![scan.i].ip = ipCount]
    BY <1>6 DEF askIoTIp
  <2>2. LoRaDevices \in Seq(Device) /\ \A k \in DOMAIN LoRaDevices : LoRaDevices[k] \in Device
    BY LenProperties, ElementOfSeq DEF Types, Shared
  <2>3. \A k \in DOMAIN LoRaDevices : LoRaDevices'[k].addr = LoRaDevices[k].addr
    BY <2>1, <2>2 DEF Device
  <2>4. QED
    BY <1>0, <2>1, <2>3 DEF ScanEffect, Scans
<1>7. CASE endScan
  BY <1>7 DEF endScan, ScanEffect
<1>8. QED
  BY <1>1, <1>2, <1>3, <1>4, <1>5, <1>6, <1>7 DEF ScanAllDevice

-----------------------------------------------------------------------------
LEMMA KeptStep ==
    ASSUME Types, Types', [Next]_vars, (up /\ loadLoRaConfigFile) \/ (Joins /\ Kept)
    PROVE  Kept'
<1>a. ASSUME ~ (up /\ loadLoRaConfigFile) PROVE Joins /\ Kept
  BY <1>a
<1>b. CASE up /\ loadLoRaConfigFile
  <2>1. scan'.pc = "join" /\ scan'.i = 1
    BY <1>b DEF loadLoRaConfigFile, Rest
  <2>2. DOMAIN LoRaDevices' = 1 .. Len(LoRaDevices') /\ Len(LoRaDevices') \in Nat
    BY LenProperties DEF Types, Shared
  <2>3. QED
    BY <2>1, <2>2 DEF Kept, Checks
<1> SUFFICES ASSUME ~ (up /\ loadLoRaConfigFile) PROVE Kept'
  BY <1>b
<1>c. Joins /\ Kept
  BY <1>a
<1>0. /\ LoRaDevices \in Seq(Device) /\ LoRaDevices' \in Seq(Device) /\ scan \in Scans
      /\ Len(LoRaDevices) \in Nat /\ scan.i \in 1 .. Len(LoRaDevices) + 1
      /\ DOMAIN LoRaDevices = 1 .. Len(LoRaDevices) /\ Len(LoRaDevices') \in Nat
      /\ DOMAIN LoRaDevices' = 1 .. Len(LoRaDevices')
      /\ scan.pc \notin {"idle", "start", "join", "ask"} => Checking
  BY LenProperties DEF Types, Shared, ScanLocals
<1>1. CASE UNCHANGED <<LoRaDevices, scan>>
  BY <1>c, <1>1 DEF Kept, Target
<1>2. CASE ScanAllDevice
  <2>1. CASE loadLoRaConfigFile
    BY <1>2, <2>1 DEF ScanAllDevice
  <2>2. CASE addNode
    <3>1. scan.pc = "join" /\ scan'.pc = "joining" /\ scan'.i = scan.i /\ scan'.gone = scan.gone
          /\ UNCHANGED LoRaDevices
      BY <1>0, <2>2 DEF addNode, broker, Scans
    <3>2. QED
      BY <1>c, <3>1 DEF Kept, Checks
  <2>3. CASE /\ scan.pc = "joining" /\ port = <<[kind |-> "JoinOK"]>>
             /\ scan'.pc = "clear" /\ scan'.i = scan.i /\ scan'.gone = scan.gone /\ UNCHANGED LoRaDevices
    <3>1. 1 \in DOMAIN port /\ port[1].kind = "JoinOK"
      BY <2>3
    <3>2. Target.addr \notin scan.gone
      BY <1>c, <2>3, <3>1 DEF Joins
    <3>3. QED
      BY <1>c, <2>3, <3>2 DEF Kept, Target, Checks
  <2>4. CASE scan.pc = "joining" /\ scan'.pc = "join" /\ scan'.i = scan.i /\ scan'.gone = scan.gone
             /\ UNCHANGED LoRaDevices
    BY <1>c, <2>4 DEF Kept, Checks
  <2>5. CASE scan.pc \in {"joining", "acking"} /\ Checking /\ eraseDevice
    <3>1. /\ Len(LoRaDevices') = Len(LoRaDevices) - 1
          /\ \A k \in 1 .. Len(LoRaDevices') : k < scan.i => LoRaDevices'[k] = LoRaDevices[k]
          /\ scan'.pc = "join" /\ scan'.i = scan.i /\ scan'.gone = scan.gone
      BY <2>5, EraseFacts
    <3>2. \A k \in 1 .. Len(LoRaDevices) : k < scan.i => LoRaDevices[k].addr \notin scan.gone
      BY <1>c, <1>0, <2>5 DEF Kept, Checks
    <3>3. QED
      BY <1>c, <1>0, <3>1, <3>2 DEF Kept, Checks
  <2>6. CASE scan.pc \in Checks /\ scan'.pc \in Checks /\ scan'.i = scan.i /\ scan'.gone = scan.gone
             /\ UNCHANGED LoRaDevices
    BY <1>c, <2>6 DEF Kept, Target, Checks
  <2>7. CASE scan.pc = "acking" /\ scan'.pc = "join" /\ scan'.i = scan.i + 1 /\ scan'.gone = scan.gone
             /\ UNCHANGED LoRaDevices
    <3>1. \A k \in DOMAIN LoRaDevices : k < scan.i + 1 => k < scan.i \/ k = scan.i
      BY <1>0
    <3>2. \A k \in DOMAIN LoRaDevices : k < scan.i + 1 => LoRaDevices[k].addr \notin scan.gone
      BY <1>c, <2>7, <3>1 DEF Kept, Target, Checks
    <3>3. QED
      BY <1>c, <2>7, <3>2 DEF Kept, Checks
  <2>8. CASE scan.pc = "join" /\ ~ Checking /\ scan'.pc = "ask" /\ scan'.gone = scan.gone /\ UNCHANGED LoRaDevices
    <3>1. \A k \in DOMAIN LoRaDevices : k < scan.i
      BY <1>0, <2>8 DEF Checking
    <3>2. QED
      BY <1>c, <2>8, <3>1 DEF Kept, Checks
  <2>9. CASE /\ scan.pc \in {"ask", "register"} /\ scan'.pc \in {"ask", "register"}
             /\ scan'.gone = scan.gone /\ DOMAIN LoRaDevices' = DOMAIN LoRaDevices
             /\ \A k \in DOMAIN LoRaDevices : LoRaDevices'[k].addr = LoRaDevices[k].addr
    BY <1>c, <2>9 DEF Kept, Checks
  <2>10. CASE scan' = Rest
    BY <1>c, <2>10 DEF Kept, Checks, Rest
  <2>11. QED
    BY <1>2, <2>1, <2>2, <2>3, <2>4, <2>5, <2>6, <2>7, <2>8, <2>9, <2>10, ScanEffects DEF ScanEffect
<1>3. CASE serverLoop
  <2>1. CASE scan' = scan
    BY <1>1, <1>3, <2>1, MainLeaves
  <2>2. CASE handleManagerPackage
    BY <1>c, <2>2 DEF handleManagerPackage, Kept, Checks, Rest
  <2>3. QED
    BY <1>3, <2>1, <2>2, MainMoves
<1>4. CASE UNCHANGED vars \/ Module \/ Rescan \/ \E n \in Nodes : Request(n) \/ Die(n) \/ nodeReplies(n)
  BY <1>1, <1>4 DEF vars, broker, Module, moduleAnswers, Rescan, Request, Die, nodeReplies
<1>5. QED
  BY <1>2, <1>3, <1>4 DEF Next

LEMMA JoinsStep ==
    ASSUME Types, OneRescan, scan.gone \cap reachable = {}, [Next]_vars, joinLate' = FALSE,
           (up /\ loadLoRaConfigFile) \/ Joins
    PROVE  Joins'
<1>l. CASE up /\ loadLoRaConfigFile
  <2>1. asked' = asked /\ scan'.pc = "join" /\ joinLate' = (\E q \in asked : q.kind = "join")
    BY <1>l DEF loadLoRaConfigFile, serial, Rest
  <2>2. \A q \in asked' : q.kind # "join"
    BY <2>1
  <2>3. QED
    BY <2>1, <2>2 DEF Joins
<1> SUFFICES ASSUME ~ (up /\ loadLoRaConfigFile) PROVE Joins'
  BY <1>l
<1>0. /\ scan \in Scans /\ port \in Seq(Reply) /\ Joins
      /\ scan.pc # "joining" => \A q \in asked : q.kind # "join"
  BY DEF Types, Shared, ScanLocals, Joins
<1>n. ASSUME \A q \in asked' : q.kind # "join", scan'.pc # "joining" PROVE Joins'
  BY <1>n DEF Joins
<1>k. ASSUME UNCHANGED <<LoRaDevices, scan>>, \A q \in asked' : q.kind = "join" => q \in asked,
             port' = port \/ port' = <<>>
      PROVE  Joins'
  <2>1. DOMAIN <<>> = {}
    OBVIOUS
  <2>2. QED
    BY <1>0, <1>k, <2>1 DEF Joins, Target
<1>1. CASE ScanAllDevice
  <2>1. CASE loadLoRaConfigFile
    BY <1>1, <2>1 DEF ScanAllDevice
  <2>2. CASE addNode
    <3>1. /\ scan.pc = "join" /\ port' = <<>> /\ UNCHANGED LoRaDevices
          /\ asked' = asked \cup {[by |-> "scan", kind |-> "join", node |-> Target.addr]}
          /\ scan' = [scan EXCEPT !.pc = "joining"]
      BY <2>2 DEF addNode, sendAtCommand, recvAtResponse, ask, broker
    <3>2. scan'.pc = "joining" /\ scan'.i = scan.i
      BY <1>0, <3>1 DEF Scans
    <3>3. Target' = Target /\ DOMAIN <<>> = {}
      BY <3>1, <3>2 DEF Target
    <3>4. \A q \in asked' : q.kind = "join" => q = [by |-> "scan", kind |-> "join", node |-> Target.addr]
      BY <1>0, <3>1
    <3>5. QED
      BY <3>1, <3>2, <3>3, <3>4 DEF Joins
  <2>3. CASE ~ loadLoRaConfigFile /\ ~ addNode
    <3>1. Asks /\ ScanEffect
      BY <1>1, <2>3, AskedInScan, ScanEffects
    <3>2. Checking /\ eraseDevice => scan'.pc = "join"
      BY EraseFacts
    <3>3. scan'.pc # "joining"
      BY <2>3, <3>1, <3>2 DEF ScanEffect, Checks, Rest
    <3>4. \A q \in asked' : q.kind # "join"
      BY <1>0, <3>1 DEF Asks, NoJoins, Answered, Joins
    <3>5. QED
      BY <1>n, <3>3, <3>4
  <2>4. QED
    BY <2>1, <2>2, <2>3
<1>2. CASE serverLoop
  <2>1. CASE handleManagerPackage
    <3>1. main.pc = "handle" /\ Package.kind = "rescan" /\ asked' = asked /\ scan'.pc = "start"
      BY <2>1 DEF handleManagerPackage, serial, Rest
    <3>2. main.batch \in Seq(Packages) /\ main.batch # <<>>
      BY <3>1 DEF Types, MainLocals, Mains
    <3>3. 1 \in RescansIn(main.batch)
      BY <3>1, <3>2, HeadTailProperties, LenProperties, EmptySeq DEF Package, RescansIn
    <3>4. scan.pc = "idle"
      BY <3>3 DEF OneRescan
    <3>5. QED
      BY <1>0, <1>n, <3>1, <3>4
  <2>2. CASE ~ handleManagerPackage
    <3>1. /\ \/ asked' = asked
             \/ asked' = asked \cup {[by |-> "main", kind |-> "enquiry", node |-> main.addr]}
             \/ abandon("main")
          /\ port' = port \/ port' = <<>>
      BY <1>2, <2>2 DEF serverLoop, RecviveData, handleForwardingPackage, sendData, recvData, getResponse,
         ask, clearComportBuffer, serial, received, waited
    <3>2. \A q \in asked' : q.kind = "join" => q \in asked
      <4>1. CASE abandon("main")
        <5>1. \A q \in asked' : \E p \in asked : q.kind = p.kind /\ (p.by # "main" => q = p)
          BY <4>1, Abandoned DEF Types, Shared
        <5>2. \A p \in asked : p.kind = "join" => p.by # "main"
          BY <1>0 DEF Joins
        <5>3. QED
          BY <5>1, <5>2
      <4>2. CASE ~ abandon("main")
        BY <3>1, <4>2
      <4>3. QED
        BY <4>1, <4>2
    <3>3. UNCHANGED <<LoRaDevices, scan>>
      BY <1>2, <2>2, MainMoves, MainLeaves
    <3>4. QED
      BY <1>k, <3>1, <3>2, <3>3
  <2>3. QED
    BY <2>1, <2>2
<1>3. ASSUME NEW q \in asked, moduleAnswers(q) PROVE Joins'
  <2>1. UNCHANGED <<LoRaDevices, scan>> /\ asked' \subseteq asked
    BY <1>3 DEF moduleAnswers, broker
  <2>2. ASSUME scan.pc = "joining", Target.addr \in scan.gone, NEW k \in DOMAIN port'
        PROVE  port'[k].kind # "JoinOK"
    <3>1. \A j \in DOMAIN port : port[j].kind # "JoinOK"
      BY <1>0, <2>2 DEF Joins
    <3>2. CASE q.kind = "join"
      <4>1. q.node = Target.addr /\ q.node \notin reachable
        BY <1>0, <2>2, <3>2 DEF Joins
      <4>2. port' = port
        BY <1>3, <3>2, <4>1 DEF moduleAnswers
      <4>3. QED
        BY <2>2, <3>1, <4>2
    <3>3. CASE q.kind # "join"
      <4>1. port' = port \o left[q.node]
        BY <1>3, <3>3 DEF moduleAnswers
      <4>e. left[q.node] \in Seq(Answers(q.node))
        BY DEF Types, Shared, Owed, Query
      <4>2. q.node \in Nodes /\ left[q.node] \in Seq(Reply)
        BY DEF Types, Shared, Owed, Query
      <4>3. /\ Len(port) \in Nat /\ Len(left[q.node]) \in Nat /\ port' \in Seq(Reply)
            /\ Len(port') = Len(port) + Len(left[q.node])
            /\ \A j \in 1 .. Len(port) + Len(left[q.node]) :
                  port'[j] = IF j <= Len(port) THEN port[j] ELSE left[q.node][j - Len(port)]
        BY <1>0, <4>1, <4>2, ConcatProperties, LenProperties
      <4>4. /\ DOMAIN port = 1 .. Len(port) /\ DOMAIN port' = 1 .. Len(port) + Len(left[q.node])
            /\ DOMAIN left[q.node] = 1 .. Len(left[q.node])
        BY <1>0, <4>2, <4>3, LenProperties
      <4>5. CASE k <= Len(port)
        BY <2>2, <3>1, <4>3, <4>4, <4>5
      <4>6. CASE ~ (k <= Len(port))
        <5>1. k - Len(port) \in DOMAIN left[q.node] /\ port'[k] = left[q.node][k - Len(port)]
          BY <2>2, <4>3, <4>4, <4>6
        <5>2. left[q.node][k - Len(port)] \in Answers(q.node)
          BY <4>4, <4>e, <5>1, ElementOfSeq
        <5>3. QED
          BY <5>1, <5>2 DEF Answers
      <4>7. QED
        BY <4>5, <4>6
    <3>4. QED
      BY <3>2, <3>3
  <2>3. QED
    BY <1>0, <2>1, <2>2 DEF Joins, Target
<1>4. CASE UNCHANGED vars \/ Rescan \/ \E n \in Nodes : Request(n) \/ Die(n) \/ nodeReplies(n)
  BY <1>k, <1>4 DEF vars, broker, serial, Rescan, Request, Die, nodeReplies
<1>5. QED
  BY <1>1, <1>2, <1>3, <1>4 DEF Next, Module

LEMMA GoneStep == ASSUME Types, Types', OneRescan, Gone, [Next]_vars PROVE Gone'
<1>1. joinLate' = TRUE \/ (Joins' /\ Kept')
  <2>1. CASE joinLate' = TRUE
    BY <2>1
  <2>2. CASE joinLate' = FALSE
    <3>1. joinLate = FALSE \/ (up /\ loadLoRaConfigFile)
      BY <2>2, LateStays DEF Gone
    <3>2. (up /\ loadLoRaConfigFile) \/ (Joins /\ Kept)
      BY <3>1 DEF Gone
    <3>3. scan.gone \cap reachable = {}
      BY DEF Gone
    <3>4. QED
      BY <2>2, <3>2, <3>3, JoinsStep, KeptStep
  <2>3. QED
    BY <2>1, <2>2, LateStays DEF Gone
<1>2. (scan.gone \cap reachable = {})'
  <2>0. scan \in Scans
    BY DEF Types, ScanLocals
  <2>1. reachable' \subseteq reachable
    BY ScanLeaves, MainLeaves DEF Next, Module, moduleAnswers, Rescan, Request, Die, nodeReplies, vars
  <2>2. scan'.gone = scan.gone \/ scan'.gone = {} \/ scan'.gone = Nodes \ reachable
    <3>1. CASE ScanAllDevice
      <4>1. ScanEffect
        BY <3>1, ScanEffects
      <4>2. loadLoRaConfigFile => scan'.gone = Nodes \ reachable
        BY DEF loadLoRaConfigFile, Rest
      <4>3. addNode => scan'.gone = scan.gone
        BY <2>0 DEF addNode, Scans
      <4>4. Checking /\ eraseDevice => scan'.gone = scan.gone
        BY EraseFacts
      <4>5. scan' = Rest => scan'.gone = {}
        BY DEF Rest
      <4>6. QED
        BY <4>1, <4>2, <4>3, <4>4, <4>5 DEF ScanEffect
    <3>2. CASE serverLoop
      BY <3>2, MainMoves DEF handleManagerPackage, Rest
    <3>3. CASE UNCHANGED scan
      BY <3>3
    <3>4. QED
      BY <3>1, <3>2, <3>3 DEF Next, Module, moduleAnswers, Rescan, Request, Die, nodeReplies, vars
  <2>3. QED
    BY <2>1, <2>2 DEF Gone
<1>3. QED
  BY <1>1, <1>2, LateStays DEF Gone

LEMMA GoneAlways == Spec => [](Types /\ OneRescan /\ Gone)
<1>1. Init => Types /\ OneRescan /\ Gone
  <2> SUFFICES ASSUME Init PROVE OneRescan /\ Gone
    BY InitTypes
  <2>1. DOMAIN <<>> = {} /\ RescansIn(<<>>) = {}
    BY DEF RescansIn
  <2>2. OneRescan
    BY <2>1 DEF Init, OneRescan, Waiting
  <2>3. Gone
    BY <2>1 DEF Init, Rest, Gone, Joins, Kept, Checks
  <2>4. QED
    BY <2>2, <2>3
<1>2. Types /\ OneRescan /\ Gone /\ [Next]_vars => Types' /\ OneRescan' /\ Gone'
  BY TypesStep, OneRescanStep, GoneStep
<1>3. QED
  BY <1>1, <1>2, PTL DEF Spec

\* Wherever it was in the list, however often, and whatever a command brought to the
\* port meanwhile: a node that was gone when a scan began is not listed when it ends,
\* unless a join was answered after its time was up.
THEOREM DeadNodesErased == Spec => DeadNodesGone
<1>1. ASSUME Types, Gone, [Next]_vars
      PROVE  [scan.pc = "ask" /\ scan'.pc = "idle" /\ ~ joinLate => \A n \in scan.gone : ~ Listed(n)]_vars
  BY <1>1 DEF Gone, Kept, Listed
<1>2. QED
  BY <1>1, GoneAlways, PTL DEF Spec, DeadNodesGone

-----------------------------------------------------------------------------
(* AnswersTrue.                                                            *)

\* A step of the scan, and one of the manager's.
LEMMA AloneKept ==
    ASSUME Alone, UNCHANGED <<making, left, port, asked>>, main' = main,
           main.pc \in {"send", "enquire", "wait"} /\ main.alone => scan' = scan
    PROVE  Alone'
BY DEF Alone, Enquiry, Response, Package

LEMMA ScanAlone == ASSUME Types, Alone, ScanAllDevice PROVE Alone'
<1>1. scan.pc # "idle"
  BY ScanRuns
<1>2. ~ (main.pc \in {"send", "enquire", "wait"} /\ main.alone)
  BY <1>1 DEF Alone
<1>3. CASE main' = main
  BY <1>2, <1>3 DEF Alone
<1>4. CASE main' # main
  <2>1. endScan
    BY <1>4 DEF ScanAllDevice, loadLoRaConfigFile, addNode, joinAnswer, clearEndNodeBuffer, sendSyn,
       enquire, checkAlive, allChecked, askIoTIp, registerDevice, scanUnchanged
  <2>2. main'.pc = "recv"
    BY <1>4, <2>1 DEF endScan, Waiting
  <2>3. QED
    BY <2>2 DEF Alone
<1>5. QED
  BY <1>3, <1>4

LEMMA MainAlone == ASSUME Types, Alone, serverLoop PROVE Alone'
<1>0. main \in Mains /\ Owed
  BY DEF Types, Shared, MainLocals
<1>n. ASSUME main'.pc \notin {"send", "enquire", "wait"} PROVE Alone'
  BY <1>n DEF Alone
<1>b. ASSUME main.pc \in {"handle", "wait"}, main' = nextPackage PROVE Alone'
  <2>1. main.batch # <<>>
    BY <1>b DEF Types, MainLocals
  <2>2. main'.pc \in {"handle", "recv"}
    BY <1>0, <1>b, <2>1, NextPackage
  <2>3. QED
    BY <1>n, <2>2
<1>1. CASE RecviveData
  <2>1. main'.pc \in {"recv", "handle"}
    BY <1>0, <1>1 DEF RecviveData, Mains
  <2>2. QED
    BY <1>n, <2>1
<1>2. CASE handleManagerPackage
  BY <1>2, <1>b DEF handleManagerPackage
<1>3. CASE handleForwardingPackage
  <2>1. /\ main.pc = "handle" /\ scan' = scan
        /\ \/ main' = nextPackage
           \/ main' = [main EXCEPT !.pc = "send", !.index = findDeviceIndex(Package.ip),
                                  !.alone = scan.pc = "idle"]
    BY <1>3 DEF handleForwardingPackage
  <2>2. CASE main' = nextPackage
    BY <1>b, <2>1, <2>2
  <2>3. CASE main' # nextPackage
    <3>1. main'.pc = "send" /\ main'.alone = (scan.pc = "idle")
      BY <1>0, <2>1, <2>3 DEF Mains
    <3>2. main'.alone => scan'.pc = "idle"
      BY <2>1, <3>1
    <3>3. QED
      BY <3>1, <3>2 DEF Alone
  <2>4. QED
    BY <2>2, <2>3
<1>4. CASE sendData
  <2>1. CASE UNCHANGED <<serial, main>>
    BY <1>4, <2>1, AloneKept DEF sendData, serial
  <2>2. CASE ~ UNCHANGED <<serial, main>>
    <3> DEFINE n == LoRaDevices[main.index].addr
               r == [kind |-> "data", node |-> n, req |-> Package.req]
               quiet == making[n] = <<>> /\ left[n] = <<>>
    <3>1. /\ main.pc = "send" /\ main.index <= Len(LoRaDevices) /\ scan' = scan /\ left' = left
          /\ tell(n, r) /\ main' = [main EXCEPT !.pc = "enquire", !.addr = n, !.afresh = quiet]
      BY <1>4, <2>2 DEF sendData
    <3>2. n \in Nodes
      <4>1. main.index \in 1 .. Len(LoRaDevices)
        BY <3>1, LenProperties DEF Types, Shared, MainLocals, Mains
      <4>2. LoRaDevices[main.index] \in Device
        BY <4>1, ElementOfSeq DEF Types, Shared
      <4>3. QED
        BY <4>2 DEF Device
    <3>r. r = [kind |-> "data", node |-> n, req |-> Package.req]
      OBVIOUS
    <3>q. quiet => making[n] = <<>> /\ left[n] = <<>>
      OBVIOUS
    <3> HIDE DEF n, r, quiet
    <3>3. /\ main'.pc = "enquire" /\ main'.addr = n /\ main'.batch = main.batch
          /\ main'.alone = main.alone /\ main'.afresh = quiet
      BY <1>0, <3>1 DEF Mains
    <3>4. Response' = r
      BY <3>3, <3>r DEF Response, Package
    <3>5. ASSUME quiet PROVE making'[n] \in Seq({r}) /\ left'[n] \in Seq({r})
      <4>1. making[n] = <<>> /\ left[n] = <<>> /\ <<>> \in Seq({r})
        BY <3>5, <3>q, EmptySeq
      <4>2. making \in [Nodes -> Seq(Reply)] /\ making[n] \in Seq({r}) /\ r \in {r}
        BY <1>0, <4>1 DEF Owed
      <4>3. making'[n] \in Seq({r})
        BY <3>1, <3>2, <4>2, Told
      <4>4. QED
        BY <3>1, <4>1, <4>3
    <3>6. main.alone => scan.pc = "idle"
      BY <3>1 DEF Alone
    <3>7. QED
      BY <3>1, <3>3, <3>4, <3>5, <3>6 DEF Alone
  <2>3. QED
    BY <2>1, <2>2
<1>5. CASE recvData
  <2>1. /\ main.pc = "enquire" /\ scan' = scan /\ UNCHANGED <<making, left>> /\ port' = <<>>
        /\ asked' = asked \cup {[by |-> "main", kind |-> "enquiry", node |-> main.addr]}
        /\ main' = [main EXCEPT !.pc = "wait", !.alone = @ /\ asked = {}]
    BY <1>5 DEF recvData, ask, clearComportBuffer
  <2>2. /\ main'.pc = "wait" /\ main'.addr = main.addr /\ main'.batch = main.batch
        /\ main'.afresh = main.afresh /\ main'.alone = (main.alone /\ asked = {})
    BY <1>0, <2>1 DEF Mains
  <2>3. main'.alone => main.alone /\ asked = {}
    BY <2>2
  <2>4. Response' = Response /\ Enquiry' = Enquiry
    BY <2>2 DEF Response, Enquiry, Package
  <2>5. asked = {} => asked' \subseteq {Enquiry}
    BY <2>1 DEF Enquiry
  <2>6. port' \in Seq(Answers(main.addr)) /\ port' \in Seq({Response})
    BY <2>1, EmptySeq
  <2>7. main.alone => scan.pc = "idle"
    BY <2>1 DEF Alone
  <2>8. main.alone /\ main.afresh =>
          making[main.addr] \in Seq({Response}) /\ left[main.addr] \in Seq({Response})
    BY <2>1 DEF Alone
  <2>9. QED
    BY <2>1, <2>2, <2>3, <2>4, <2>5, <2>6, <2>7, <2>8 DEF Alone
<1>6. CASE getResponse
  BY <1>6, <1>b DEF getResponse
<1>7. QED
  BY <1>1, <1>2, <1>3, <1>4, <1>5, <1>6 DEF serverLoop

LEMMA ModuleAlone == ASSUME Types, Alone, NEW q \in asked, moduleAnswers(q) PROVE Alone'
<1>0. /\ UNCHANGED <<scan, main, making>> /\ asked' = asked \ {q}
      /\ Owed /\ q \in Query /\ left \in [Nodes -> Seq(Reply)]
      /\ main.pc \in {"enquire", "wait"} => main.addr \in Nodes
  BY DEF moduleAnswers, Types, Shared, Owed, MainLocals
<1>1. Response' = Response /\ Enquiry' = Enquiry
  BY <1>0 DEF Response, Enquiry, Package
<1>2. left' = left \/ left' = [left EXCEPT ![q.node] = <<>>]
  BY DEF moduleAnswers
<1>3. ASSUME NEW S, NEW n \in Nodes, left[n] \in Seq(S) PROVE left'[n] \in Seq(S)
  <2>1. <<>> \in Seq(S)
    BY EmptySeq
  <2>2. left'[n] = left[n] \/ left'[n] = <<>>
    BY <1>0, <1>2
  <2>3. QED
    BY <1>3, <2>1, <2>2
<1>4. ASSUME NEW S, main.pc = "wait", main.alone, port \in Seq(S), left[main.addr] \in Seq(S)
      PROVE  port' \in Seq(S)
  <2>1. q = Enquiry
    BY <1>4 DEF Alone
  <2>2. port' = port \o left[main.addr]
    BY <2>1 DEF moduleAnswers, Enquiry
  <2>3. QED
    BY <1>4, <2>2, ConcatProperties
<1>5. ASSUME main.pc \in {"enquire", "wait"}, main.alone, main.afresh
      PROVE  making'[main.addr] \in Seq({Response}) /\ left'[main.addr] \in Seq({Response})
  BY <1>0, <1>3, <1>5 DEF Alone
<1>6. ASSUME main.pc = "wait", main.alone
      PROVE  /\ asked' \subseteq {Enquiry} /\ port' \in Seq(Answers(main.addr))
             /\ main.afresh => port' \in Seq({Response})
  <2>1. /\ asked \subseteq {Enquiry} /\ port \in Seq(Answers(main.addr))
        /\ main.afresh => port \in Seq({Response}) /\ left[main.addr] \in Seq({Response})
    BY <1>6 DEF Alone
  <2>2. left[main.addr] \in Seq(Answers(main.addr))
    BY <1>0, <1>6 DEF Owed
  <2>3. port' \in Seq(Answers(main.addr))
    BY <1>4, <1>6, <2>1, <2>2
  <2>4. main.afresh => port' \in Seq({Response})
    BY <1>4, <1>6, <2>1
  <2>5. QED
    BY <1>0, <2>1, <2>3, <2>4
<1>7. main.pc \in {"send", "enquire", "wait"} /\ main.alone => scan'.pc = "idle"
  BY <1>0 DEF Alone
<1>8. QED
  BY <1>0, <1>1, <1>5, <1>6, <1>7 DEF Alone

LEMMA NodesAlone == ASSUME Types, Alone, NEW n \in Nodes, nodeReplies(n) \/ Die(n) PROVE Alone'
<1>0. /\ UNCHANGED <<scan, main, port, asked>> /\ Owed
      /\ main.pc \in {"enquire", "wait"} => main.addr \in Nodes
  BY DEF nodeReplies, Die, Types, Shared, MainLocals
<1>1. Response' = Response /\ Enquiry' = Enquiry
  BY <1>0 DEF Response, Enquiry, Package
<1>2. ASSUME NEW S, NEW m \in Nodes, making[m] \in Seq(S), left[m] \in Seq(S)
      PROVE  making'[m] \in Seq(S) /\ left'[m] \in Seq(S)
  <2>1. CASE nodeReplies(n)
    BY <1>0, <1>2, <2>1, Replied
  <2>2. CASE Die(n)
    <3>1. left' = left /\ making' = [making EXCEPT ![n] = <<>>] /\ making \in [Nodes -> Seq(Reply)]
      BY <1>0, <2>2 DEF Die, Owed
    <3>2. <<>> \in Seq(S)
      BY EmptySeq
    <3>3. making'[m] = making[m] \/ making'[m] = <<>>
      BY <3>1
    <3>4. QED
      BY <1>2, <3>1, <3>2, <3>3
  <2>3. QED
    BY <2>1, <2>2
<1>3. ASSUME main.pc \in {"enquire", "wait"}, main.alone, main.afresh
      PROVE  making'[main.addr] \in Seq({Response}) /\ left'[main.addr] \in Seq({Response})
  BY <1>0, <1>2, <1>3 DEF Alone
<1>4. /\ main.pc \in {"send", "enquire", "wait"} /\ main.alone => scan.pc = "idle"
      /\ main.pc = "wait" /\ main.alone =>
           /\ asked \subseteq {Enquiry} /\ port \in Seq(Answers(main.addr))
           /\ main.afresh => port \in Seq({Response})
  BY DEF Alone
<1>5. QED
  BY <1>0, <1>1, <1>3, <1>4 DEF Alone

LEMMA ApartStep == ASSUME Types, Apart, [Next]_vars PROVE Apart'
<1>1. CASE UNCHANGED vars
  BY <1>1, AloneKept DEF vars, serial, Apart, AnswersTrue
<1>2. CASE ScanAllDevice
  BY <1>2, ScanAlone, ScanLeaves DEF Apart, AnswersTrue
<1>3. CASE serverLoop
  <2>1. Alone'
    BY <1>3, MainAlone DEF Apart
  <2>2. AnswersTrue'
    <3>1. CASE ~ getResponse
      BY <1>3, <3>1 DEF serverLoop, RecviveData, handleManagerPackage, handleForwardingPackage, sendData,
         recvData, Silent, AnswersTrue
    <3>2. CASE getResponse
      <4>1. /\ main.pc = "wait"
            /\ \/ answer' = <<>>
               \/ /\ port # <<>> /\ Head(port).kind = "data"
                  /\ answer' = <<[req |-> Package.req, node |-> main.addr,
                                  from |-> Head(port).node, to |-> Head(port).req,
                                  alone |-> main.alone, afresh |-> main.afresh]>>
        BY <3>2 DEF getResponse, hasStartAndEnd
      <4>2. ASSUME main.alone, port # <<>>, Head(port).kind = "data"
            PROVE  /\ Head(port).node = main.addr
                   /\ main.afresh => Head(port).req = Package.req
        <5>1. /\ port \in Seq(Answers(main.addr))
              /\ main.afresh => port \in Seq({Response})
          BY <4>1, <4>2 DEF Apart, Alone
        <5>2. Head(port) \in Answers(main.addr) /\ (main.afresh => Head(port) \in {Response})
          BY <4>2, <5>1, HeadTailProperties
        <5>3. QED
          BY <4>2, <5>2 DEF Answers, Response
      <4>3. QED
        BY <4>1, <4>2 DEF AnswersTrue
    <3>3. QED
      BY <3>1, <3>2
  <2>3. QED
    BY <2>1, <2>2 DEF Apart
<1>4. ASSUME NEW q \in asked, moduleAnswers(q) PROVE Apart'
  BY <1>4, ModuleAlone DEF moduleAnswers, Apart, AnswersTrue
<1>5. ASSUME NEW n \in Nodes, nodeReplies(n) \/ Die(n) PROVE Apart'
  BY <1>5, NodesAlone DEF nodeReplies, Die, Apart, AnswersTrue
<1>6. CASE Rescan \/ \E n \in Nodes : Request(n)
  BY <1>6, AloneKept DEF Rescan, Request, serial, Apart, AnswersTrue
<1>7. QED
  BY <1>1, <1>2, <1>3, <1>4, <1>5, <1>6 DEF Next, Module

\* However slow the nodes and the module are: a response goes under the command it is
\* the response to, unless a scan ran, or the node or the module still owed an earlier
\* answer; and it is never another node's because the node is slow.
THEOREM ResponsesMatch == Spec => []AnswersTrue
<1>1. Init => Types /\ Apart
  <2>1. Init => Apart
    BY DEF Init, Waiting, Apart, Alone, AnswersTrue
  <2>2. QED
    BY <2>1, InitTypes
<1>2. Types /\ Apart /\ [Next]_vars => Types' /\ Apart'
  BY TypesStep, ApartStep
<1>3. Apart => AnswersTrue
  BY DEF Apart
<1>4. QED
  BY <1>1, <1>2, <1>3, PTL DEF Spec

=============================================================================
