----------------------------- MODULE IoTManager -----------------------------
(***************************************************************************)
(* The manager: device table, IoT ips, package dispatch and rules          *)
(* (IoT/IoTManager.cpp, IoT/Ruler.cpp), as two threads without a lock:     *)
(*                                                                         *)
(*   the server thread runs every handler (select loop of TcpServer.cpp):  *)
(*   a new connection, a cut one, or one complete package;                 *)
(*   the ruler thread wakes up every actionFrequency ms and scans the      *)
(*   rules, sending the read request of each rule that is due.             *)
(*                                                                         *)
(* A handler of the server thread is one action up to its first change of  *)
(* a vector the ruler thread reads; from there each push_back, and each    *)
(* index of a loop that erases, is an action of its own, so that the ruler *)
(* can run in between.  The ruler thread interleaves at its calls of       *)
(* rules.at(i) and between looking a device up and using the index it got. *)
(* Vectors are sequences, index 0 of the code is 1 here and its -1 ("not   *)
(* found") is 0.                                                           *)
(*                                                                         *)
(* The bytes of packages are in PackageStream, sockets are in TcpServer.   *)
(***************************************************************************)
EXTENDS Integers, SequencesExt

CONSTANTS
    MaxClient,  \* slots of clientSockets
    Brokers,    \* peers that connect
    Devices,    \* device ids
    Host,       \* [Devices -> Brokers]: the broker a device sits behind
    IoTRules,   \* the rules clients may install
    Tick,       \* actionFrequency, the ruler's period
    MaxIps,     \* bound: IoT ips handed out
    MaxRules,   \* bound: rules ever installed
    None        \* free slot, no message, no pending entry

NoIp == -1      \* the empty string as ReadFrom or WriteTo
Slots == 0 .. MaxClient - 1
Ips == 0 .. MaxIps - 1
DeviceInfo == [ip : Ips, dev : Devices, slot : Slots]

ASSUME ConstantsAssumption ==
    /\ MaxClient \in Nat \ {0}
    /\ MaxIps \in Nat
    /\ MaxRules \in Nat
    /\ Tick \in Nat \ {0}
    /\ Host \in [Devices -> Brokers]
    /\ None \notin Brokers \cup DeviceInfo
    /\ \A r \in IoTRules : /\ r.readFrom \in Int
                           /\ r.writeTo \in Int
                           /\ r.freq \in Int

VARIABLES
    conn,       \* clientSockets: who is connected at each slot
    devices,    \* registed_devices
    ip_count,   \* next IoT ip
    granted,    \* which device asked for which ip (known to the brokers)
    rules,      \* Ruler::rules
    nextRuleId,
    pc,         \* server thread: "select", "drop", "add" or "reload"
    cutSlot,    \* slot being cleaned up while pc = "drop"
    newDevice,  \* entry about to be pushed while pc = "add"
    pass,       \* index and size of the loop over a vector while pc is "drop"
                \* (over the devices) or "reload" (over the rules)
    scan,       \* ruler thread: program counter and locals of scanRules
    sent,       \* message sent by the last step, None if it sent nothing
    alive       \* FALSE once an uncaught exception ended the process

tables == <<conn, devices, ip_count, granted>>
ruleVars == <<rules, nextRuleId>>
server == <<pc, cutSlot, newDevice, pass>>
vars == <<tables, ruleVars, server, scan, sent, alive>>

Grant == [ip : Ips, dev : Devices]
RuleInstance == [id : Nat, rule : IoTRules, wait : Int, waiting : BOOLEAN]
Message == [kind : {"ip", "list", "forward", "read", "write"},
            to : Brokers, ip : Int]
ScanState == [pc : {"sleep", "test", "read", "send"}, i : Nat, count : Nat,
              target : Nat, ip : Int]

Asleep == [pc |-> "sleep", i |-> 0, count |-> 0, target |-> 0, ip |-> NoIp]

NoPass == [i |-> 0, count |-> 0]

Init ==
    /\ conn = [s \in Slots |-> None]
    /\ devices = <<>>
    /\ ip_count = 0
    /\ granted = {}
    /\ rules = <<>>
    /\ nextRuleId = 0
    /\ pc = "select"
    /\ cutSlot = None
    /\ newDevice = None
    /\ pass = NoPass
    /\ scan = Asleep
    /\ sent = None
    /\ alive = TRUE

-----------------------------------------------------------------------------
(* Lookups and sending.                                                    *)

findDeviceIndexByDeviceId(d) == SelectInSeq(devices, LAMBDA e : e.dev = d)

findDeviceIndexByIoTIp(ip) == SelectInSeq(devices, LAMBDA e : e.ip = ip)

findDeviceIndexBySlot(s) == SelectInSeq(devices, LAMBDA e : e.slot = s)

isRegistered(ip) == ip # NoIp /\ findDeviceIndexByIoTIp(ip) > 0

\* SendDataToExistsConnection: nothing happens when the slot is free.
Send(slot, kind, ip) ==
    sent' = IF conn[slot] = None THEN None
            ELSE [kind |-> kind, to |-> conn[slot], ip |-> ip]

\* Mutant: the device index taken for the socket index.
SendToWrongSlot(ip, kind) ==
    LET i == findDeviceIndexByIoTIp(ip)
    IN  IF i \in 1 .. MaxClient THEN Send(i - 1, kind, ip) ELSE sent' = None

\* Look an ip up and send to the slot of the entry found.
SendTo(ip, kind) ==
    LET i == findDeviceIndexByIoTIp(ip)
    IN  IF i > 0 THEN Send(devices[i].slot, kind, ip) ELSE sent' = None

Quiet == sent' = None

\* The server thread takes its next event only when it is back in its loop.
Idle == alive /\ pc = "select"

\* for (int i = 0; i < size; i++) over a vector, its size read before.
BeginPass(vector) == pass' = [i |-> 1, count |-> Len(vector)]
Looping == pass.i <= pass.count
NextIndex == pass' = [pass EXCEPT !.i = @ + 1]

\* Mutant: i-- is missing.
SkipsOne == pass' = [i |-> pass.i + 1, count |-> pass.count - 1]

\* size-- and i-- behind an erase: the loop's i++ then meets the entry that moved up.
SameIndexAgain == pass' = [pass EXCEPT !.count = @ - 1]

EndPass == pass' = NoPass

-----------------------------------------------------------------------------
(* Server thread: connections.                                             *)

\* An accepted peer gets the lowest free slot.
NewConnection(b) ==
    /\ Idle
    /\ \E s \in Slots :
         /\ conn[s] = None
         /\ \A t \in Slots : t < s => conn[t] # None
         /\ conn' = [conn EXCEPT ![s] = b]
    /\ Quiet
    /\ UNCHANGED <<devices, ip_count, granted, ruleVars, server, scan, alive>>

\* Mutant: Event_ConnectionDenied is not raised.
CutConnectionSilently(s) ==
    /\ Idle
    /\ conn[s] # None
    /\ conn' = [conn EXCEPT ![s] = None]
    /\ Quiet
    /\ UNCHANGED <<devices, ip_count, granted, ruleVars, server, scan, alive>>

\* recv returned 0 or an error: free the slot, then clean up behind it if any
\* device was registered there.
CutConnection(s) ==
    /\ Idle
    /\ conn[s] # None
    /\ conn' = [conn EXCEPT ![s] = None]
    /\ IF findDeviceIndexBySlot(s) > 0
         THEN pc' = "drop" /\ cutSlot' = s /\ BeginPass(devices)
         ELSE UNCHANGED <<pc, cutSlot, pass>>
    /\ Quiet
    /\ UNCHANGED <<devices, ip_count, granted, ruleVars, newDevice, scan, alive>>

\* Mutant: erase(begin()) where erase(begin() + i) is meant.
removeHeadDevice ==
    /\ alive /\ pc = "drop"
    /\ \/ /\ Looping
          /\ IF devices[pass.i].slot = cutSlot
               THEN devices' = Tail(devices) /\ SameIndexAgain
               ELSE NextIndex /\ UNCHANGED devices
          /\ UNCHANGED <<pc, cutSlot>>
       \/ /\ ~ Looping
          /\ BeginPass(rules)
          /\ pc' = "reload"
          /\ cutSlot' = None
          /\ UNCHANGED devices
    /\ Quiet
    /\ UNCHANGED <<conn, ip_count, granted, ruleVars, newDevice, scan, alive>>

\* One index of the loop of removeDeviceBySocketIndex, which erases the entries
\* of the slot; behind the last one the rules are reloaded.
removeDeviceBySocketIndex ==
    /\ alive /\ pc = "drop"
    /\ \/ /\ Looping
          /\ IF devices[pass.i].slot = cutSlot
               THEN devices' = RemoveAt(devices, pass.i) /\ SameIndexAgain
               ELSE NextIndex /\ UNCHANGED devices
          /\ UNCHANGED <<pc, cutSlot>>
       \/ /\ ~ Looping
          /\ BeginPass(rules)
          /\ pc' = "reload"
          /\ cutSlot' = None
          /\ UNCHANGED devices
    /\ Quiet
    /\ UNCHANGED <<conn, ip_count, granted, ruleVars, newDevice, scan, alive>>

-----------------------------------------------------------------------------
(* Server thread: packages.  Slot s is the connection a package came from. *)

\* Mutant: ip_count is not incremented.
sameIoTIP == ip_count < MaxIps /\ UNCHANGED ip_count

\* The ip handed out is the value of ip_count before.
getNewIoTIP == ip_count < MaxIps /\ ip_count' = ip_count + 1

\* Source and destination "0": answer with a fresh ip, which the broker will
\* use for its device d.
HandleIpRequest(s, d) ==
    /\ Idle
    /\ conn[s] = Host[d]
    /\ getNewIoTIP
    /\ granted' = granted \cup {[ip |-> ip_count, dev |-> d]}
    /\ Send(s, "ip", ip_count)
    /\ UNCHANGED <<conn, devices, ruleVars, server, scan, alive>>

\* IOTDEV: a device registers under an ip its broker got for it.  An entry of
\* the same device id is erased here, the new one is pushed by pushDevice.
addNewDevice(s, g) ==
    /\ Idle
    /\ conn[s] = Host[g.dev]
    /\ LET i == findDeviceIndexByDeviceId(g.dev)
       IN  devices' = IF i > 0 THEN RemoveAt(devices, i) ELSE devices
    /\ newDevice' = [ip |-> g.ip, dev |-> g.dev, slot |-> s]
    /\ pc' = "add"
    /\ Quiet
    /\ UNCHANGED <<conn, ip_count, granted, ruleVars, cutSlot, pass, scan, alive>>

pushDevice ==
    /\ alive /\ pc = "add"
    /\ devices' = Append(devices, newDevice)
    /\ newDevice' = None
    /\ BeginPass(rules)
    /\ pc' = "reload"
    /\ Quiet
    /\ UNCHANGED <<conn, ip_count, granted, ruleVars, cutSlot, scan, alive>>

\* Dis_All and Dis_NPx: the whole table goes back to the asker.
HandleDiscover(s) ==
    /\ Idle
    /\ conn[s] # None
    /\ Send(s, "list", NoIp)
    /\ UNCHANGED <<tables, ruleVars, server, scan, alive>>

\* A package for another ip is passed on, or dropped if the ip is unknown.
HandleForward(s, ip) ==
    /\ Idle
    /\ conn[s] # None
    /\ SendTo(ip, "forward")
    /\ UNCHANGED <<tables, ruleVars, server, scan, alive>>

-----------------------------------------------------------------------------
(* Server thread: rules.                                                   *)

\* IOTRUL: the rule is not looked at, whatever ips it names.
addRule(s, r) ==
    /\ Idle
    /\ conn[s] # None
    /\ nextRuleId < MaxRules
    /\ rules' = Append(rules, [id |-> nextRuleId, rule |-> r,
                               wait |-> 0, waiting |-> FALSE])
    /\ nextRuleId' = nextRuleId + 1
    /\ Quiet
    /\ UNCHANGED <<tables, server, scan, alive>>

\* The value read goes to the rule's WriteTo.
excuteWriteRule(r) == IF r.writeTo = NoIp THEN Quiet ELSE SendTo(r.writeTo, "write")

\* Any other command with id x answers the first rule waiting for x.
handleRulerCommand(s, x) ==
    /\ Idle
    /\ conn[s] # None
    /\ LET i == SelectInSeq(rules, LAMBDA r : r.waiting /\ r.rule.readId = x)
       IN  IF i = 0
             THEN UNCHANGED rules /\ Quiet
             ELSE /\ rules' = [rules EXCEPT ![i].waiting = FALSE]
                  /\ excuteWriteRule(rules[i].rule)
    /\ UNCHANGED <<tables, nextRuleId, server, scan, alive>>

\* Mutant: erase(begin()).
removeHeadRule(id) == rules' = Tail(rules)

removeRule(id) ==
    rules' = RemoveAt(rules, SelectInSeq(rules, LAMBDA r : r.id = id))

\* ReadFrom and WriteTo of a rule are the ips of entries of the table.
HasBothEnds(r) == isRegistered(r.rule.readFrom) /\ isRegistered(r.rule.writeTo)

\* One index of the loop of noticeReloadDeviceList: the rule at it stays, or is
\* removed by its id.
noticeReloadDeviceList ==
    /\ alive /\ pc = "reload"
    /\ \/ /\ Looping
          /\ IF HasBothEnds(rules[pass.i])
               THEN NextIndex /\ UNCHANGED rules
               ELSE removeRule(rules[pass.i].id) /\ SameIndexAgain
          /\ UNCHANGED pc
       \/ /\ ~ Looping
          /\ EndPass
          /\ pc' = "select"
          /\ UNCHANGED rules
    /\ Quiet
    /\ UNCHANGED <<tables, nextRuleId, cutSlot, newDevice, scan, alive>>

-----------------------------------------------------------------------------
(* Ruler thread: scanRules and excuteReadRule.                             *)

\* On to the next index below the count read when the scan began, or to sleep.
Advance ==
    scan' = IF scan.i < scan.count
              THEN [Asleep EXCEPT !.pc = "test", !.i = scan.i + 1,
                                  !.count = scan.count]
              ELSE Asleep

\* rules.at(i) or registed_devices->at(i) threw out_of_range.
Throw == alive' = FALSE /\ Quiet /\ UNCHANGED <<rules, scan>>

beginScan ==
    /\ alive /\ scan.pc = "sleep"
    /\ rules # <<>>
    /\ scan' = [Asleep EXCEPT !.pc = "test", !.i = 1, !.count = Len(rules)]
    /\ Quiet
    /\ UNCHANGED <<tables, ruleVars, server, alive>>

\* Mutant: a rule that is not due does not count down.
testRuleNoCountdown ==
    /\ alive /\ scan.pc = "test"
    /\ \/ scan.i > Len(rules) /\ Throw
       \/ /\ scan.i <= Len(rules)
          /\ IF rules[scan.i].wait <= 0
               THEN /\ rules' = [rules EXCEPT ![scan.i].wait = rules[scan.i].rule.freq]
                    /\ scan' = [scan EXCEPT !.pc = "read"]
               ELSE UNCHANGED rules /\ Advance
          /\ Quiet /\ UNCHANGED alive
    /\ UNCHANGED <<tables, nextRuleId, server>>

\* A rule that is due is re-armed and read, any other one counts down.
testRule ==
    /\ alive /\ scan.pc = "test"
    /\ \/ scan.i > Len(rules) /\ Throw
       \/ /\ scan.i <= Len(rules)
          /\ IF rules[scan.i].wait <= 0
               THEN /\ rules' = [rules EXCEPT ![scan.i].wait = rules[scan.i].rule.freq]
                    /\ scan' = [scan EXCEPT !.pc = "read"]
               ELSE /\ rules' = [rules EXCEPT ![scan.i].wait = @ - Tick]
                    /\ Advance
          /\ Quiet /\ UNCHANGED alive
    /\ UNCHANGED <<tables, nextRuleId, server>>

\* The rule is marked as waiting and its ReadFrom is looked up.
excuteReadRule ==
    /\ alive /\ scan.pc = "read"
    /\ \/ scan.i > Len(rules) /\ Throw
       \/ /\ scan.i <= Len(rules)
          /\ LET r == rules[scan.i].rule
                 target == findDeviceIndexByIoTIp(r.readFrom)
             IN  /\ IF r.readFrom # NoIp /\ r.writeTo # NoIp
                      THEN rules' = [rules EXCEPT ![scan.i].waiting = TRUE]
                      ELSE UNCHANGED rules
                 /\ IF r.readFrom # NoIp /\ target > 0
                      THEN scan' = [scan EXCEPT !.pc = "send", !.ip = r.readFrom,
                                                !.target = target]
                      ELSE Advance
          /\ Quiet /\ UNCHANGED alive
    /\ UNCHANGED <<tables, nextRuleId, server>>

\* The request goes to whatever entry is at the index found before.
sendReadRequest ==
    /\ alive /\ scan.pc = "send"
    /\ \/ scan.target > Len(devices) /\ Throw
       \/ /\ scan.target <= Len(devices)
          /\ Send(devices[scan.target].slot, "read", scan.ip)
          /\ Advance
          /\ UNCHANGED <<rules, alive>>
    /\ UNCHANGED <<tables, nextRuleId, server>>

-----------------------------------------------------------------------------
ServerStep == removeDeviceBySocketIndex \/ pushDevice \/ noticeReloadDeviceList
RulerStep == beginScan \/ testRule \/ excuteReadRule \/ sendReadRequest

\* One complete package from the connection in slot s, by its ips and root name.
handleRulePackage(s) ==
    \/ \E r \in IoTRules : addRule(s, r)
    \/ \E x \in {r.readId : r \in IoTRules} : handleRulerCommand(s, x)

handleManagerPackage(s) ==
    \/ \E g \in granted : addNewDevice(s, g)
    \/ HandleDiscover(s)
    \/ handleRulePackage(s)

handlePackage(s) ==
    \/ \E d \in Devices : HandleIpRequest(s, d)
    \/ handleManagerPackage(s)
    \/ \E ip \in Ips : HandleForward(s, ip)

Next ==
    \/ \E b \in Brokers : NewConnection(b)
    \/ \E s \in Slots : CutConnection(s) \/ handlePackage(s)
    \/ ServerStep
    \/ RulerStep

\* Both threads are preemptively scheduled and take no lock.  Peers are not
\* obliged to do anything.
Fairness == WF_vars(ServerStep) /\ WF_vars(RulerStep)

Spec == Init /\ [][Next]_vars /\ Fairness

-----------------------------------------------------------------------------
(* Safety.                                                                 *)

\* Every variable holds values of the kind its C++ member can hold; an entry
\* is pending only while addNewDevice is between its erase and its push_back; the
\* size a loop of the server thread goes by is that of the vector it erases from,
\* so that its at(i) never throws.
TypeOK ==
    /\ conn \in [Slots -> Brokers \cup {None}]
    /\ devices \in Seq(DeviceInfo)
    /\ ip_count \in 0 .. MaxIps
    /\ granted \subseteq Grant
    /\ rules \in Seq(RuleInstance)
    /\ nextRuleId \in 0 .. MaxRules
    /\ pc \in {"select", "drop", "add", "reload"}
    /\ pc = "drop" => cutSlot \in Slots
    /\ pc = "add" => newDevice \in DeviceInfo
    /\ pass \in [i : Nat, count : Int]
    /\ pc = "drop" => pass.i > 0 /\ pass.count = Len(devices)
    /\ pc = "reload" => pass.i > 0 /\ pass.count = Len(rules)
    /\ scan \in ScanState
    /\ scan.pc # "sleep" => scan.i > 0
    /\ scan.pc = "send" => scan.target > 0
    /\ sent \in Message \cup {None}
    /\ alive \in BOOLEAN

\* However often devices register again, over whatever connections, a device id
\* and an IoT ip each lead to at most one entry: forwarding by ip, which takes
\* the first match, has no other candidate (findDeviceIndexByIoTIp).
UniqueEntries ==
    \A i, j \in DOMAIN devices :
        \/ devices[i].dev = devices[j].dev
        \/ devices[i].ip = devices[j].ip
        => i = j

\* The socket index stored in an entry is the connection of the broker that
\* hosts the device, or the one being cleaned up: a slot is never handed to a
\* new peer while an entry of the old one still points at it.
LiveEntries ==
    \A i \in DOMAIN devices :
        LET e == devices[i]
        IN  \/ conn[e.slot] = Host[e.dev]
            \/ pc = "drop" /\ cutSlot = e.slot /\ conn[e.slot] = None

\* Rules stay in the order of their ids and no id is used twice, so that
\* removeRule(id), which erases the first match, erases the rule it was asked
\* to while the ruler thread scans.
RuleIdsOrdered ==
    /\ \A i, j \in DOMAIN rules : i < j => rules[i].id < rules[j].id
    /\ \A i \in DOMAIN rules : rules[i].id < nextRuleId

\* What the server thread forwards to an ip, and the value of a rule it writes
\* to one, goes to the broker of the device registered under that ip.
ServerDelivers ==
    sent # None /\ sent.kind \in {"forward", "write"} =>
        \E i \in DOMAIN devices : /\ devices[i].ip = sent.ip
                                  /\ Host[devices[i].dev] = sent.to

\* A registration goes away only behind its own connection, once that is cut,
\* or because the same device registers again.
Forgotten(e) == \A i \in DOMAIN devices' : devices'[i] # e
OwnEntriesOnly ==
    [][\A i \in DOMAIN devices :
          Forgotten(devices[i]) =>
             \/ pc = "drop" /\ devices[i].slot = cutSlot
             \/ pc = "select" /\ pc' = "add" /\ newDevice'.dev = devices[i].dev]_vars

\* When a change of the device table has been handled, every rule left reads
\* from a registered device and writes to a registered device: the loop by index
\* over a list that it shortens, while the ruler thread goes over it as well, has
\* passed no rule by.
ReloadCleans ==
    [][pc = "reload" /\ pc' = "select" =>
          \A i \in DOMAIN rules : HasBothEnds(rules[i])]_vars

\* Rule i of the current state is gone in the next one.
Removed(i) == \A j \in DOMAIN rules' : rules'[j].id # rules[i].id

\* No rule whose two devices are registered is ever removed, whatever the ruler
\* thread is doing meanwhile.
RulesSurvive ==
    [][\A i \in DOMAIN rules : Removed(i) => ~ HasBothEnds(rules[i])]_vars

\* The read request of a rule goes to the broker of the device that owns the ip
\* it is addressed to.  Not so when the table shifts between lookup and use.
ReadReachesAddressee ==
    sent # None /\ sent.kind = "read" =>
        \E g \in granted : g.ip = sent.ip /\ Host[g.dev] = sent.to

-----------------------------------------------------------------------------
(* The inductive invariant.                                                *)

\* No ip was handed out twice, and none that is still to come.
GrantsFresh ==
    /\ \A g \in granted : g.ip < ip_count
    /\ \A g, h \in granted : g.ip = h.ip => g = h

\* Devices register under ips they were given; the id being added is not in the
\* table, and its connection is up.
EntriesGranted ==
    /\ \A i \in DOMAIN devices :
          [ip |-> devices[i].ip, dev |-> devices[i].dev] \in granted
    /\ pc = "add" =>
          /\ [ip |-> newDevice.ip, dev |-> newDevice.dev] \in granted
          /\ conn[newDevice.slot] = Host[newDevice.dev]
          /\ \A i \in DOMAIN devices : devices[i].dev # newDevice.dev

UniqueIds ==
    \A i, j \in DOMAIN devices : devices[i].dev = devices[j].dev => i = j

CutIsFree == pc = "drop" => conn[cutSlot] = None

\* Behind the index of the loop over the devices there is none of the slot left.
DropPass ==
    pc = "drop" => \A j \in 1 .. pass.i - 1 : devices[j].slot # cutSlot

\* Behind the index of the loop over the rules there are only rules to keep.
ReloadPass ==
    pc = "reload" => /\ pass.i <= Len(rules) + 1
                     /\ \A j \in 1 .. pass.i - 1 : HasBothEnds(rules[j])

Inv ==
    /\ TypeOK
    /\ GrantsFresh
    /\ EntriesGranted
    /\ UniqueIds
    /\ CutIsFree
    /\ LiveEntries
    /\ DropPass

RulesInv == TypeOK /\ RuleIdsOrdered /\ ReloadPass

-----------------------------------------------------------------------------
(* Liveness.                                                               *)

\* However the table and the rules are changed meanwhile, the server thread
\* gets back to its loop from every handler, unless the process dies.
ServerReturns == pc # "select" ~> pc = "select" \/ ~ alive

Installed(id) == \E i \in DOMAIN rules : rules[i].id = id
Executing(id) == /\ scan.pc = "read"
                 /\ scan.i \in DOMAIN rules
                 /\ rules[scan.i].id = id

\* A rule is executed over and over until it is removed, although the ruler
\* thread scans by index while the server thread erases.
RulesExecuted ==
    \A id \in 0 .. MaxRules - 1 :
        []<>(Executing(id) \/ ~ Installed(id) \/ ~ alive)

-----------------------------------------------------------------------------
(* The device table implements Registry.  An entry that was erased to be     *)
(* replaced counts as already replaced.                                     *)

registration ==
    [d \in Devices |->
        IF pc = "add" /\ newDevice.dev = d THEN newDevice
        ELSE LET i == findDeviceIndexByDeviceId(d)
             IN  IF i = 0 THEN None ELSE devices[i]]

R == INSTANCE Registry WITH link <- conn, reg <- registration, up <- alive

\* Every step of the two threads is one step of Registry or leaves it alone, and
\* registrations behind a cut connection are eventually forgotten.
RegistrySpec == R!Spec

\* The first half of it: no step the registry does not allow.
RegistrySafety == R!Init /\ [][R!Next]_(R!vars)
=============================================================================
