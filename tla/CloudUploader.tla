--------------------------- MODULE CloudUploader ---------------------------
(***************************************************************************)
(* CloudUploader (Broker/CloudUploader.cpp) with the two parties it needs: *)
(* a device broker as FakeBroker.cpp, and the manager with its rules.      *)
(*                                                                         *)
(* At start the uploader registers itself, asks the manager for its device *)
(* table, waits for the answer in waitIoTPackage, and sends one            *)
(* subscription rule for each wanted component the table shows.  From then *)
(* on its thread uploads every value the manager passes to it, under the   *)
(* device id the table showed for the sender.  The table is never asked    *)
(* for again: what the manager does to it later is not seen.               *)
(*                                                                         *)
(* Each connection is a queue of packages.  The handlers of the manager    *)
(* are atomic here; IoTManager.tla has their interleavings.                *)
(***************************************************************************)
EXTENDS Integers, SequencesExt

CONSTANTS
    Devices,        \* device ids
    Components,     \* [Devices -> sets of component ids]
    Order,          \* order in which the broker registers its devices
    subscriptObjs,  \* sequence of wanted [dev, com, freq]
    Tick,           \* ruler period, in the unit of freq
    MaxIps,         \* bound: ips handed out (each registration takes one)
    MaxQueue,       \* bound: packages under way on one connection
    None

NoIp == -1
Ips == 0 .. MaxIps - 1
Coms == UNION {Components[d] : d \in Devices}

(* What makes an answer, matched by component id alone, find its rule: no  *)
(* two devices share a subscribed component id.                            *)
UploaderAssumption ==
    /\ Components \in [Devices -> SUBSET Coms]
    /\ \A i \in 1 .. Len(subscriptObjs) :
         LET s == subscriptObjs[i]
         IN  \A d \in Devices : s.com \in Components[d] => d = s.dev
    /\ subscriptObjs \in Seq(ToSet(subscriptObjs)) /\ Order \in Seq(Devices)
    /\ \A i \in 1 .. Len(subscriptObjs) : subscriptObjs[i].freq \in Int
    /\ None \notin [dev : Devices, com : Coms]
    /\ Tick \in Nat \ {0} /\ MaxIps \in Nat /\ MaxQueue \in Nat \ {0}

VARIABLES
    ip_count,     \* manager: next ip
    table,        \* manager: registed_devices, without the uploader itself
    rules,        \* manager: rules of the uploader
    visited,      \* ruler thread: rules visited by the running scan
    ipOf,         \* broker: the ip it last got for each device
    todo,         \* broker: devices still to register at start
    fromBroker,   \* broker -> manager
    toBroker,     \* manager -> broker
    fromUploader, \* uploader -> manager
    toUploader,   \* manager -> uploader
    pc,           \* uploader: "start", "wait", "subscribe", "loop"
    allDevices,   \* uploader: the table as it was answered
    next,         \* uploader: next element of subscriptObjs
    upload        \* last request posted to the web server

manager == <<ip_count, table, rules, visited>>
broker == <<ipOf, todo, fromBroker>>
uploader == <<pc, allDevices, next, upload>>
vars == <<manager, broker, toBroker, fromUploader, toUploader, uploader>>

Entry == [ip : Ips, dev : Devices]
Reading == [dev : Devices, com : Coms]
Rule == [from : Ips, com : Coms, freq : Int, wait : Int, waiting : BOOLEAN]

Init ==
    /\ ip_count = 0 /\ table = <<>> /\ rules = <<>> /\ visited = 0
    /\ ipOf = [d \in Devices |-> NoIp] /\ todo = Order /\ fromBroker = <<>>
    /\ toBroker = <<>> /\ fromUploader = <<>> /\ toUploader = <<>>
    /\ pc = "start" /\ allDevices = <<>> /\ next = 1 /\ upload = None

-----------------------------------------------------------------------------
(* Device broker.                                                          *)

\* askIoTIp on a connection of its own, then IOTDEV on the broker's.
register(d) ==
    /\ ip_count < MaxIps /\ Len(fromBroker) < MaxQueue
    /\ ip_count' = ip_count + 1
    /\ ipOf' = [ipOf EXCEPT ![d] = ip_count]
    /\ fromBroker' = Append(fromBroker, [kind |-> "dev", ip |-> ip_count, dev |-> d])

registerAllFakeDevice ==
    /\ todo # <<>>
    /\ register(Head(todo))
    /\ todo' = Tail(todo)
    /\ UNCHANGED <<table, rules, visited, toBroker, fromUploader, toUploader, uploader>>

\* A rescan registers a device again, under a new ip.
rescan(d) ==
    /\ todo = <<>>
    /\ register(d)
    /\ UNCHANGED <<todo, table, rules, visited, toBroker, fromUploader, toUploader, uploader>>

\* FakeBroker::loop: source and destination change places, the id stays.  The
\* value is one of the device the ip was granted to.
answerRead ==
    /\ todo = <<>> /\ toBroker # <<>> /\ Len(fromBroker) < MaxQueue
    /\ LET req == Head(toBroker)
       IN  fromBroker' = Append(fromBroker,
                                [kind |-> "res", ip |-> req.ip, com |-> req.com])
    /\ toBroker' = Tail(toBroker)
    /\ UNCHANGED <<ipOf, todo, manager, fromUploader, toUploader, uploader>>

-----------------------------------------------------------------------------
(* Manager.                                                                *)

isRegistered(t, ip) == \E i \in 1 .. Len(t) : t[i].ip = ip

\* removeRule: the one sequence that is left of s when only the places in keep stay.
Left(s, keep) ==
    {[k \in DOMAIN f |-> s[f[k]]] :
        f \in {g \in [1 .. Cardinality(keep) -> keep] : \A j, k \in DOMAIN g : j < k => g[j] < g[k]}}

\* addNewDevice: replaces the entry of the same device id, then drops the
\* rules of ips that are gone.
addNewDevice ==
    /\ fromBroker # <<>> /\ Head(fromBroker).kind = "dev"
    /\ LET p == Head(fromBroker)
           i == SelectInSeq(table, LAMBDA e : e.dev = p.dev)
       IN  table' = Append(IF i > 0 THEN RemoveAt(table, i) ELSE table,
                           [ip |-> p.ip, dev |-> p.dev])
    /\ rules' \in Left(rules, {k \in DOMAIN rules : isRegistered(table', rules[k].from)})
    /\ fromBroker' = Tail(fromBroker)
    /\ UNCHANGED <<ip_count, visited, ipOf, todo, toBroker, fromUploader, toUploader, uploader>>

\* Dis_All: the whole table.
commandHandler ==
    /\ fromUploader # <<>> /\ Head(fromUploader).kind = "Dis_All"
    /\ toUploader' = Append(toUploader, [kind |-> "list", devices |-> table])
    /\ fromUploader' = Tail(fromUploader)
    /\ UNCHANGED <<manager, broker, toBroker, uploader>>

\* IOTRUL: a new rule is due at once.
addRule ==
    /\ fromUploader # <<>> /\ Head(fromUploader).kind = "rule"
    /\ LET p == Head(fromUploader)
       IN  rules' = Append(rules, [from |-> p.from, com |-> p.com, freq |-> p.freq,
                                   wait |-> 0, waiting |-> FALSE])
    /\ fromUploader' = Tail(fromUploader)
    /\ UNCHANGED <<ip_count, table, visited, broker, toBroker, toUploader, uploader>>

\* Mutant: a rule that is not due does not count down.
scanRulesNoCountdown ==
    /\ rules # <<>>
    /\ IF visited >= Len(rules)
         THEN visited' = 0 /\ UNCHANGED <<rules, toBroker>>
         ELSE LET r == rules[visited + 1] IN
              /\ visited' = visited + 1
              /\ IF r.wait > 0
                   THEN UNCHANGED <<rules, toBroker>>
                   ELSE /\ Len(toBroker) < MaxQueue
                        /\ rules' = [rules EXCEPT ![visited + 1].wait = r.freq,
                                                  ![visited + 1].waiting = TRUE]
                        /\ toBroker' = Append(toBroker, [ip |-> r.from, com |-> r.com])
    /\ UNCHANGED <<ip_count, table, broker, fromUploader, toUploader, uploader>>

\* One turn of the loop of scanRules; a scan that is through sleeps.  (A rule
\* erased under a running scan is in IoTManager.tla; here the scan just ends.)
scanRules ==
    /\ rules # <<>>
    /\ IF visited >= Len(rules)
         THEN visited' = 0 /\ UNCHANGED <<rules, toBroker>>
         ELSE LET r == rules[visited + 1] IN
              /\ visited' = visited + 1
              /\ IF r.wait > 0
                   THEN /\ rules' = [rules EXCEPT ![visited + 1].wait = @ - Tick]
                        /\ UNCHANGED toBroker
                   ELSE /\ Len(toBroker) < MaxQueue
                        /\ rules' = [rules EXCEPT ![visited + 1].wait = r.freq,
                                                  ![visited + 1].waiting = TRUE]
                        /\ toBroker' = IF isRegistered(table, r.from)
                                         THEN Append(toBroker, [ip |-> r.from, com |-> r.com])
                                         ELSE toBroker
    /\ UNCHANGED <<ip_count, table, broker, fromUploader, toUploader, uploader>>

\* Mutant: the answer goes to the first rule that waits.
anyWaitingRule(com) == SelectInSeq(rules, LAMBDA r : r.waiting)

\* The rule an answer is for: the first one that waits for this id.
waitingRule(com) == SelectInSeq(rules, LAMBDA r : r.waiting /\ r.com = com)

\* The value goes on as a package of the rule: from its ReadFrom, with its
\* WriteID.  src and read are where it really came from (history).
handleRulerCommand ==
    /\ fromBroker # <<>> /\ Head(fromBroker).kind = "res"
    /\ Len(toUploader) < MaxQueue
    /\ LET p == Head(fromBroker)
           i == waitingRule(p.com)
       IN  IF i = 0
             THEN UNCHANGED <<rules, toUploader>>
             ELSE /\ rules' = [rules EXCEPT ![i].waiting = FALSE]
                  /\ toUploader' = Append(toUploader,
                       [kind |-> "value", from |-> rules[i].from, com |-> rules[i].com,
                        src |-> p.ip, read |-> p.com])
    /\ fromBroker' = Tail(fromBroker)
    /\ UNCHANGED <<ip_count, table, visited, ipOf, todo, toBroker, fromUploader, uploader>>

-----------------------------------------------------------------------------
(* Uploader.                                                               *)

\* Start: brokerRegister and the question of getAllDeviceDescription.  The
\* own entry of the uploader in the table plays no further part.
Start ==
    /\ pc = "start"
    /\ fromUploader' = Append(fromUploader, [kind |-> "Dis_All"])
    /\ pc' = "wait"
    /\ UNCHANGED <<manager, broker, toBroker, toUploader, allDevices, next, upload>>

\* waitIoTPackage returns the table: all of it arrived in time.
saveAllDeviceDescription ==
    /\ pc = "wait" /\ toUploader # <<>>
    /\ allDevices' = Head(toUploader).devices
    /\ toUploader' = Tail(toUploader)
    /\ pc' = "subscribe"
    /\ UNCHANGED <<manager, broker, toBroker, fromUploader, next, upload>>

\* waitIoTPackage returns NULL: the first piece is shorter than a header, or
\* 1000 ms are over when the next one would be read.  What came is lost, the
\* rest is no package for the loop, and no device is known.
waitIoTPackage ==
    /\ pc = "wait" /\ toUploader # <<>>
    /\ toUploader' = Tail(toUploader)
    /\ pc' = "subscribe"
    /\ UNCHANGED <<manager, broker, toBroker, fromUploader, allDevices, next, upload>>

\* The entry of the device, if it has the component.
findComponentIndex(dev, com) ==
    LET i == SelectInSeq(allDevices, LAMBDA e : e.dev = dev)
    IN  IF i > 0 /\ com \in Components[dev] THEN i ELSE 0

\* One turn of the loop of sendSubscriptRule.
sendSubscriptRule ==
    /\ pc = "subscribe" /\ next <= Len(subscriptObjs)
    /\ Len(fromUploader) < MaxQueue
    /\ LET s == subscriptObjs[next]
           i == findComponentIndex(s.dev, s.com)
       IN  fromUploader' =
             IF i = 0 THEN fromUploader
             ELSE Append(fromUploader, [kind |-> "rule", from |-> allDevices[i].ip,
                                        com |-> s.com, freq |-> s.freq])
    /\ next' = next + 1
    /\ UNCHANGED <<manager, broker, toBroker, toUploader, pc, allDevices, upload>>

startLoop ==
    /\ pc = "subscribe" /\ next > Len(subscriptObjs)
    /\ pc' = "loop"
    /\ UNCHANGED <<manager, broker, toBroker, fromUploader, toUploader,
                   allDevices, next, upload>>

\* The first entry of the ip; None stands for the empty id of an unknown one.
getUploadDeviceId(ip, com) ==
    LET i == SelectInSeq(allDevices, LAMBDA e : e.ip = ip)
    IN  IF i = 0 THEN None ELSE [dev |-> allDevices[i].dev, com |-> com]

\* One POST: whatever the web server says, and after two seconds without a word
\* from it, the caller goes on.  Where the value came from is history.
uploadData(devId, p) == upload' = [as |-> devId, ip |-> p.src, read |-> p.read]

\* loop and handleRecvData, one package at a time.
handleRecvData ==
    /\ pc = "loop" /\ toUploader # <<>>
    /\ LET p == Head(toUploader)
       IN  uploadData(getUploadDeviceId(p.from, p.com), p)
    /\ toUploader' = Tail(toUploader)
    /\ UNCHANGED <<manager, broker, toBroker, fromUploader, pc, allDevices, next>>

-----------------------------------------------------------------------------
ServerThread == addNewDevice \/ commandHandler \/ addRule \/ handleRulerCommand
UploaderThread == \/ Start \/ saveAllDeviceDescription \/ waitIoTPackage
                  \/ sendSubscriptRule \/ startLoop \/ handleRecvData
BrokerThread == registerAllFakeDevice \/ answerRead

Next ==
    \/ ServerThread \/ scanRules
    \/ UploaderThread
    \/ BrokerThread \/ \E d \in Devices : rescan(d)

\* Every thread is scheduled, and the select loop serves each connection that
\* has a package: no fairness between the outcomes of waitIoTPackage, none for
\* a rescan.
Fairness ==
    /\ WF_vars(addNewDevice \/ handleRulerCommand)
    /\ WF_vars(commandHandler \/ addRule)
    /\ WF_vars(scanRules)
    /\ WF_vars(UploaderThread)
    /\ WF_vars(BrokerThread)

Spec == Init /\ [][Next]_vars /\ Fairness

-----------------------------------------------------------------------------
TypeOK ==
    /\ ip_count \in 0 .. MaxIps
    /\ table \in Seq(Entry) /\ allDevices \in Seq(Entry)
    /\ rules \in Seq(Rule) /\ visited \in Nat
    /\ ipOf \in [Devices -> Ips \cup {NoIp}]
    /\ pc \in {"start", "wait", "subscribe", "loop"}
    /\ next \in 1 .. Len(subscriptObjs) + 1

(* What is uploaded as a reading of a component of a device is one: the    *)
(* label comes from the rule the manager matched by id alone and from a    *)
(* snapshot that may be long out of date, the value from an ip that may    *)
(* have been replaced meanwhile (Ruler.cpp:133, CloudUploader.cpp:326).    *)
RightLabel ==
    /\ TypeOK
    /\ upload # None =>
         /\ upload.as # None
         /\ upload.as.com = upload.read /\ upload.as.com \in Components[upload.as.dev]
         /\ \E i \in 1 .. Len(allDevices) :
              allDevices[i] = [ip |-> upload.ip, dev |-> upload.as.dev]

(* The subscription s is in force: its rule stands, and its device is      *)
(* still registered under the ip the rule names.                           *)
InForce(s) ==
    \E i \in 1 .. Len(rules), j \in 1 .. Len(table) :
      /\ rules[i].com = s.com /\ rules[i].from = table[j].ip
      /\ table[j].dev = s.dev

Uploads(s) == handleRecvData /\ upload'.as = [dev |-> s.dev, com |-> s.com]

(* A subscription that stays in force is uploaded again and again, however *)
(* answers get lost between rules of the same component id and whoever     *)
(* else registers meanwhile: a rule whose answer another rule took is read *)
(* again when its time comes (Ruler.cpp:106, :133).                        *)
KeepsUploading ==
    \A i \in 1 .. Len(subscriptObjs) :
      <>[]InForce(subscriptObjs[i]) => []<><<Uploads(subscriptObjs[i])>>_vars
=============================================================================
