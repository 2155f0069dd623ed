-------------------------- MODULE IoTManagerProofs --------------------------
(* Invariants of IoTManager, for any number of slots, brokers, devices, ips  *)
(* and rules.                                                               *)
EXTENDS IoTManager, SequenceLemmas

-----------------------------------------------------------------------------
(* Lookups.                                                                *)

\* findDeviceIndexByDeviceId returns an entry of that id, or 0 if there is none.
LEMMA FindByDeviceId ==
    ASSUME devices \in Seq(DeviceInfo), NEW d, NEW k,
           k = findDeviceIndexByDeviceId(d)
    PROVE  /\ k \in 0 .. Len(devices)
           /\ k > 0 => devices[k].dev = d
           /\ k = 0 => \A j \in 1 .. Len(devices) : devices[j].dev # d
<1> DEFINE I == {i \in 1 .. Len(devices) : devices[i].dev = d}
<1>1. k = IF I # {} THEN Min(I) ELSE 0
  BY DEF findDeviceIndexByDeviceId, SelectInSeq
<1>2. Len(devices) \in Nat /\ I \in SUBSET (1 .. Len(devices))
  BY LenProperties
<1> HIDE DEF I
<1>3. k \in 0 .. Len(devices) /\ (k > 0 => k \in I) /\ (k = 0 => I = {})
  BY <1>1, <1>2, FirstIndex
<1>4. QED
  BY <1>3 DEF I

\* findDeviceIndexByIoTIp returns an entry of that ip, or 0 if there is none.
LEMMA FindByIp ==
    ASSUME devices \in Seq(DeviceInfo), NEW ip, NEW k,
           k = findDeviceIndexByIoTIp(ip)
    PROVE  /\ k \in 0 .. Len(devices)
           /\ k > 0 => devices[k].ip = ip
           /\ k = 0 => \A j \in 1 .. Len(devices) : devices[j].ip # ip
<1> DEFINE I == {i \in 1 .. Len(devices) : devices[i].ip = ip}
<1>1. k = IF I # {} THEN Min(I) ELSE 0
  BY DEF findDeviceIndexByIoTIp, SelectInSeq
<1>2. Len(devices) \in Nat /\ I \in SUBSET (1 .. Len(devices))
  BY LenProperties
<1> HIDE DEF I
<1>3. k \in 0 .. Len(devices) /\ (k > 0 => k \in I) /\ (k = 0 => I = {})
  BY <1>1, <1>2, FirstIndex
<1>4. QED
  BY <1>3 DEF I

\* The search for an entry of a slot finds one if there is one.
LEMMA FindBySlot ==
    ASSUME devices \in Seq(DeviceInfo), NEW s, NEW k,
           k = findDeviceIndexBySlot(s)
    PROVE  /\ k \in 0 .. Len(devices)
           /\ k > 0 => devices[k].slot = s
           /\ k = 0 => \A j \in 1 .. Len(devices) : devices[j].slot # s
<1> DEFINE I == {i \in 1 .. Len(devices) : devices[i].slot = s}
<1>1. k = IF I # {} THEN Min(I) ELSE 0
  BY DEF findDeviceIndexBySlot, SelectInSeq
<1>2. Len(devices) \in Nat /\ I \in SUBSET (1 .. Len(devices))
  BY LenProperties
<1> HIDE DEF I
<1>3. k \in 0 .. Len(devices) /\ (k > 0 => k \in I) /\ (k = 0 => I = {})
  BY <1>1, <1>2, FirstIndex
<1>4. QED
  BY <1>3 DEF I

\* removeRule(id) on the list of an installed rule erases one rule of that id.
LEMMA RemoveRuleProperties ==
    ASSUME rules \in Seq(RuleInstance), NEW k \in 1 .. Len(rules),
           removeRule(rules[k].id)
    PROVE  \E m \in 1 .. Len(rules) :
              rules[m].id = rules[k].id /\ rules' = RemoveAt(rules, m)
<1> DEFINE id == rules[k].id
           I == {i \in 1 .. Len(rules) : rules[i].id = id}
<1>1. PICK m : /\ m = (IF I # {} THEN Min(I) ELSE 0)
               /\ rules' = RemoveAt(rules, m)
  BY DEF removeRule, SelectInSeq
<1>2. Len(rules) \in Nat /\ I \in SUBSET (1 .. Len(rules)) /\ I # {}
  BY LenProperties
<1> HIDE DEF I
<1>3. m \in 0 .. Len(rules) /\ (m > 0 => m \in I) /\ (m = 0 => I = {})
  BY <1>1, <1>2, FirstIndex
<1>4. m \in I
  <2>1. m # 0
    BY <1>2, <1>3
  <2>2. m > 0
    BY <1>2, <1>3, <2>1
  <2>3. QED
    BY <1>3, <2>2
<1>5. QED
  BY <1>1, <1>4 DEF I

-----------------------------------------------------------------------------
(* Type correctness.                                                        *)

\* What Send puts on the wire is a message to a connected broker, or nothing.
LEMMA SendType ==
    ASSUME TypeOK, NEW s \in Slots, NEW kind, NEW ip \in Int,
           kind \in {"ip", "list", "forward", "read", "write"},
           Send(s, kind, ip)
    PROVE  sent' \in Message \cup {None}
<1>1. conn[s] \in Brokers \cup {None}
  BY DEF TypeOK
<1>2. QED
  BY <1>1 DEF Send, Message

\* So is what SendTo puts there.
LEMMA SendToType ==
    ASSUME TypeOK, NEW kind, NEW ip \in Int,
           kind \in {"ip", "list", "forward", "read", "write"},
           SendTo(ip, kind)
    PROVE  sent' \in Message \cup {None}
<1> DEFINE k == findDeviceIndexByIoTIp(ip)
<1>1. devices \in Seq(DeviceInfo)
  BY DEF TypeOK
<1>2. k \in 0 .. Len(devices) /\ Len(devices) \in Nat
  BY <1>1, FindByIp, LenProperties
<1>3. CASE k > 0
  <2>1. k \in 1 .. Len(devices)
    BY <1>2, <1>3
  <2>2. devices[k] \in DeviceInfo
    BY <1>1, <2>1, ElementOfSeq
  <2>3. devices[k].slot \in Slots
    BY <2>2 DEF DeviceInfo
  <2>4. Send(devices[k].slot, kind, ip)
    BY <1>3 DEF SendTo
  <2>5. QED
    BY <2>3, <2>4, SendType
<1>4. CASE ~ (k > 0)
  BY <1>4 DEF SendTo
<1>5. QED
  BY <1>3, <1>4

\* Advance leaves the locals of scanRules well typed.
LEMMA AdvanceType ==
    ASSUME scan \in ScanState, Advance
    PROVE  /\ scan' \in ScanState
           /\ scan'.pc # "sleep" => scan'.i > 0
           /\ scan'.pc # "send"
<1>1. Asleep \in ScanState /\ Asleep.pc = "sleep"
  BY DEF Asleep, ScanState, NoIp
<1>2. scan.i \in Nat /\ scan.count \in Nat
  BY DEF ScanState
<1>3. CASE scan.i < scan.count
  <2>1. scan' = [pc |-> "test", i |-> scan.i + 1, count |-> scan.count,
                 target |-> 0, ip |-> NoIp]
    BY <1>3 DEF Advance, Asleep
  <2>2. QED
    BY <1>2, <2>1 DEF ScanState, NoIp
<1>4. CASE ~ (scan.i < scan.count)
  BY <1>1, <1>4 DEF Advance
<1>5. QED
  BY <1>3, <1>4

\* Changing the timer or the flag of an installed rule leaves the list a list of
\* rules, of the same length and with the same ids.
LEMMA TouchRule ==
    ASSUME rules \in Seq(RuleInstance), NEW i \in 1 .. Len(rules),
           \/ \E w \in Int : rules' = [rules EXCEPT ![i].wait = w]
           \/ \E f \in BOOLEAN : rules' = [rules EXCEPT ![i].waiting = f]
    PROVE  /\ rules' \in Seq(RuleInstance)
           /\ Len(rules') = Len(rules)
           /\ \A j \in 1 .. Len(rules) : /\ rules'[j].id = rules[j].id
                                         /\ rules'[j].rule = rules[j].rule
<1>1. rules[i] \in RuleInstance
  BY ElementOfSeq
<1>2. \A e \in RuleInstance :
         rules' = [rules EXCEPT ![i] = e] /\ e.id = rules[i].id /\ e.rule = rules[i].rule
         => /\ rules' \in Seq(RuleInstance)
            /\ Len(rules') = Len(rules)
            /\ \A j \in 1 .. Len(rules) : /\ rules'[j].id = rules[j].id
                                          /\ rules'[j].rule = rules[j].rule
  <2>1. TAKE e \in RuleInstance
  <2>2. HAVE rules' = [rules EXCEPT ![i] = e] /\ e.id = rules[i].id
             /\ e.rule = rules[i].rule
  <2>3. /\ [rules EXCEPT ![i] = e] \in Seq(RuleInstance)
        /\ Len([rules EXCEPT ![i] = e]) = Len(rules)
        /\ \A j \in 1 .. Len(rules) :
              [rules EXCEPT ![i] = e][j] = IF j = i THEN e ELSE rules[j]
    BY ExceptSeq
  <2>4. QED
    BY <2>2, <2>3
<1>3. CASE \E w \in Int : rules' = [rules EXCEPT ![i].wait = w]
  <2>1. PICK w \in Int : rules' = [rules EXCEPT ![i].wait = w]
    BY <1>3
  <2>2. DEFINE e == [rules[i] EXCEPT !.wait = w]
  <2>3. e \in RuleInstance /\ e.id = rules[i].id /\ e.rule = rules[i].rule
    BY <1>1 DEF RuleInstance
  <2>4. rules' = [rules EXCEPT ![i] = e]
    BY <2>1
  <2>5. QED
    BY <1>2, <2>3, <2>4
<1>4. CASE \E f \in BOOLEAN : rules' = [rules EXCEPT ![i].waiting = f]
  <2>1. PICK f \in BOOLEAN : rules' = [rules EXCEPT ![i].waiting = f]
    BY <1>4
  <2>2. DEFINE e == [rules[i] EXCEPT !.waiting = f]
  <2>3. e \in RuleInstance /\ e.id = rules[i].id /\ e.rule = rules[i].rule
    BY <1>1 DEF RuleInstance
  <2>4. rules' = [rules EXCEPT ![i] = e]
    BY <2>1
  <2>5. QED
    BY <1>2, <2>3, <2>4
<1>5. QED
  BY <1>3, <1>4

\* The initial state is well typed.
LEMMA TypeInit == Init => TypeOK
<1> SUFFICES ASSUME Init PROVE TypeOK
  OBVIOUS
<1>1. devices \in Seq(DeviceInfo) /\ rules \in Seq(RuleInstance)
  BY EmptySeq DEF Init
<1>2. scan \in ScanState /\ scan.pc = "sleep"
  BY DEF Init, Asleep, ScanState, NoIp
<1>p. pass \in [i : Nat, count : Int]
  BY DEF Init, NoPass
<1>3. ip_count \in 0 .. MaxIps /\ nextRuleId \in 0 .. MaxRules
  BY ConstantsAssumption DEF Init
<1>4. QED
  BY <1>1, <1>2, <1>3, <1>p DEF Init, TypeOK, Grant

\* Every action of either thread keeps the types.
LEMMA TypeStep == TypeOK /\ [Next]_vars => TypeOK'
<1> SUFFICES ASSUME TypeOK, [Next]_vars PROVE TypeOK'
  OBVIOUS
<1> USE ConstantsAssumption
<1>0. /\ devices \in Seq(DeviceInfo)
      /\ rules \in Seq(RuleInstance)
      /\ scan \in ScanState
      /\ Len(rules) \in Nat /\ Len(devices) \in Nat
  BY LenProperties DEF TypeOK
<1>1. ASSUME NEW b \in Brokers, NewConnection(b) PROVE TypeOK'
  BY <1>1 DEF TypeOK, NewConnection, Quiet, ruleVars, server
<1>2. ASSUME NEW s \in Slots, CutConnection(s) PROVE TypeOK'
  <2>1. /\ pass' \in [i : Nat, count : Int]
        /\ pc' = "drop" => pass'.i > 0 /\ pass'.count = Len(devices')
        /\ pc' # "reload" /\ pc' # "add"
    BY <1>0, <1>2 DEF TypeOK, CutConnection, BeginPass, Idle
  <2>2. QED
    BY <1>2, <2>1 DEF TypeOK, CutConnection, Quiet, ruleVars
<1>3. CASE removeDeviceBySocketIndex
  <2>0. /\ pc = "drop" /\ pass.i \in Nat /\ pass.i > 0 /\ pass.count = Len(devices)
        /\ pass \in [i : Nat, count : Int]
    BY <1>3 DEF TypeOK, removeDeviceBySocketIndex
  <2>1. CASE Looping /\ devices[pass.i].slot = cutSlot
    <3>1. pass.i \in 1 .. Len(devices)
      BY <1>0, <2>0, <2>1 DEF Looping
    <3>2. devices' = RemoveAt(devices, pass.i) /\ SameIndexAgain /\ UNCHANGED <<pc, cutSlot>>
      BY <1>3, <2>1 DEF removeDeviceBySocketIndex
    <3>3. devices' \in Seq(DeviceInfo) /\ Len(devices') = Len(devices) - 1
      BY <1>0, <3>1, <3>2, RemoveAtProperties
    <3>4. pass' \in [i : Nat, count : Int] /\ pass'.i > 0 /\ pass'.count = Len(devices')
      BY <1>0, <2>0, <3>2, <3>3 DEF SameIndexAgain
    <3>5. QED
      BY <1>3, <2>0, <3>2, <3>3, <3>4 DEF TypeOK, removeDeviceBySocketIndex, Quiet, ruleVars
  <2>2. CASE Looping /\ devices[pass.i].slot # cutSlot
    <3>1. NextIndex /\ UNCHANGED <<devices, pc, cutSlot>>
      BY <1>3, <2>2 DEF removeDeviceBySocketIndex
    <3>2. pass' \in [i : Nat, count : Int] /\ pass'.i > 0 /\ pass'.count = Len(devices')
      BY <2>0, <3>1 DEF NextIndex
    <3>3. QED
      BY <1>3, <2>0, <3>1, <3>2 DEF TypeOK, removeDeviceBySocketIndex, Quiet, ruleVars
  <2>3. CASE ~ Looping
    <3>1. BeginPass(rules) /\ pc' = "reload" /\ UNCHANGED devices
      BY <1>3, <2>3 DEF removeDeviceBySocketIndex
    <3>2. /\ pass' \in [i : Nat, count : Int] /\ pass'.i > 0
          /\ pass'.count = Len(rules)
      BY <1>0, <3>1 DEF BeginPass
    <3>3. QED
      BY <1>3, <3>1, <3>2 DEF TypeOK, removeDeviceBySocketIndex, Quiet, ruleVars
  <2>4. QED
    BY <2>1, <2>2, <2>3
<1>4. ASSUME NEW s \in Slots, NEW d \in Devices, HandleIpRequest(s, d) PROVE TypeOK'
  <2>1. ip_count \in Ips /\ ip_count \in Int /\ ip_count' \in 0 .. MaxIps
    BY <1>4 DEF TypeOK, HandleIpRequest, getNewIoTIP, Ips
  <2>2. sent' \in Message \cup {None}
    BY <1>4, <2>1, SendType DEF HandleIpRequest
  <2>3. granted' \subseteq Grant
    BY <1>4, <2>1 DEF TypeOK, HandleIpRequest, Grant
  <2>4. QED
    BY <1>4, <2>1, <2>2, <2>3 DEF TypeOK, HandleIpRequest, ruleVars, server
<1>5. ASSUME NEW s \in Slots, NEW g \in granted, addNewDevice(s, g) PROVE TypeOK'
  <2> DEFINE k == findDeviceIndexByDeviceId(g.dev)
  <2>1. k \in 0 .. Len(devices)
    BY <1>0, FindByDeviceId
  <2>2. devices' \in Seq(DeviceInfo)
    <3>1. CASE k > 0
      <4>1. k \in 1 .. Len(devices)
        BY <1>0, <2>1, <3>1
      <4>2. QED
        BY <1>0, <1>5, <3>1, <4>1, RemoveAtProperties DEF addNewDevice
    <3>2. CASE ~ (k > 0)
      BY <1>0, <1>5, <3>2 DEF addNewDevice
    <3>3. QED
      BY <3>1, <3>2
  <2>3. newDevice' \in DeviceInfo
    BY <1>5 DEF TypeOK, addNewDevice, Grant, DeviceInfo
  <2>4. QED
    BY <1>5, <2>2, <2>3 DEF TypeOK, addNewDevice, Quiet, ruleVars
<1>6. CASE pushDevice
  <2>1. newDevice \in DeviceInfo
    BY <1>6 DEF TypeOK, pushDevice
  <2>2. devices' \in Seq(DeviceInfo)
    BY <1>0, <1>6, <2>1, AppendProperties DEF pushDevice
  <2>3. /\ pass' \in [i : Nat, count : Int] /\ pass'.i > 0
        /\ pass'.count = Len(rules) /\ pc' = "reload"
    BY <1>0, <1>6 DEF pushDevice, BeginPass
  <2>4. QED
    BY <1>6, <2>2, <2>3 DEF TypeOK, pushDevice, Quiet, ruleVars
<1>7. ASSUME NEW s \in Slots, HandleDiscover(s) PROVE TypeOK'
  <2>1. sent' \in Message \cup {None}
    BY <1>7, SendType DEF HandleDiscover, NoIp
  <2>2. QED
    BY <1>7, <2>1 DEF TypeOK, HandleDiscover, tables, ruleVars, server
<1>8. ASSUME NEW s \in Slots, NEW ip \in Ips, HandleForward(s, ip) PROVE TypeOK'
  <2>1. sent' \in Message \cup {None}
    BY <1>8, SendToType DEF HandleForward, Ips
  <2>2. QED
    BY <1>8, <2>1 DEF TypeOK, HandleForward, tables, ruleVars, server
<1>9. ASSUME NEW s \in Slots, NEW r \in IoTRules, addRule(s, r) PROVE TypeOK'
  <2>1. [id |-> nextRuleId, rule |-> r, wait |-> 0, waiting |-> FALSE] \in RuleInstance
    BY DEF TypeOK, RuleInstance
  <2>2. rules' \in Seq(RuleInstance)
    BY <1>0, <1>9, <2>1, AppendProperties DEF addRule
  <2>3. nextRuleId' \in 0 .. MaxRules
    BY <1>9 DEF TypeOK, addRule
  <2>4. QED
    BY <1>9, <2>2, <2>3 DEF TypeOK, addRule, Idle, Quiet, tables, server
<1>10. ASSUME NEW s \in Slots, NEW x, handleRulerCommand(s, x) PROVE TypeOK'
  <2> DEFINE I == {i \in 1 .. Len(rules) : rules[i].waiting /\ rules[i].rule.readId = x}
             k == SelectInSeq(rules, LAMBDA r : r.waiting /\ r.rule.readId = x)
  <2>1. k \in 0 .. Len(rules)
    <3>1. k = IF I # {} THEN Min(I) ELSE 0
      BY DEF SelectInSeq
    <3>2. I \in SUBSET (1 .. Len(rules))
      OBVIOUS
    <3> HIDE DEF I, k
    <3>3. QED
      BY <1>0, <3>1, <3>2, FirstIndex
  <2>2. CASE k = 0
    <3>1. UNCHANGED rules /\ Quiet
      BY <1>10, <2>2 DEF handleRulerCommand
    <3>2. QED
      BY <1>10, <3>1 DEF TypeOK, handleRulerCommand, Quiet, tables, server
  <2>3. CASE k # 0
    <3>1. k \in 1 .. Len(rules)
      BY <1>0, <2>1, <2>3
    <3>2. /\ rules' = [rules EXCEPT ![k].waiting = FALSE]
          /\ IF rules[k].rule.writeTo = NoIp THEN Quiet
             ELSE SendTo(rules[k].rule.writeTo, "write")
      BY <1>10, <2>3 DEF handleRulerCommand, excuteWriteRule
    <3> HIDE DEF k
    <3>3. rules' \in Seq(RuleInstance)
      BY <1>0, <3>1, <3>2, TouchRule
    <3>4. rules[k].rule.writeTo \in Int
      <4>1. rules[k] \in RuleInstance
        BY <1>0, <3>1, ElementOfSeq
      <4>2. QED
        BY <4>1 DEF RuleInstance
    <3>5. sent' \in Message \cup {None}
      BY <3>2, <3>4, SendToType DEF Quiet
    <3>6. QED
      BY <1>10, <3>3, <3>5 DEF TypeOK, handleRulerCommand, Idle, tables, server
  <2>4. QED
    BY <2>2, <2>3
<1>11. CASE noticeReloadDeviceList
  <2>0. /\ pc = "reload" /\ pass.i \in Nat /\ pass.i > 0 /\ pass.count = Len(rules)
        /\ pass \in [i : Nat, count : Int]
        /\ UNCHANGED <<conn, devices, ip_count, granted, nextRuleId, cutSlot, newDevice, scan, alive>>
        /\ sent' = None
    BY <1>11 DEF TypeOK, noticeReloadDeviceList, tables, Quiet
  <2>1. CASE Looping /\ ~ HasBothEnds(rules[pass.i])
    <3>1. pass.i \in 1 .. Len(rules)
      BY <1>0, <2>0, <2>1 DEF Looping
    <3>2. removeRule(rules[pass.i].id) /\ SameIndexAgain /\ UNCHANGED pc
      BY <1>11, <2>1 DEF noticeReloadDeviceList
    <3>3. PICK m \in 1 .. Len(rules) : rules' = RemoveAt(rules, m)
      BY <1>0, <3>1, <3>2, RemoveRuleProperties
    <3>4. rules' \in Seq(RuleInstance) /\ Len(rules') = Len(rules) - 1
      BY <1>0, <3>3, RemoveAtProperties
    <3>5. pass' \in [i : Nat, count : Int] /\ pass'.i > 0 /\ pass'.count = Len(rules')
      BY <1>0, <2>0, <3>2, <3>4 DEF SameIndexAgain
    <3>6. QED
      BY <2>0, <3>2, <3>4, <3>5 DEF TypeOK
  <2>2. CASE Looping /\ HasBothEnds(rules[pass.i])
    <3>1. NextIndex /\ UNCHANGED <<rules, pc>>
      BY <1>11, <2>2 DEF noticeReloadDeviceList
    <3>2. pass' \in [i : Nat, count : Int] /\ pass'.i > 0 /\ pass'.count = Len(rules')
      BY <2>0, <3>1 DEF NextIndex
    <3>3. QED
      BY <2>0, <3>1, <3>2 DEF TypeOK
  <2>3. CASE ~ Looping
    <3>1. EndPass /\ pc' = "select" /\ UNCHANGED rules
      BY <1>11, <2>3 DEF noticeReloadDeviceList
    <3>2. pass' \in [i : Nat, count : Int]
      BY <3>1 DEF EndPass, NoPass
    <3>3. QED
      BY <2>0, <3>1, <3>2 DEF TypeOK
  <2>4. QED
    BY <2>1, <2>2, <2>3
<1>12. CASE beginScan
  <2>1. scan' = [pc |-> "test", i |-> 1, count |-> Len(rules),
                 target |-> 0, ip |-> NoIp]
    BY <1>12 DEF beginScan, Asleep
  <2>2. scan' \in ScanState
    BY <1>0, <2>1 DEF ScanState, NoIp
  <2>3. QED
    BY <1>12, <2>1, <2>2 DEF TypeOK, beginScan, Quiet, tables, ruleVars, server
<1>13. CASE testRule
  <2>0. scan.i \in Nat /\ (scan.i <= Len(rules) <=> ~ (scan.i > Len(rules)))
    BY <1>0 DEF ScanState
  <2>1. CASE scan.i > Len(rules)
    <3>1. Throw
      BY <1>13, <2>0, <2>1 DEF testRule
    <3>2. QED
      BY <1>13, <3>1 DEF TypeOK, testRule, Throw, Quiet, tables, server
  <2>2. CASE scan.i <= Len(rules)
    <3>1. scan.i \in 1 .. Len(rules)
      BY <1>13, <2>0, <2>2 DEF TypeOK, testRule, ScanState
    <3>2. rules[scan.i].rule.freq \in Int /\ rules[scan.i].wait \in Int
      <4>1. rules[scan.i] \in RuleInstance
        BY <1>0, <3>1, ElementOfSeq
      <4>2. QED
        BY <4>1 DEF RuleInstance
    <3>3. /\ rules' \in Seq(RuleInstance) /\ Len(rules') = Len(rules)
          /\ scan' \in ScanState
          /\ scan'.pc # "sleep" => scan'.i > 0
          /\ scan'.pc # "send"
      <4>1. CASE rules[scan.i].wait <= 0
        <5>1. /\ rules' = [rules EXCEPT ![scan.i].wait = rules[scan.i].rule.freq]
              /\ scan' = [scan EXCEPT !.pc = "read"]
          BY <1>13, <2>0, <2>2, <4>1 DEF testRule
        <5>2. rules' \in Seq(RuleInstance) /\ Len(rules') = Len(rules)
          BY <1>0, <3>1, <3>2, <5>1, TouchRule
        <5>3. scan' \in ScanState /\ scan'.i = scan.i /\ scan'.pc = "read"
          BY <1>0, <5>1 DEF ScanState
        <5>4. QED
          BY <3>1, <5>2, <5>3
      <4>2. CASE ~ (rules[scan.i].wait <= 0)
        <5>1. /\ rules' = [rules EXCEPT ![scan.i].wait = rules[scan.i].wait - Tick]
              /\ Advance
          BY <1>13, <2>0, <2>2, <4>2 DEF testRule
        <5>2. rules[scan.i].wait - Tick \in Int
          BY <3>2
        <5>3. rules' \in Seq(RuleInstance) /\ Len(rules') = Len(rules)
          BY <1>0, <3>1, <5>1, <5>2, TouchRule
        <5>4. QED
          BY <1>0, <5>1, <5>3, AdvanceType
      <4>3. QED
        BY <4>1, <4>2
    <3>4. Quiet /\ UNCHANGED alive
      BY <1>13, <2>0, <2>2 DEF testRule
    <3>5. QED
      BY <1>13, <3>3, <3>4 DEF TypeOK, testRule, Quiet, tables, server
  <2>3. QED
    BY <1>0, <2>0, <2>1, <2>2
<1>14. CASE excuteReadRule
  <2>0. scan.i \in Nat /\ (scan.i <= Len(rules) <=> ~ (scan.i > Len(rules)))
    BY <1>0 DEF ScanState
  <2>1. CASE scan.i > Len(rules)
    <3>1. Throw
      BY <1>14, <2>0, <2>1 DEF excuteReadRule
    <3>2. QED
      BY <1>14, <3>1 DEF TypeOK, excuteReadRule, Throw, Quiet, tables, server
  <2>2. CASE scan.i <= Len(rules)
    <3> DEFINE r == rules[scan.i].rule
               t == findDeviceIndexByIoTIp(r.readFrom)
    <3>1. scan.i \in 1 .. Len(rules)
      BY <1>14, <2>0, <2>2 DEF TypeOK, excuteReadRule, ScanState
    <3>2. r.readFrom \in Int
      <4>1. rules[scan.i] \in RuleInstance
        BY <1>0, <3>1, ElementOfSeq
      <4>2. QED
        BY <4>1 DEF RuleInstance
    <3>3. t \in 0 .. Len(devices)
      BY <1>0, FindByIp
    <3>4. rules' \in Seq(RuleInstance) /\ Len(rules') = Len(rules)
      <4>1. \/ rules' = [rules EXCEPT ![scan.i].waiting = TRUE]
            \/ UNCHANGED rules
        BY <1>14, <2>0, <2>2 DEF excuteReadRule
      <4>2. QED
        BY <1>0, <3>1, <4>1, TouchRule
    <3>5. /\ scan' \in ScanState
          /\ scan'.pc # "sleep" => scan'.i > 0
          /\ scan'.pc = "send" => scan'.target > 0
      <4>1. CASE r.readFrom # NoIp /\ t > 0
        <5>1. scan' = [scan EXCEPT !.pc = "send", !.ip = r.readFrom, !.target = t]
          BY <1>14, <2>0, <2>2, <4>1 DEF excuteReadRule
        <5> HIDE DEF t
        <5>2. t \in Nat
          BY <1>0, <3>3
        <5>3. /\ scan' \in ScanState
              /\ scan'.i = scan.i /\ scan'.target = t
          BY <1>0, <3>2, <5>1, <5>2 DEF ScanState
        <5>4. QED
          BY <3>1, <4>1, <5>3
      <4>2. CASE ~ (r.readFrom # NoIp /\ t > 0)
        <5>1. Advance
          BY <1>14, <2>0, <2>2, <4>2 DEF excuteReadRule
        <5>2. QED
          BY <1>0, <5>1, AdvanceType
      <4>3. QED
        BY <4>1, <4>2
    <3>6. Quiet /\ UNCHANGED alive
      BY <1>14, <2>0, <2>2 DEF excuteReadRule
    <3>7. QED
      BY <1>14, <3>4, <3>5, <3>6 DEF TypeOK, excuteReadRule, Quiet, tables, server
  <2>3. QED
    BY <1>0, <2>0, <2>1, <2>2
<1>15. CASE sendReadRequest
  <2>0. scan.target \in Nat /\ (scan.target <= Len(devices) <=> ~ (scan.target > Len(devices)))
    BY <1>0 DEF ScanState
  <2>1. CASE scan.target > Len(devices)
    <3>1. Throw
      BY <1>15, <2>0, <2>1 DEF sendReadRequest
    <3>2. QED
      BY <1>15, <3>1 DEF TypeOK, sendReadRequest, Throw, Quiet, tables, server
  <2>2. CASE scan.target <= Len(devices)
    <3>1. scan.target \in 1 .. Len(devices)
      BY <1>15, <2>0, <2>2 DEF TypeOK, sendReadRequest, ScanState
    <3>2. devices[scan.target].slot \in Slots
      <4>1. devices[scan.target] \in DeviceInfo
        BY <1>0, <3>1, ElementOfSeq
      <4>2. QED
        BY <4>1 DEF DeviceInfo
    <3>3. scan.ip \in Int
      BY <1>0 DEF ScanState
    <3>4. /\ Send(devices[scan.target].slot, "read", scan.ip)
          /\ Advance
          /\ UNCHANGED <<rules, alive>>
      BY <1>15, <2>0, <2>2 DEF sendReadRequest
    <3>5. sent' \in Message \cup {None}
      BY <3>2, <3>3, <3>4, SendType
    <3>6. QED
      BY <1>0, <1>15, <3>4, <3>5, AdvanceType DEF TypeOK, sendReadRequest, tables, server
  <2>3. QED
    BY <1>0, <2>0, <2>1, <2>2
<1>16. CASE UNCHANGED vars
  BY <1>16 DEF TypeOK, vars, tables, ruleVars, server
<1>17. QED
  BY <1>1, <1>2, <1>3, <1>4, <1>5, <1>6, <1>7, <1>8, <1>9, <1>10, <1>11, <1>12,
     <1>13, <1>14, <1>15, <1>16 DEF Next, RulerStep, ServerStep, handlePackage, handleManagerPackage, handleRulePackage

\* The vectors of the manager and the locals of its two threads always hold what
\* their types say; in particular the ruler never uses the index 0 ("not found").
THEOREM TypeCorrect == Spec => []TypeOK
<1>1. QED
  BY TypeInit, TypeStep, PTL DEF Spec

-----------------------------------------------------------------------------
(* The device table.                                                       *)

\* Steps that leave the tables and the server thread alone leave the invariant.
LEMMA DeviceFrame ==
    ASSUME Inv, TypeOK', UNCHANGED <<tables, server>>
    PROVE  Inv'
BY DEF Inv, GrantsFresh, EntriesGranted, UniqueIds, CutIsFree, LiveEntries, DropPass,
       tables, server

\* After an erase, whatever is in the table was there before, once.
LEMMA EraseDevice ==
    ASSUME devices \in Seq(DeviceInfo), NEW k \in 1 .. Len(devices),
           devices' = RemoveAt(devices, k)
    PROVE  /\ \A j \in DOMAIN devices' : \E m \in DOMAIN devices :
                 m # k /\ devices'[j] = devices[m]
           /\ \A m \in DOMAIN devices : m # k =>
                 \E j \in DOMAIN devices' : devices'[j] = devices[m]
           /\ UniqueIds => UniqueIds'
<1>1. /\ devices' \in Seq(DeviceInfo)
      /\ Len(devices') = Len(devices) - 1
      /\ \A j \in 1 .. Len(devices) - 1 :
            devices'[j] = IF j < k THEN devices[j] ELSE devices[j + 1]
  BY RemoveAtProperties
<1>2. /\ DOMAIN devices = 1 .. Len(devices)
      /\ DOMAIN devices' = 1 .. Len(devices) - 1
      /\ Len(devices) \in Nat
  BY <1>1, LenProperties
<1>3. ASSUME NEW j \in DOMAIN devices'
      PROVE  LET m == IF j < k THEN j ELSE j + 1
             IN  m \in DOMAIN devices /\ m # k /\ devices'[j] = devices[m]
  BY <1>1, <1>2
<1>4. UniqueIds => UniqueIds'
  <2>1. SUFFICES ASSUME UniqueIds, NEW i \in DOMAIN devices', NEW j \in DOMAIN devices',
                        devices'[i].dev = devices'[j].dev
                 PROVE  i = j
    BY DEF UniqueIds
  <2> DEFINE m(n) == IF n < k THEN n ELSE n + 1
  <2>2. devices[m(i)].dev = devices[m(j)].dev /\ m(i) \in DOMAIN devices
        /\ m(j) \in DOMAIN devices
    BY <1>3, <2>1
  <2>3. m(i) = m(j)
    BY <2>1, <2>2 DEF UniqueIds
  <2>4. i \in Int /\ j \in Int
    BY <1>2
  <2>5. QED
    BY <2>3, <2>4
<1>5. ASSUME NEW m \in DOMAIN devices, m # k
      PROVE  \E j \in DOMAIN devices' : devices'[j] = devices[m]
  <2>1. CASE m < k
    <3>1. m \in DOMAIN devices' /\ devices'[m] = devices[m]
      BY <1>1, <1>2, <2>1
    <3>2. QED
      BY <3>1
  <2>2. CASE ~ (m < k)
    <3>1. m - 1 \in DOMAIN devices' /\ devices'[m - 1] = devices[m - 1 + 1]
      BY <1>1, <1>2, <1>5, <2>2
    <3>2. m - 1 + 1 = m
      BY <1>2
    <3>3. QED
      BY <3>1, <3>2
  <2>3. QED
    BY <2>1, <2>2
<1>6. QED
  BY <1>3, <1>4, <1>5

\* The loop over the devices leaves no entry of the slot behind its index: an erase
\* moves the next entry to the index, where the loop looks again.
LEMMA DropPassStep ==
    ASSUME TypeOK, TypeOK', DropPass, [Next]_vars
    PROVE  DropPass'
<1>0. /\ devices \in Seq(DeviceInfo) /\ Len(devices) \in Nat
      /\ pass.i \in Nat /\ pass.count \in Int
  BY LenProperties DEF TypeOK
<1>1. CASE removeDeviceBySocketIndex
  <2>0. /\ pc = "drop" /\ pass.i > 0 /\ pass.count = Len(devices)
        /\ \A j \in 1 .. pass.i - 1 : devices[j].slot # cutSlot
    BY <1>1 DEF removeDeviceBySocketIndex, DropPass, TypeOK
  <2>1. CASE Looping /\ devices[pass.i].slot = cutSlot
    <3>1. pass.i \in 1 .. Len(devices)
      BY <1>0, <2>0, <2>1 DEF Looping
    <3>2. devices' = RemoveAt(devices, pass.i) /\ SameIndexAgain /\ cutSlot' = cutSlot
      BY <1>1, <2>1 DEF removeDeviceBySocketIndex
    <3>3. \A j \in 1 .. Len(devices) - 1 :
             devices'[j] = IF j < pass.i THEN devices[j] ELSE devices[j + 1]
      BY <1>0, <3>1, <3>2, RemoveAtProperties
    <3>4. pass'.i = pass.i
      BY <3>2 DEF SameIndexAgain, TypeOK
    <3>5. \A j \in 1 .. pass.i - 1 : devices'[j] = devices[j]
      BY <1>0, <3>1, <3>3
    <3>6. QED
      BY <2>0, <3>2, <3>4, <3>5 DEF DropPass
  <2>2. CASE Looping /\ devices[pass.i].slot # cutSlot
    <3>1. NextIndex /\ UNCHANGED <<devices, cutSlot>>
      BY <1>1, <2>2 DEF removeDeviceBySocketIndex
    <3>2. pass'.i = pass.i + 1
      BY <3>1 DEF NextIndex, TypeOK
    <3>3. \A j \in 1 .. pass'.i - 1 : j = pass.i \/ j \in 1 .. pass.i - 1
      BY <1>0, <3>2
    <3>4. QED
      BY <2>0, <2>2, <3>1, <3>3 DEF DropPass
  <2>3. CASE ~ Looping
    BY <1>1, <2>3 DEF removeDeviceBySocketIndex, DropPass
  <2>4. QED
    BY <2>1, <2>2, <2>3
<1>2. ASSUME NEW s \in Slots, CutConnection(s) PROVE DropPass'
  <2>1. pc' = "drop" => pass'.i = 1
    BY <1>2 DEF CutConnection, BeginPass, Idle
  <2>2. QED
    BY <2>1 DEF DropPass
<1>3. ASSUME UNCHANGED <<devices, server>> PROVE DropPass'
  BY <1>3 DEF DropPass, server
<1>4. ASSUME pc' # "drop" PROVE DropPass'
  BY <1>4 DEF DropPass
<1>5. CASE \/ \E b \in Brokers : NewConnection(b)
           \/ \E s \in Slots, d \in Devices : HandleIpRequest(s, d)
           \/ \E s \in Slots : HandleDiscover(s)
           \/ \E s \in Slots, ip \in Ips : HandleForward(s, ip)
           \/ \E s \in Slots, r \in IoTRules : addRule(s, r)
           \/ \E s \in Slots, x \in {r.readId : r \in IoTRules} : handleRulerCommand(s, x)
           \/ RulerStep
           \/ UNCHANGED vars
  <2>1. UNCHANGED <<devices, server>>
    BY <1>5 DEF NewConnection, HandleIpRequest, HandleDiscover, HandleForward, addRule,
       handleRulerCommand, RulerStep, beginScan, testRule, excuteReadRule,
       sendReadRequest, tables, vars
  <2>2. QED
    BY <1>3, <2>1
<1>6. CASE \/ \E s \in Slots, g \in granted : addNewDevice(s, g)
           \/ pushDevice
           \/ noticeReloadDeviceList
  <2>1. pc' # "drop"
    BY <1>6 DEF addNewDevice, pushDevice, noticeReloadDeviceList
  <2>2. QED
    BY <1>4, <2>1
<1>7. QED
  BY <1>1, <1>2, <1>5, <1>6 DEF Next, RulerStep, ServerStep, handlePackage,
     handleManagerPackage, handleRulePackage

\* Inv is inductive: one step per action that touches the table, a connection, an
\* ip or the control state of the server thread.
LEMMA InvStep == Inv /\ [Next]_vars => Inv'
<1> SUFFICES ASSUME Inv, [Next]_vars PROVE Inv'
  OBVIOUS
<1> USE ConstantsAssumption
<1>0. /\ TypeOK /\ TypeOK' /\ DropPass'
      /\ devices \in Seq(DeviceInfo)
      /\ devices' \in Seq(DeviceInfo)
  BY TypeStep, DropPassStep DEF Inv, TypeOK
<1>a. /\ DOMAIN devices = 1 .. Len(devices)
      /\ DOMAIN devices' = 1 .. Len(devices')
      /\ Len(devices) \in Nat
      /\ \A i \in DOMAIN devices : devices[i] \in DeviceInfo
  BY <1>0, LenProperties, ElementOfSeq
<1>b. \A i \in DOMAIN devices : /\ Host[devices[i].dev] \in Brokers
                                /\ Host[devices[i].dev] # None
                                /\ devices[i].slot \in Slots
  BY <1>a DEF DeviceInfo
<1>1. ASSUME NEW b \in Brokers, NewConnection(b) PROVE Inv'
  <2>1. PICK s \in Slots : conn[s] = None /\ conn' = [conn EXCEPT ![s] = b]
    BY <1>1 DEF NewConnection
  <2>2. /\ pc = "select"
        /\ UNCHANGED <<devices, ip_count, granted, pc, cutSlot, newDevice>>
    BY <1>1 DEF NewConnection, Idle, server
  <2>3. LiveEntries'
    BY <1>0, <1>b, <2>1, <2>2 DEF Inv, LiveEntries, TypeOK
  <2>4. QED
    BY <1>0, <2>2, <2>3 DEF Inv, GrantsFresh, EntriesGranted, UniqueIds, CutIsFree
<1>2. ASSUME NEW s \in Slots, CutConnection(s) PROVE Inv'
  <2>1. /\ pc = "select"
        /\ conn' = [conn EXCEPT ![s] = None]
        /\ UNCHANGED <<devices, ip_count, granted, newDevice>>
    BY <1>2 DEF CutConnection, Idle
  <2>2. \/ pc' = "drop" /\ cutSlot' = s
        \/ /\ \A j \in DOMAIN devices : devices[j].slot # s
           /\ UNCHANGED <<pc, cutSlot>>
    <3> DEFINE k == findDeviceIndexBySlot(s)
    <3>1. CASE k > 0
      BY <1>2, <3>1 DEF CutConnection
    <3>2. CASE ~ (k > 0)
      <4>1. k = 0
        BY <1>0, <1>a, <3>2, FindBySlot
      <4>2. \A j \in DOMAIN devices : devices[j].slot # s
        BY <1>0, <1>a, <4>1, FindBySlot
      <4>3. QED
        BY <1>2, <3>2, <4>2 DEF CutConnection
    <3>3. QED
      BY <3>1, <3>2
  <2>3. LiveEntries'
    BY <1>0, <1>b, <2>1, <2>2 DEF Inv, LiveEntries, TypeOK
  <2>4. CutIsFree'
    BY <1>0, <2>1, <2>2 DEF CutIsFree, TypeOK
  <2>5. pc' # "add"
    BY <2>1, <2>2
  <2>6. QED
    BY <1>0, <2>1, <2>3, <2>4, <2>5 DEF Inv, GrantsFresh, EntriesGranted, UniqueIds
<1>3. CASE removeDeviceBySocketIndex
  <2>1. /\ pc = "drop" /\ conn[cutSlot] = None
        /\ pass.i \in Nat /\ pass.i > 0 /\ pass.count = Len(devices)
        /\ UNCHANGED <<conn, ip_count, granted, newDevice>>
    BY <1>3 DEF removeDeviceBySocketIndex, Inv, CutIsFree, TypeOK
  <2>2. CASE Looping /\ devices[pass.i].slot = cutSlot
    <3>1. pass.i \in 1 .. Len(devices)
      BY <1>a, <2>1, <2>2 DEF Looping
    <3>2. devices' = RemoveAt(devices, pass.i) /\ UNCHANGED <<pc, cutSlot>>
      BY <1>3, <2>2 DEF removeDeviceBySocketIndex
    <3>3. /\ \A j \in DOMAIN devices' : \E m \in DOMAIN devices : devices'[j] = devices[m]
          /\ UniqueIds'
      BY <1>0, <3>1, <3>2, EraseDevice DEF Inv
    <3>4. LiveEntries' /\ CutIsFree'
      BY <2>1, <3>2, <3>3 DEF Inv, LiveEntries, CutIsFree
    <3>5. EntriesGranted' /\ GrantsFresh'
      BY <2>1, <3>2, <3>3 DEF Inv, EntriesGranted, GrantsFresh
    <3>6. QED
      BY <1>0, <3>3, <3>4, <3>5 DEF Inv
  <2>3. CASE Looping /\ devices[pass.i].slot # cutSlot
    <3>1. UNCHANGED <<devices, pc, cutSlot>>
      BY <1>3, <2>3 DEF removeDeviceBySocketIndex
    <3>2. QED
      BY <1>0, <2>1, <3>1
         DEF Inv, GrantsFresh, EntriesGranted, UniqueIds, CutIsFree, LiveEntries
  <2>4. CASE ~ Looping
    <3>1. \A j \in DOMAIN devices : j \in 1 .. pass.i - 1
      BY <1>a, <2>1, <2>4 DEF Looping
    <3>2. \A j \in DOMAIN devices : devices[j].slot # cutSlot
      BY <2>1, <3>1 DEF Inv, DropPass
    <3>3. pc' = "reload" /\ UNCHANGED devices
      BY <1>3, <2>4 DEF removeDeviceBySocketIndex
    <3>4. LiveEntries'
      BY <2>1, <3>2, <3>3 DEF Inv, LiveEntries
    <3>5. QED
      BY <1>0, <2>1, <3>3, <3>4
         DEF Inv, GrantsFresh, EntriesGranted, UniqueIds, CutIsFree
  <2>5. QED
    BY <2>2, <2>3, <2>4
<1>4. ASSUME NEW s \in Slots, NEW d \in Devices, HandleIpRequest(s, d) PROVE Inv'
  <2>1. /\ ip_count' = ip_count + 1
        /\ granted' = granted \cup {[ip |-> ip_count, dev |-> d]}
        /\ UNCHANGED <<conn, devices, pc, cutSlot, newDevice>>
    BY <1>4 DEF HandleIpRequest, getNewIoTIP, server
  <2>2. ip_count \in Int /\ \A g \in granted : g.ip \in Int /\ g.ip < ip_count
    BY <1>0 DEF Inv, TypeOK, GrantsFresh, Grant, Ips
  <2>3. GrantsFresh'
    BY <2>1, <2>2 DEF Inv, GrantsFresh
  <2>4. QED
    BY <1>0, <2>1, <2>3 DEF Inv, EntriesGranted, UniqueIds, CutIsFree, LiveEntries
<1>5. ASSUME NEW s \in Slots, NEW g \in granted, addNewDevice(s, g) PROVE Inv'
  <2> DEFINE k == findDeviceIndexByDeviceId(g.dev)
  <2>1. /\ pc = "select" /\ pc' = "add"
        /\ conn[s] = Host[g.dev]
        /\ newDevice' = [ip |-> g.ip, dev |-> g.dev, slot |-> s]
        /\ devices' = IF k > 0 THEN RemoveAt(devices, k) ELSE devices
        /\ UNCHANGED <<conn, ip_count, granted, cutSlot>>
    BY <1>5 DEF addNewDevice, Idle
  <2>2. g = [ip |-> g.ip, dev |-> g.dev]
    BY <1>0 DEF TypeOK, Grant
  <2>3. /\ \A j \in DOMAIN devices' : \E m \in DOMAIN devices :
              devices'[j] = devices[m] /\ devices[m].dev # g.dev
        /\ UniqueIds'
    <3>1. CASE k > 0
      <4>1. k \in 1 .. Len(devices) /\ devices[k].dev = g.dev
        BY <1>0, <1>a, <3>1, FindByDeviceId
      <4>2. devices' = RemoveAt(devices, k)
        BY <2>1, <3>1
      <4>3. /\ \A j \in DOMAIN devices' : \E m \in DOMAIN devices :
                  m # k /\ devices'[j] = devices[m]
            /\ UniqueIds'
        BY <1>0, <4>1, <4>2, EraseDevice DEF Inv
      <4>4. \A m \in DOMAIN devices : m # k => devices[m].dev # g.dev
        BY <1>a, <4>1 DEF Inv, UniqueIds
      <4>5. QED
        BY <4>3, <4>4
    <3>2. CASE ~ (k > 0)
      <4>1. k = 0
        BY <1>0, <1>a, <3>2, FindByDeviceId
      <4>2. \A m \in DOMAIN devices : devices[m].dev # g.dev
        BY <1>0, <1>a, <4>1, FindByDeviceId
      <4>3. devices' = devices
        BY <2>1, <3>2
      <4>4. QED
        BY <4>2, <4>3 DEF Inv, UniqueIds
    <3>3. QED
      BY <3>1, <3>2
  <2>4. LiveEntries' /\ CutIsFree'
    BY <2>1, <2>3 DEF Inv, LiveEntries, CutIsFree
  <2>5. EntriesGranted'
    BY <2>1, <2>2, <2>3 DEF Inv, EntriesGranted
  <2>6. GrantsFresh'
    BY <2>1 DEF Inv, GrantsFresh
  <2>7. QED
    BY <1>0, <2>3, <2>4, <2>5, <2>6 DEF Inv
<1>6. CASE pushDevice
  <2>1. /\ pc = "add" /\ pc' = "reload"
        /\ devices' = Append(devices, newDevice)
        /\ UNCHANGED <<conn, ip_count, granted, cutSlot>>
    BY <1>6 DEF pushDevice
  <2>2. newDevice \in DeviceInfo
    BY <1>0, <2>1 DEF TypeOK
  <2>3. /\ DOMAIN devices' = 1 .. Len(devices) + 1
        /\ \A i \in 1 .. Len(devices) : devices'[i] = devices[i]
        /\ devices'[Len(devices) + 1] = newDevice
    BY <1>0, <1>a, <2>1, <2>2, AppendProperties
  <2>4. \A i \in DOMAIN devices' :
           \/ i \in DOMAIN devices /\ devices'[i] = devices[i]
           \/ i = Len(devices) + 1 /\ devices'[i] = newDevice
    BY <1>a, <2>3
  <2>5. UniqueIds'
    BY <2>1, <2>4 DEF Inv, UniqueIds, EntriesGranted
  <2>6. LiveEntries' /\ CutIsFree'
    BY <2>1, <2>4 DEF Inv, LiveEntries, EntriesGranted, CutIsFree
  <2>7. EntriesGranted' /\ GrantsFresh'
    BY <2>1, <2>4 DEF Inv, EntriesGranted, GrantsFresh
  <2>8. QED
    BY <1>0, <2>5, <2>6, <2>7 DEF Inv
<1>7. CASE noticeReloadDeviceList
  <2>1. pc = "reload" /\ pc' \in {"reload", "select"} /\ UNCHANGED <<tables, cutSlot, newDevice>>
    BY <1>7 DEF noticeReloadDeviceList
  <2>2. QED
    BY <1>0, <2>1 DEF Inv, GrantsFresh, EntriesGranted, UniqueIds, CutIsFree,
                      LiveEntries, tables
<1>8. CASE \/ \E s \in Slots : HandleDiscover(s)
           \/ \E s \in Slots, ip \in Ips : HandleForward(s, ip)
           \/ \E s \in Slots, r \in IoTRules : addRule(s, r)
           \/ \E s \in Slots, x \in {r.readId : r \in IoTRules} : handleRulerCommand(s, x)
           \/ RulerStep
  <2>1. UNCHANGED <<tables, server>>
    BY <1>8 DEF HandleDiscover, HandleForward, addRule, handleRulerCommand, RulerStep,
                beginScan, testRule, excuteReadRule, sendReadRequest
  <2>2. QED
    BY <1>0, <2>1, DeviceFrame
<1>9. CASE UNCHANGED vars
  BY <1>0, <1>9, DeviceFrame DEF vars
<1>10. QED
  BY <1>1, <1>2, <1>3, <1>4, <1>5, <1>6, <1>7, <1>8, <1>9 DEF Next, RulerStep, ServerStep, handlePackage, handleManagerPackage, handleRulePackage

LEMMA InvInit == Init => Inv
<1> SUFFICES ASSUME Init PROVE Inv
  OBVIOUS
<1>1. TypeOK
  BY TypeInit
<1>2. DOMAIN devices = {}
  BY DEF Init
<1>3. QED
  BY <1>1, <1>2 DEF Init, Inv, GrantsFresh, EntriesGranted, UniqueIds, CutIsFree,
     LiveEntries, DropPass

\* Every reachable state satisfies the inductive invariant.
THEOREM Invariant == Spec => []Inv
<1>1. QED
  BY InvInit, InvStep, PTL DEF Spec

\* Ids are unique by Inv; ips are, because entries carry granted ips and no ip is
\* granted to two devices.
LEMMA InvUnique == Inv => UniqueEntries
<1> SUFFICES ASSUME Inv, NEW i \in DOMAIN devices, NEW j \in DOMAIN devices,
                    \/ devices[i].dev = devices[j].dev
                    \/ devices[i].ip = devices[j].ip
             PROVE  i = j
  BY DEF UniqueEntries
<1>1. devices[i].dev = devices[j].dev
  <2> DEFINE g == [ip |-> devices[i].ip, dev |-> devices[i].dev]
             h == [ip |-> devices[j].ip, dev |-> devices[j].dev]
  <2>1. g \in granted /\ h \in granted
    BY DEF Inv, EntriesGranted
  <2>2. g.ip = h.ip => g = h
    BY <2>1 DEF Inv, GrantsFresh
  <2>3. QED
    BY <2>2
<1>2. QED
  BY <1>1 DEF Inv, UniqueIds

\* A device id and an IoT ip each lead to at most one entry of the table.
THEOREM EntriesUnique == Spec => []UniqueEntries
<1>1. QED
  BY Invariant, InvUnique, PTL

\* No entry outlives its connection except while the server thread is removing it:
\* a slot handed to a new peer never carries a device of the old one.
THEOREM EntriesLive == Spec => []LiveEntries
<1>1. Inv => LiveEntries
  BY DEF Inv
<1>2. QED
  BY <1>1, Invariant, PTL

-----------------------------------------------------------------------------
(* The rules.                                                              *)

\* The list keeps its length, its ids and its rules.
KeepsRules ==
    /\ Len(rules') = Len(rules)
    /\ \A j \in 1 .. Len(rules) : /\ rules'[j].id = rules[j].id
                                  /\ rules'[j].rule = rules[j].rule

\* The ruler thread, and a response to a rule, only touch timers and flags.
LEMMA RulerKeepsRules ==
    ASSUME TypeOK, TypeOK',
           testRule \/ excuteReadRule \/ (\E s, x : handleRulerCommand(s, x))
    PROVE  KeepsRules
<1> USE ConstantsAssumption
<1>0. rules \in Seq(RuleInstance) /\ Len(rules) \in Nat /\ scan.i \in Nat
  BY LenProperties DEF TypeOK, ScanState
<1>1. ASSUME UNCHANGED rules PROVE KeepsRules
  BY <1>1 DEF KeepsRules
<1>2. ASSUME NEW i \in 1 .. Len(rules),
             \/ \E w \in Int : rules' = [rules EXCEPT ![i].wait = w]
             \/ \E f \in BOOLEAN : rules' = [rules EXCEPT ![i].waiting = f]
      PROVE  KeepsRules
  BY <1>0, <1>2, TouchRule DEF KeepsRules
<1>3. scan.pc # "sleep" /\ scan.i <= Len(rules) => scan.i \in 1 .. Len(rules)
  BY <1>0 DEF TypeOK
<1>4. CASE testRule
  <2>1. CASE UNCHANGED rules
    BY <1>1, <2>1
  <2>2. CASE ~ UNCHANGED rules
    <3>1. scan.pc # "sleep" /\ scan.i <= Len(rules)
      BY <1>4, <2>2 DEF testRule, Throw
    <3>2. \/ rules' = [rules EXCEPT ![scan.i].wait = rules[scan.i].rule.freq]
          \/ rules' = [rules EXCEPT ![scan.i].wait = rules[scan.i].wait - Tick]
      BY <1>4, <2>2 DEF testRule, Throw
    <3>3. rules[scan.i] \in RuleInstance
      BY <1>0, <1>3, <3>1, ElementOfSeq
    <3>4. rules[scan.i].rule.freq \in Int /\ rules[scan.i].wait - Tick \in Int
      BY <3>3 DEF RuleInstance
    <3>5. QED
      BY <1>2, <1>3, <3>1, <3>2, <3>4
  <2>3. QED
    BY <2>1, <2>2
<1>5. CASE excuteReadRule
  <2>1. CASE UNCHANGED rules
    BY <1>1, <2>1
  <2>2. CASE ~ UNCHANGED rules
    <3>1. scan.pc # "sleep" /\ scan.i <= Len(rules)
      BY <1>5, <2>2 DEF excuteReadRule, Throw
    <3>2. rules' = [rules EXCEPT ![scan.i].waiting = TRUE]
      BY <1>5, <2>2 DEF excuteReadRule, Throw
    <3>3. QED
      BY <1>2, <1>3, <3>1, <3>2
  <2>3. QED
    BY <2>1, <2>2
<1>6. ASSUME NEW s, NEW x, handleRulerCommand(s, x) PROVE KeepsRules
  <2> DEFINE I == {i \in 1 .. Len(rules) : rules[i].waiting /\ rules[i].rule.readId = x}
  <2>1. PICK k : /\ k = (IF I # {} THEN Min(I) ELSE 0)
                 /\ UNCHANGED rules \/ (k # 0 /\ rules' = [rules EXCEPT ![k].waiting = FALSE])
    BY <1>6 DEF handleRulerCommand, SelectInSeq
  <2>2. I \in SUBSET (1 .. Len(rules))
    OBVIOUS
  <2> HIDE DEF I
  <2>3. k \in 0 .. Len(rules)
    BY <1>0, <2>1, <2>2, FirstIndex
  <2>4. k # 0 => k \in 1 .. Len(rules)
    BY <1>0, <2>3
  <2>5. QED
    BY <1>1, <1>2, <2>1, <2>4
<1>7. QED
  BY <1>4, <1>5, <1>6

\* removeRule on the id of the rule at k erases the rule at k, no other.
LEMMA RemoveRuleAt ==
    ASSUME TypeOK, RuleIdsOrdered, NEW k \in 1 .. Len(rules), removeRule(rules[k].id)
    PROVE  rules' = RemoveAt(rules, k)
<1>1. /\ rules \in Seq(RuleInstance) /\ DOMAIN rules = 1 .. Len(rules)
      /\ Len(rules) \in Nat
  BY LenProperties DEF TypeOK
<1>2. \A j \in DOMAIN rules : rules[j].id \in Nat
  <2>1. \A j \in DOMAIN rules : rules[j] \in RuleInstance
    BY <1>1, ElementOfSeq
  <2>2. QED
    BY <2>1 DEF RuleInstance
<1>3. PICK m \in 1 .. Len(rules) :
         rules[m].id = rules[k].id /\ rules' = RemoveAt(rules, m)
  BY <1>1, RemoveRuleProperties
<1>4. m = k
  BY <1>1, <1>2, <1>3 DEF RuleIdsOrdered
<1>5. QED
  BY <1>3, <1>4

\* The loop over the rules leaves none without its two ends behind its index:
\* the rule it removes is the one at the index, and it looks there again.
LEMMA ReloadPassStep ==
    ASSUME RulesInv, TypeOK', [Next]_vars
    PROVE  ReloadPass'
<1>0. /\ TypeOK /\ RuleIdsOrdered
      /\ rules \in Seq(RuleInstance) /\ Len(rules) \in Nat
      /\ pass.i \in Nat /\ pass.count \in Int
  BY LenProperties DEF RulesInv, TypeOK
<1>a. ASSUME pc = "reload", UNCHANGED devices, pass'.i <= Len(rules') + 1,
             \A j \in 1 .. pass'.i - 1 :
                /\ isRegistered(rules'[j].rule.readFrom)
                /\ isRegistered(rules'[j].rule.writeTo)
      PROVE  ReloadPass'
  <2>1. ASSUME NEW j \in 1 .. pass'.i - 1 PROVE HasBothEnds(rules[j])'
    BY <1>a DEF HasBothEnds, isRegistered, findDeviceIndexByIoTIp, SelectInSeq
  <2>2. QED
    BY <1>a, <2>1 DEF ReloadPass
<1>1. CASE noticeReloadDeviceList
  <2>0. /\ pc = "reload" /\ pass.i > 0 /\ pass.count = Len(rules)
        /\ UNCHANGED devices
        /\ \A j \in 1 .. pass.i - 1 : HasBothEnds(rules[j])
    BY <1>1 DEF noticeReloadDeviceList, RulesInv, ReloadPass, TypeOK, tables
  <2>1. CASE Looping /\ ~ HasBothEnds(rules[pass.i])
    <3>1. pass.i \in 1 .. Len(rules)
      BY <1>0, <2>0, <2>1 DEF Looping
    <3>2. removeRule(rules[pass.i].id) /\ SameIndexAgain
      BY <1>1, <2>1 DEF noticeReloadDeviceList
    <3>3. rules' = RemoveAt(rules, pass.i)
      BY <1>0, <3>1, <3>2, RemoveRuleAt
    <3>4. /\ Len(rules') = Len(rules) - 1
          /\ \A j \in 1 .. Len(rules) - 1 :
                rules'[j] = IF j < pass.i THEN rules[j] ELSE rules[j + 1]
      BY <1>0, <3>1, <3>3, RemoveAtProperties
    <3>5. pass'.i = pass.i /\ pass'.i <= Len(rules') + 1
      BY <1>0, <3>1, <3>2, <3>4 DEF SameIndexAgain, TypeOK
    <3>6. \A j \in 1 .. pass.i - 1 : rules'[j] = rules[j]
      BY <1>0, <3>1, <3>4
    <3>7. QED
      BY <1>a, <2>0, <3>5, <3>6 DEF HasBothEnds
  <2>2. CASE Looping /\ HasBothEnds(rules[pass.i])
    <3>1. NextIndex /\ UNCHANGED rules
      BY <1>1, <2>2 DEF noticeReloadDeviceList
    <3>2. pass'.i = pass.i + 1 /\ pass'.i <= Len(rules') + 1
      BY <1>0, <2>0, <2>2, <3>1 DEF NextIndex, TypeOK, Looping
    <3>3. \A j \in 1 .. pass'.i - 1 : j = pass.i \/ j \in 1 .. pass.i - 1
      BY <1>0, <3>2
    <3>4. QED
      BY <1>a, <2>0, <2>2, <3>1, <3>2, <3>3 DEF HasBothEnds
  <2>3. CASE ~ Looping
    BY <1>1, <2>3 DEF noticeReloadDeviceList, ReloadPass
  <2>4. QED
    BY <2>1, <2>2, <2>3
<1>2. CASE (removeDeviceBySocketIndex /\ ~ Looping) \/ pushDevice
  <2>1. pass'.i = 1 /\ UNCHANGED rules
    BY <1>2 DEF removeDeviceBySocketIndex, pushDevice, BeginPass, ruleVars
  <2>2. QED
    BY <1>0, <2>1 DEF ReloadPass
<1>3. ASSUME pc' # "reload" PROVE ReloadPass'
  BY <1>3 DEF ReloadPass
<1>4. CASE \/ removeDeviceBySocketIndex /\ Looping
           \/ \E b \in Brokers : NewConnection(b)
           \/ \E s \in Slots : CutConnection(s)
           \/ \E s \in Slots, d \in Devices : HandleIpRequest(s, d)
           \/ \E s \in Slots, g \in granted : addNewDevice(s, g)
           \/ \E s \in Slots : HandleDiscover(s)
           \/ \E s \in Slots, ip \in Ips : HandleForward(s, ip)
           \/ \E s \in Slots, r \in IoTRules : addRule(s, r)
           \/ \E s \in Slots, x \in {r.readId : r \in IoTRules} : handleRulerCommand(s, x)
  <2>1. pc' # "reload"
    BY <1>4 DEF removeDeviceBySocketIndex, NewConnection, CutConnection, HandleIpRequest,
       addNewDevice, HandleDiscover, HandleForward, addRule, handleRulerCommand, Idle,
       server
  <2>2. QED
    BY <1>3, <2>1
<1>5. CASE RulerStep \/ UNCHANGED vars
  <2>1. UNCHANGED <<devices, server>>
    BY <1>5 DEF RulerStep, beginScan, testRule, excuteReadRule, sendReadRequest, tables,
       vars
  <2>2. Len(rules') = Len(rules)
        /\ \A j \in 1 .. Len(rules) : rules'[j].rule = rules[j].rule
    <3>1. CASE UNCHANGED rules
      BY <3>1
    <3>2. CASE testRule \/ excuteReadRule
      BY <1>0, <3>2, RulerKeepsRules DEF KeepsRules
    <3>3. QED
      BY <1>5, <3>1, <3>2 DEF RulerStep, beginScan, sendReadRequest, Throw, ruleVars, vars
  <2>3. CASE pc = "reload"
    <3>1. /\ pass'.i = pass.i /\ pc' = "reload"
          /\ pass.i <= Len(rules) + 1
          /\ \A j \in 1 .. pass.i - 1 : HasBothEnds(rules[j])
      BY <2>1, <2>3 DEF server, RulesInv, ReloadPass
    <3>2. ASSUME NEW j \in 1 .. pass.i - 1 PROVE rules'[j].rule = rules[j].rule
      <4>1. j \in 1 .. Len(rules)
        BY <1>0, <3>1
      <4>2. QED
        BY <2>2, <4>1
    <3>3. QED
      BY <1>a, <2>1, <2>2, <2>3, <3>1, <3>2 DEF HasBothEnds
  <2>4. CASE pc # "reload"
    BY <1>3, <2>1, <2>4 DEF server
  <2>5. QED
    BY <2>3, <2>4
<1>6. QED
  BY <1>1, <1>2, <1>4, <1>5 DEF Next, ServerStep, handlePackage, handleManagerPackage,
     handleRulePackage

\* RuleIdsOrdered is kept by an append of the next id, by an erase, and by what
\* only touches timers and flags.
LEMMA RulesStep == RulesInv /\ [Next]_vars => RulesInv'
<1> SUFFICES ASSUME RulesInv, [Next]_vars PROVE RulesInv'
  OBVIOUS
<1>0. /\ TypeOK /\ TypeOK' /\ RuleIdsOrdered
      /\ rules \in Seq(RuleInstance) /\ rules' \in Seq(RuleInstance)
      /\ nextRuleId \in Nat
  BY TypeStep, ConstantsAssumption DEF RulesInv, TypeOK
<1>r. ReloadPass'
  BY <1>0, ReloadPassStep
<1>a. /\ DOMAIN rules = 1 .. Len(rules) /\ Len(rules) \in Nat
      /\ DOMAIN rules' = 1 .. Len(rules')
      /\ \A i \in DOMAIN rules : rules[i] \in RuleInstance
  BY <1>0, LenProperties, ElementOfSeq
<1>b. \A i \in DOMAIN rules : rules[i].id \in Nat
  BY <1>a DEF RuleInstance
<1> SUFFICES RuleIdsOrdered'
  BY <1>0, <1>r DEF RulesInv
<1>1. ASSUME NEW s \in Slots, NEW r \in IoTRules, addRule(s, r) PROVE RuleIdsOrdered'
  <2> DEFINE e == [id |-> nextRuleId, rule |-> r, wait |-> 0, waiting |-> FALSE]
  <2>1. rules' = Append(rules, e) /\ nextRuleId' = nextRuleId + 1
    BY <1>1 DEF addRule
  <2>2. e \in RuleInstance
    BY <1>0 DEF RuleInstance
  <2>3. /\ Len(rules') = Len(rules) + 1
        /\ \A i \in 1 .. Len(rules) : rules'[i] = rules[i]
        /\ rules'[Len(rules) + 1] = e
    BY <1>0, <2>1, <2>2, AppendProperties
  <2>4. \A i \in DOMAIN rules' :
           \/ i \in DOMAIN rules /\ rules'[i].id = rules[i].id
           \/ i = Len(rules) + 1 /\ rules'[i].id = nextRuleId
    BY <1>a, <2>3
  <2>5. QED
    BY <1>0, <1>a, <1>b, <2>1, <2>4 DEF RuleIdsOrdered
<1>2. CASE KeepsRules /\ UNCHANGED nextRuleId
  BY <1>0, <1>a, <1>2 DEF KeepsRules, RuleIdsOrdered
<1>3. CASE noticeReloadDeviceList
  <2>1. CASE Looping /\ ~ HasBothEnds(rules[pass.i])
    <3>1. pass.i \in 1 .. Len(rules)
      BY <1>0, <1>3, <2>1 DEF Looping, TypeOK, noticeReloadDeviceList
    <3>2. PICK m \in 1 .. Len(rules) : rules' = RemoveAt(rules, m)
      BY <1>0, <1>3, <2>1, <3>1, RemoveRuleProperties DEF noticeReloadDeviceList
    <3>3. /\ Len(rules') = Len(rules) - 1
          /\ \A j \in 1 .. Len(rules) - 1 :
                rules'[j] = IF j < m THEN rules[j] ELSE rules[j + 1]
      BY <1>0, <3>2, RemoveAtProperties
    <3>4. nextRuleId' = nextRuleId
      BY <1>3 DEF noticeReloadDeviceList
    <3>5. \A j \in DOMAIN rules' :
             LET n == IF j < m THEN j ELSE j + 1
             IN  n \in DOMAIN rules /\ rules'[j] = rules[n]
      BY <1>a, <3>3
    <3>6. ASSUME NEW i \in DOMAIN rules', NEW j \in DOMAIN rules', i < j
          PROVE  rules'[i].id < rules'[j].id
      <4> DEFINE n(l) == IF l < m THEN l ELSE l + 1
      <4>1. i \in Int /\ j \in Int /\ m \in Int
        BY <1>a
      <4>2. n(i) < n(j)
        BY <3>6, <4>1
      <4>3. /\ n(i) \in DOMAIN rules /\ rules'[i] = rules[n(i)]
            /\ n(j) \in DOMAIN rules /\ rules'[j] = rules[n(j)]
        BY <3>5
      <4>4. QED
        BY <1>0, <4>2, <4>3 DEF RuleIdsOrdered
    <3>7. QED
      BY <1>0, <3>4, <3>5, <3>6 DEF RuleIdsOrdered
  <2>2. CASE ~ (Looping /\ ~ HasBothEnds(rules[pass.i]))
    BY <1>0, <1>3, <2>2 DEF noticeReloadDeviceList, RuleIdsOrdered
  <2>3. QED
    BY <2>1, <2>2
<1>4. CASE UNCHANGED ruleVars
  BY <1>0, <1>4 DEF ruleVars, RuleIdsOrdered
<1>5. CASE testRule \/ excuteReadRule \/ (\E s, x : handleRulerCommand(s, x))
  <2>1. KeepsRules
    BY <1>0, <1>5, RulerKeepsRules
  <2>2. UNCHANGED nextRuleId
    BY <1>5 DEF testRule, excuteReadRule, handleRulerCommand
  <2>3. QED
    BY <1>2, <2>1, <2>2
<1>6. CASE \/ \E b \in Brokers : NewConnection(b)
           \/ \E s \in Slots : CutConnection(s)
           \/ removeDeviceBySocketIndex
           \/ \E s \in Slots, d \in Devices : HandleIpRequest(s, d)
           \/ \E s \in Slots, g \in granted : addNewDevice(s, g)
           \/ pushDevice
           \/ \E s \in Slots : HandleDiscover(s)
           \/ \E s \in Slots, ip \in Ips : HandleForward(s, ip)
           \/ beginScan
           \/ sendReadRequest
           \/ UNCHANGED vars
  <2>1. UNCHANGED ruleVars
    BY <1>6 DEF NewConnection, CutConnection, removeDeviceBySocketIndex, HandleIpRequest,
                addNewDevice, pushDevice, HandleDiscover, HandleForward, beginScan,
                sendReadRequest, Throw, ruleVars, vars
  <2>2. QED
    BY <1>4, <2>1
<1>7. QED
  BY <1>1, <1>3, <1>5, <1>6 DEF Next, RulerStep, ServerStep, handlePackage, handleManagerPackage, handleRulePackage

LEMMA RulesInit == Init => RulesInv
<1> SUFFICES ASSUME Init PROVE RulesInv
  OBVIOUS
<1>1. DOMAIN rules = {}
  BY DEF Init
<1>2. QED
  BY <1>1, TypeInit DEF Init, RulesInv, RuleIdsOrdered, ReloadPass

\* Rules are in the order of their ids and no id is used twice, so that erasing by
\* id erases the rule that was meant.
THEOREM RuleIdsCorrect == Spec => []RuleIdsOrdered
<1>1. RulesInv => RuleIdsOrdered
  BY DEF RulesInv
<1>2. QED
  BY <1>1, RulesInit, RulesStep, PTL DEF Spec

-----------------------------------------------------------------------------
(* What a step may never do.                                                *)

\* A step keeps every entry, or it erases one behind the connection being cleaned
\* up, or it is addNewDevice replacing an entry of the same id.
LEMMA OwnEntriesStep ==
    ASSUME Inv, [Next]_vars, NEW i \in DOMAIN devices, Forgotten(devices[i])
    PROVE  \/ pc = "drop" /\ devices[i].slot = cutSlot
           \/ pc = "select" /\ pc' = "add" /\ newDevice'.dev = devices[i].dev
<1>0. /\ devices \in Seq(DeviceInfo)
      /\ DOMAIN devices = 1 .. Len(devices) /\ Len(devices) \in Nat
  BY LenProperties DEF Inv, TypeOK
<1>1. devices' # devices
  BY DEF Forgotten
<1>2. ASSUME NEW k \in 1 .. Len(devices), devices' = RemoveAt(devices, k)
      PROVE  i = k
  <2>1. /\ devices' \in Seq(DeviceInfo)
        /\ Len(devices') = Len(devices) - 1
        /\ \A j \in 1 .. Len(devices) - 1 :
              devices'[j] = IF j < k THEN devices[j] ELSE devices[j + 1]
    BY <1>0, <1>2, RemoveAtProperties
  <2>2. DOMAIN devices' = 1 .. Len(devices) - 1
    BY <2>1, LenProperties
  <2>3. ASSUME i < k PROVE FALSE
    <3>1. i \in DOMAIN devices' /\ devices'[i] = devices[i]
      BY <1>0, <2>1, <2>2, <2>3
    <3>2. QED
      BY <3>1 DEF Forgotten
  <2>4. ASSUME i > k PROVE FALSE
    <3>1. i - 1 \in DOMAIN devices' /\ devices'[i - 1] = devices[i - 1 + 1]
      BY <1>0, <2>1, <2>2, <2>4
    <3>2. i - 1 + 1 = i
      BY <1>0
    <3>3. QED
      BY <3>1, <3>2 DEF Forgotten
  <2>5. QED
    BY <1>0, <2>3, <2>4
<1>3. CASE removeDeviceBySocketIndex
  <2>1. /\ Looping /\ devices[pass.i].slot = cutSlot
        /\ devices' = RemoveAt(devices, pass.i) /\ pc = "drop"
    BY <1>1, <1>3 DEF removeDeviceBySocketIndex
  <2>2. pass.i \in 1 .. Len(devices)
    BY <1>0, <2>1 DEF Looping, Inv, TypeOK
  <2>3. QED
    BY <1>2, <2>1, <2>2
<1>4. ASSUME NEW s \in Slots, NEW g \in granted, addNewDevice(s, g)
      PROVE  pc = "select" /\ pc' = "add" /\ newDevice'.dev = devices[i].dev
  <2> DEFINE k == findDeviceIndexByDeviceId(g.dev)
  <2>1. k > 0 /\ devices' = RemoveAt(devices, k)
    BY <1>1, <1>4 DEF addNewDevice
  <2>2. k \in 1 .. Len(devices) /\ devices[k].dev = g.dev
    BY <1>0, <2>1, FindByDeviceId
  <2>3. i = k
    BY <1>2, <2>1, <2>2
  <2>4. QED
    BY <1>4, <2>2, <2>3 DEF addNewDevice, Idle
<1>5. ASSUME pushDevice PROVE FALSE
  <2>1. newDevice \in DeviceInfo /\ devices' = Append(devices, newDevice)
    BY <1>5 DEF pushDevice, Inv, TypeOK
  <2>2. i \in DOMAIN devices' /\ devices'[i] = devices[i]
    <3>1. /\ devices' \in Seq(DeviceInfo)
          /\ Len(devices') = Len(devices) + 1
          /\ devices'[i] = devices[i]
      BY <1>0, <2>1, AppendProperties
    <3>2. DOMAIN devices' = 1 .. Len(devices')
      BY <3>1, LenProperties
    <3>3. QED
      BY <1>0, <3>1, <3>2
  <2>3. QED
    BY <2>2 DEF Forgotten
<1>6. ASSUME \/ \E b \in Brokers : NewConnection(b)
             \/ \E s \in Slots : CutConnection(s)
             \/ \E s \in Slots, d \in Devices : HandleIpRequest(s, d)
             \/ \E s \in Slots : HandleDiscover(s)
             \/ \E s \in Slots, ip \in Ips : HandleForward(s, ip)
             \/ \E s \in Slots, r \in IoTRules : addRule(s, r)
             \/ \E s \in Slots, x \in {r.readId : r \in IoTRules} : handleRulerCommand(s, x)
             \/ noticeReloadDeviceList
             \/ RulerStep
             \/ UNCHANGED vars
      PROVE  FALSE
  BY <1>1, <1>6 DEF NewConnection, CutConnection, HandleIpRequest, HandleDiscover,
     HandleForward, addRule, handleRulerCommand, noticeReloadDeviceList, RulerStep,
     beginScan, testRule, excuteReadRule, sendReadRequest, tables, vars
<1>7. QED
  BY <1>3, <1>4, <1>5, <1>6 DEF Next, RulerStep, ServerStep, handlePackage, handleManagerPackage, handleRulePackage

\* No registration is lost to another device's registration or to the cut of
\* another connection.
THEOREM RegistrationsKept == Spec => OwnEntriesOnly
<1>1. Inv /\ [Next]_vars =>
        [\A i \in DOMAIN devices :
           Forgotten(devices[i]) =>
             \/ pc = "drop" /\ devices[i].slot = cutSlot
             \/ pc = "select" /\ pc' = "add" /\ newDevice'.dev = devices[i].dev]_vars
  BY OwnEntriesStep
<1>2. QED
  BY <1>1, Invariant, PTL DEF Spec, OwnEntriesOnly

\* When the server thread returns to its loop from a reload, every rule left has
\* both ends: the index has passed all of them, and by ReloadPass it passes a rule
\* only if it has, although the list gets shorter under the loop.
THEOREM ReloadComplete == Spec => ReloadCleans
<1>1. ASSUME RulesInv, [Next]_vars, pc = "reload", pc' = "select",
             NEW i \in DOMAIN rules
      PROVE  HasBothEnds(rules[i])
  <2>0. DOMAIN rules = 1 .. Len(rules) /\ Len(rules) \in Nat
        /\ pass.i \in Nat /\ pass.count = Len(rules)
    BY <1>1, LenProperties DEF RulesInv, TypeOK
  <2>1. noticeReloadDeviceList
    BY <1>1 DEF Next, RulerStep, ServerStep, handlePackage, handleManagerPackage, handleRulePackage,
       Idle, NewConnection, CutConnection, removeDeviceBySocketIndex,
       HandleIpRequest, addNewDevice, pushDevice, HandleDiscover, HandleForward, addRule,
       handleRulerCommand, beginScan, testRule, excuteReadRule, sendReadRequest, vars,
       server
  <2>2. ~ Looping
    BY <1>1, <2>1 DEF noticeReloadDeviceList
  <2>3. i \in 1 .. pass.i - 1
    BY <2>0, <2>2 DEF Looping
  <2>4. QED
    BY <1>1, <2>3 DEF RulesInv, ReloadPass
<1>2. RulesInv /\ [Next]_vars =>
        [pc = "reload" /\ pc' = "select" =>
          \A i \in DOMAIN rules : HasBothEnds(rules[i])]_vars
  BY <1>1
<1>3. QED
  BY <1>2, RulesInit, RulesStep, PTL DEF Spec, ReloadCleans

\* The rule removeRule erases is the one that misses an end, because its id is its
\* own; so a rule whose devices are both registered is never removed.
LEMMA RemovedRuleIsLost ==
    ASSUME RulesInv, [Next]_vars, NEW i \in DOMAIN rules, Removed(i)
    PROVE  ~ HasBothEnds(rules[i])
<1>0. /\ TypeOK /\ TypeOK' /\ RuleIdsOrdered
      /\ rules \in Seq(RuleInstance) /\ rules' \in Seq(RuleInstance)
      /\ DOMAIN rules = 1 .. Len(rules) /\ Len(rules) \in Nat
      /\ DOMAIN rules' = 1 .. Len(rules')
  BY TypeStep, LenProperties DEF RulesInv, TypeOK
<1>1. rules' # rules
  BY DEF Removed
<1>2. ASSUME KeepsRules PROVE FALSE
  BY <1>0, <1>2 DEF KeepsRules, Removed
<1>3. CASE noticeReloadDeviceList
  <2>1. /\ Looping /\ ~ HasBothEnds(rules[pass.i])
        /\ removeRule(rules[pass.i].id)
    BY <1>1, <1>3 DEF noticeReloadDeviceList
  <2> DEFINE m == pass.i
  <2>2. m \in 1 .. Len(rules)
    BY <1>0, <1>3, <2>1 DEF Looping, TypeOK, noticeReloadDeviceList
  <2>3. rules' = RemoveAt(rules, m)
    BY <1>0, <2>1, <2>2, RemoveRuleAt
  <2> HIDE DEF m
  <2>4. /\ Len(rules') = Len(rules) - 1
        /\ \A j \in 1 .. Len(rules) - 1 :
              rules'[j] = IF j < m THEN rules[j] ELSE rules[j + 1]
    BY <1>0, <2>2, <2>3, RemoveAtProperties
  <2>5. ASSUME i < m PROVE FALSE
    <3>1. i \in DOMAIN rules' /\ rules'[i] = rules[i]
      BY <1>0, <2>2, <2>4, <2>5
    <3>2. QED
      BY <3>1 DEF Removed
  <2>6. ASSUME i > m PROVE FALSE
    <3>1. i - 1 \in DOMAIN rules' /\ rules'[i - 1] = rules[i - 1 + 1]
      BY <1>0, <2>2, <2>4, <2>6
    <3>2. i - 1 + 1 = i
      BY <1>0
    <3>3. QED
      BY <3>1, <3>2 DEF Removed
  <2>7. i = m
    BY <1>0, <2>2, <2>5, <2>6
  <2>8. QED
    BY <2>1, <2>7 DEF m
<1>4. ASSUME NEW s \in Slots, NEW r \in IoTRules, addRule(s, r) PROVE FALSE
  <2> DEFINE e == [id |-> nextRuleId, rule |-> r, wait |-> 0, waiting |-> FALSE]
  <2>1. e \in RuleInstance /\ rules' = Append(rules, e)
    BY <1>0, <1>4 DEF addRule, RuleInstance, TypeOK
  <2>2. Len(rules') = Len(rules) + 1 /\ rules'[i] = rules[i]
    BY <1>0, <2>1, AppendProperties
  <2>3. i \in DOMAIN rules'
    BY <1>0, <2>2
  <2>4. QED
    BY <2>2, <2>3 DEF Removed
<1>5. ASSUME testRule \/ excuteReadRule \/ (\E s, x : handleRulerCommand(s, x))
      PROVE  FALSE
  BY <1>0, <1>2, <1>5, RulerKeepsRules
<1>6. ASSUME \/ \E b \in Brokers : NewConnection(b)
             \/ \E s \in Slots : CutConnection(s)
             \/ removeDeviceBySocketIndex
             \/ \E s \in Slots, d \in Devices : HandleIpRequest(s, d)
             \/ \E s \in Slots, g \in granted : addNewDevice(s, g)
             \/ pushDevice
             \/ \E s \in Slots : HandleDiscover(s)
             \/ \E s \in Slots, ip \in Ips : HandleForward(s, ip)
             \/ beginScan
             \/ sendReadRequest
             \/ UNCHANGED vars
      PROVE  FALSE
  BY <1>1, <1>6 DEF NewConnection, CutConnection, removeDeviceBySocketIndex,
     HandleIpRequest, addNewDevice, pushDevice, HandleDiscover, HandleForward, beginScan,
     sendReadRequest, Throw, ruleVars, vars
<1>7. QED
  BY <1>3, <1>4, <1>5, <1>6 DEF Next, RulerStep, ServerStep, handlePackage, handleManagerPackage, handleRulePackage

\* A rule both of whose devices are registered is not removed, whatever else is,
\* and wherever the ruler thread is in its scan.
THEOREM RulesKept == Spec => RulesSurvive
<1>1. RulesInv /\ [Next]_vars =>
        [\A i \in DOMAIN rules : Removed(i) => ~ HasBothEnds(rules[i])]_vars
  BY RemovedRuleIsLost
<1>2. QED
  BY <1>1, RulesInit, RulesStep, PTL DEF Spec, RulesSurvive

-----------------------------------------------------------------------------
(* The device table implements Registry.                                     *)

\* f maps each device to its entry in ds, to n if it is n that is being added, or
\* to None.
Describes(f, p, n, ds) ==
    /\ f = [d \in Devices |-> f[d]]
    /\ \A d \in Devices :
          \/ p = "add" /\ n.dev = d /\ f[d] = n
          \/ /\ ~ (p = "add" /\ n.dev = d)
             /\ \/ \E i \in DOMAIN ds : ds[i].dev = d /\ f[d] = ds[i]
                \/ (\A i \in DOMAIN ds : ds[i].dev # d) /\ f[d] = None

\* The mapping registration is what it is meant to be, before and after a step.
LEMMA RegistrationDescribes ==
    ASSUME NEW p, NEW n, NEW ds \in Seq(DeviceInfo), NEW f,
           f = [d \in Devices |->
                  IF p = "add" /\ n.dev = d THEN n
                  ELSE LET I == {i \in 1 .. Len(ds) : ds[i].dev = d}
                           k == IF I # {} THEN Min(I) ELSE 0
                       IN  IF k = 0 THEN None ELSE ds[k]]
    PROVE  Describes(f, p, n, ds)
<1>1. ASSUME NEW d \in Devices, ~ (p = "add" /\ n.dev = d)
      PROVE  \/ \E i \in DOMAIN ds : ds[i].dev = d /\ f[d] = ds[i]
             \/ (\A i \in DOMAIN ds : ds[i].dev # d) /\ f[d] = None
  <2> DEFINE I == {i \in 1 .. Len(ds) : ds[i].dev = d}
  <2>1. PICK k : /\ k = (IF I # {} THEN Min(I) ELSE 0)
                 /\ f[d] = IF k = 0 THEN None ELSE ds[k]
    BY <1>1
  <2>2. I \in SUBSET (1 .. Len(ds)) /\ Len(ds) \in Nat /\ DOMAIN ds = 1 .. Len(ds)
    BY LenProperties
  <2> HIDE DEF I
  <2>3. k \in 0 .. Len(ds) /\ (k > 0 => k \in I) /\ (k = 0 => I = {})
    BY <2>1, <2>2, FirstIndex
  <2>4. k # 0 => k > 0
    BY <2>2, <2>3
  <2>5. CASE k = 0
    BY <2>1, <2>2, <2>3, <2>5 DEF I
  <2>6. CASE k # 0
    <3>1. k \in I /\ f[d] = ds[k]
      BY <2>1, <2>3, <2>4, <2>6
    <3>2. k \in DOMAIN ds /\ ds[k].dev = d
      BY <2>2, <3>1 DEF I
    <3>3. QED
      BY <3>1, <3>2
  <2>7. QED
    BY <2>5, <2>6
<1>2. ASSUME NEW d \in Devices, p = "add" /\ n.dev = d PROVE f[d] = n
  BY <1>2
<1>3. f = [d \in Devices |-> f[d]]
  OBVIOUS
<1>4. QED
  BY <1>1, <1>2, <1>3 DEF Describes

\* Two mappings that agree on every device are the same.
LEMMA DescribesUnique ==
    ASSUME NEW f, NEW p, NEW n, NEW ds, NEW g, NEW q, NEW m, NEW es,
           Describes(f, p, n, ds), Describes(g, q, m, es),
           \A d \in Devices : f[d] = g[d]
    PROVE  f = g
BY DEF Describes

\* Every step is a step of Registry or leaves what it speaks of alone.
LEMMA RefinementStep == Inv /\ Inv' /\ [Next]_vars => [R!Next]_(R!vars)
<1> SUFFICES ASSUME Inv, Inv', [Next]_vars PROVE [R!Next]_(R!vars)
  OBVIOUS
<1> USE ConstantsAssumption
<1>0. /\ devices \in Seq(DeviceInfo) /\ devices' \in Seq(DeviceInfo)
      /\ DOMAIN devices = 1 .. Len(devices) /\ Len(devices) \in Nat
      /\ \A i \in DOMAIN devices : devices[i] \in DeviceInfo
  BY LenProperties, ElementOfSeq DEF Inv, TypeOK
<1>a. \A i \in DOMAIN devices : /\ devices[i] # None
                                /\ devices[i].dev \in Devices
                                /\ devices[i].ip \in Ips
                                /\ Host[devices[i].dev] # None
  BY <1>0 DEF DeviceInfo
<1>b. Describes(registration, pc, newDevice, devices)
  BY <1>0, RegistrationDescribes DEF registration, findDeviceIndexByDeviceId, SelectInSeq
<1>c. Describes(registration', pc', newDevice', devices')
  BY <1>0, RegistrationDescribes DEF registration, findDeviceIndexByDeviceId, SelectInSeq
<1>d. ASSUME UNCHANGED devices, pc # "add", pc' # "add"
      PROVE  UNCHANGED registration
  BY <1>d DEF registration, findDeviceIndexByDeviceId, SelectInSeq
<1>1. ASSUME NEW b \in Brokers, NewConnection(b) PROVE R!Next
  <2>1. PICK s \in Slots : conn[s] = None /\ conn' = [conn EXCEPT ![s] = b]
    BY <1>1 DEF NewConnection
  <2>2. pc = "select" /\ alive /\ UNCHANGED <<devices, pc, alive>>
    BY <1>1 DEF NewConnection, Idle, server
  <2>3. UNCHANGED registration
    BY <1>d, <2>2
  <2>4. ASSUME NEW d \in Devices, registration[d] # None
        PROVE  registration[d].slot # s
    <3>1. PICK i \in DOMAIN devices : devices[i].dev = d /\ registration[d] = devices[i]
      BY <1>b, <2>2, <2>4 DEF Describes
    <3>2. conn[devices[i].slot] = Host[devices[i].dev]
      BY <2>2 DEF Inv, LiveEntries
    <3>3. QED
      BY <1>a, <2>1, <3>1, <3>2
  <2>5. R!Connect(s, b)
    BY <2>1, <2>2, <2>3, <2>4 DEF R!Connect
  <2>6. QED
    BY <2>5 DEF R!Next
<1>2. ASSUME NEW s \in Slots, CutConnection(s) PROVE R!Next
  <2>1. /\ alive /\ pc = "select" /\ pc' # "add"
        /\ conn[s] # None /\ conn' = [conn EXCEPT ![s] = None]
        /\ UNCHANGED <<devices, alive>>
    BY <1>2 DEF CutConnection, Idle
  <2>2. UNCHANGED registration
    BY <1>d, <2>1
  <2>3. R!Cut(s)
    BY <2>1, <2>2 DEF R!Cut
  <2>4. QED
    BY <2>3 DEF R!Next
<1>3. CASE removeDeviceBySocketIndex
  <2> DEFINE k == pass.i
  <2>1. /\ alive /\ pc = "drop" /\ conn[cutSlot] = None /\ pc' # "add"
        /\ UNCHANGED <<conn, alive>>
    BY <1>3 DEF removeDeviceBySocketIndex, Inv, CutIsFree
  <2>2. CASE Looping /\ devices[k].slot = cutSlot
    <3>1. k \in 1 .. Len(devices) /\ devices[k].slot = cutSlot
      BY <1>0, <2>1, <2>2 DEF Looping, Inv, TypeOK
    <3>2. devices' = RemoveAt(devices, k)
      BY <1>3, <2>2 DEF removeDeviceBySocketIndex
    <3> DEFINE d == devices[k].dev
    <3>3. /\ \A j \in DOMAIN devices' : \E m \in DOMAIN devices :
                 m # k /\ devices'[j] = devices[m]
          /\ \A m \in DOMAIN devices : m # k =>
                 \E j \in DOMAIN devices' : devices'[j] = devices[m]
      BY <1>0, <3>1, <3>2, EraseDevice
    <3>4. registration[d] = devices[k] /\ d \in Devices
      <4>1. k \in DOMAIN devices /\ devices[k].dev \in Devices
        BY <1>0, <1>a, <3>1
      <4>2. \A i \in DOMAIN devices : devices[i].dev = devices[k].dev => i = k
        BY <4>1 DEF Inv, UniqueIds
      <4> HIDE DEF k
      <4>3. QED
        BY <1>b, <2>1, <4>1, <4>2 DEF Describes
    <3>5. registration'[d] = None
      <4>1. \A j \in DOMAIN devices' : devices'[j].dev # d
        BY <1>0, <3>1, <3>3 DEF Inv, UniqueIds
      <4>2. QED
        BY <1>c, <2>1, <3>4, <4>1 DEF Describes
    <3>6. ASSUME NEW e \in Devices, e # d PROVE registration'[e] = registration[e]
      <4>1. CASE \E i \in DOMAIN devices : devices[i].dev = e
        <5>1. PICK i \in DOMAIN devices : devices[i].dev = e
          BY <4>1
        <5>2. registration[e] = devices[i]
          BY <1>b, <2>1, <5>1 DEF Describes, Inv, UniqueIds
        <5>3. PICK j \in DOMAIN devices' : devices'[j] = devices[i]
          BY <3>3, <3>6, <5>1
        <5>4. registration'[e] = devices'[j]
          BY <1>c, <2>1, <5>1, <5>3 DEF Describes, Inv, UniqueIds
        <5>5. QED
          BY <5>2, <5>3, <5>4
      <4>2. CASE \A i \in DOMAIN devices : devices[i].dev # e
        <5>1. \A j \in DOMAIN devices' : devices'[j].dev # e
          BY <3>3, <4>2
        <5>2. QED
          BY <1>b, <1>c, <2>1, <4>2, <5>1 DEF Describes
      <4>3. QED
        BY <4>1, <4>2
    <3>7. registration' = [registration EXCEPT ![d] = None]
      BY <1>b, <1>c, <3>4, <3>5, <3>6 DEF Describes
    <3>8. R!Forget(d)
      BY <1>0, <1>a, <2>1, <3>1, <3>4, <3>7 DEF R!Forget
    <3>9. QED
      BY <3>4, <3>8 DEF R!Next
  <2>3. CASE ~ (Looping /\ devices[k].slot = cutSlot)
    <3>1. UNCHANGED devices
      BY <1>3, <2>3 DEF removeDeviceBySocketIndex
    <3>2. UNCHANGED registration
      BY <1>d, <2>1, <3>1
    <3>3. QED
      BY <2>1, <3>2 DEF R!vars
  <2>4. QED
    BY <2>2, <2>3
<1>4. ASSUME NEW s \in Slots, NEW g \in granted, addNewDevice(s, g) PROVE R!Next
  <2> DEFINE k == findDeviceIndexByDeviceId(g.dev)
             d == g.dev
  <2>1. /\ alive /\ pc = "select" /\ pc' = "add" /\ conn[s] = Host[d]
        /\ newDevice' = [ip |-> g.ip, dev |-> d, slot |-> s]
        /\ devices' = IF k > 0 THEN RemoveAt(devices, k) ELSE devices
        /\ UNCHANGED <<conn, alive>>
    BY <1>4 DEF addNewDevice, Idle
  <2>2. d \in Devices /\ g.ip \in Ips /\ g = [ip |-> g.ip, dev |-> d]
    BY DEF Inv, TypeOK, Grant
  <2>3. /\ \A j \in DOMAIN devices' : \E m \in DOMAIN devices : devices'[j] = devices[m]
        /\ \A m \in DOMAIN devices : devices[m].dev # d =>
              \E j \in DOMAIN devices' : devices'[j] = devices[m]
    <3>1. CASE k > 0
      <4>1. k \in 1 .. Len(devices) /\ devices[k].dev = d
        BY <1>0, <3>1, FindByDeviceId
      <4>2. devices' = RemoveAt(devices, k)
        BY <2>1, <3>1
      <4>3. QED
        BY <1>0, <4>1, <4>2, EraseDevice, ZenonT(60)
    <3>2. CASE ~ (k > 0)
      <4>1. devices' = devices
        BY <2>1, <3>2
      <4>2. QED
        BY <4>1
    <3>3. QED
      BY <3>1, <3>2
  <2>4. registration'[d] = [ip |-> g.ip, dev |-> d, slot |-> s]
    BY <1>c, <2>1, <2>2 DEF Describes
  <2>5. ASSUME NEW e \in Devices, e # d PROVE registration'[e] = registration[e]
    <3>1. ~ (pc' = "add" /\ newDevice'.dev = e)
      BY <2>1, <2>5
    <3>2. CASE \E i \in DOMAIN devices : devices[i].dev = e
      <4>1. PICK i \in DOMAIN devices : devices[i].dev = e
        BY <3>2
      <4>2. registration[e] = devices[i]
        BY <1>b, <2>1, <4>1 DEF Describes, Inv, UniqueIds
      <4>3. PICK j \in DOMAIN devices' : devices'[j] = devices[i]
        BY <2>3, <2>5, <4>1
      <4>4. registration'[e] = devices'[j]
        BY <1>c, <3>1, <4>1, <4>3 DEF Describes, Inv, UniqueIds
      <4>5. QED
        BY <4>2, <4>3, <4>4
    <3>3. CASE \A i \in DOMAIN devices : devices[i].dev # e
      <4>1. \A j \in DOMAIN devices' : devices'[j].dev # e
        BY <2>3, <3>3
      <4>2. QED
        BY <1>b, <1>c, <2>1, <3>1, <3>3, <4>1 DEF Describes
    <3>4. QED
      BY <3>2, <3>3
  <2>6. registration' = [registration EXCEPT ![d] = [ip |-> g.ip, dev |-> d, slot |-> s]]
    BY <1>b, <1>c, <2>2, <2>4, <2>5 DEF Describes
  <2>7. ASSUME NEW e \in Devices \ {d}, registration[e] # None
        PROVE  registration[e].ip # g.ip
    <3>1. PICK i \in DOMAIN devices : devices[i].dev = e /\ registration[e] = devices[i]
      BY <1>b, <2>1, <2>7 DEF Describes
    <3> DEFINE h == [ip |-> devices[i].ip, dev |-> devices[i].dev]
    <3>2. h \in granted
      BY DEF Inv, EntriesGranted
    <3>3. h.ip = g.ip => h = g
      BY <3>2 DEF Inv, GrantsFresh
    <3>4. h.dev # g.dev
      BY <3>1
    <3>5. QED
      BY <3>1, <3>3, <3>4
  <2>8. R!Register(d, g.ip, s)
    BY <2>1, <2>6, <2>7 DEF R!Register
  <2>9. QED
    BY <2>2, <2>8 DEF R!Next
<1>5. CASE pushDevice
  <2>1. /\ pc = "add" /\ pc' = "reload"
        /\ newDevice \in DeviceInfo
        /\ devices' = Append(devices, newDevice)
        /\ UNCHANGED <<conn, alive>>
    BY <1>5 DEF pushDevice, Inv, TypeOK
  <2>2. /\ DOMAIN devices' = 1 .. Len(devices) + 1
        /\ \A i \in 1 .. Len(devices) : devices'[i] = devices[i]
        /\ devices'[Len(devices) + 1] = newDevice
    BY <1>0, <2>1, AppendProperties, LenProperties
  <2>3. ASSUME NEW e \in Devices PROVE registration'[e] = registration[e]
    <3>1. CASE newDevice.dev = e
      <4>1. registration[e] = newDevice
        BY <1>b, <2>1, <3>1 DEF Describes
      <4>2. PICK j \in DOMAIN devices' : devices'[j] = newDevice
        BY <1>0, <2>2
      <4>3. registration'[e] = devices'[j]
        BY <1>c, <2>1, <3>1, <4>2 DEF Describes, Inv, UniqueIds
      <4>4. QED
        BY <4>1, <4>2, <4>3
    <3>2. CASE newDevice.dev # e
      <4>1. CASE \E i \in DOMAIN devices : devices[i].dev = e
        <5>1. PICK i \in DOMAIN devices : devices[i].dev = e
          BY <4>1
        <5>2. registration[e] = devices[i]
          BY <1>b, <3>2, <5>1 DEF Describes, Inv, UniqueIds
        <5>3. i \in DOMAIN devices' /\ devices'[i] = devices[i]
          BY <1>0, <2>2
        <5>4. registration'[e] = devices'[i]
          BY <1>c, <2>1, <5>1, <5>3 DEF Describes, Inv, UniqueIds
        <5>5. QED
          BY <5>2, <5>3, <5>4
      <4>2. CASE \A i \in DOMAIN devices : devices[i].dev # e
        <5>1. \A j \in DOMAIN devices' : devices'[j].dev # e
          BY <1>0, <2>2, <3>2, <4>2
        <5>2. QED
          BY <1>b, <1>c, <2>1, <3>2, <4>2, <5>1 DEF Describes
      <4>3. QED
        BY <4>1, <4>2
    <3>3. QED
      BY <3>1, <3>2
  <2>4. UNCHANGED registration
    BY <1>b, <1>c, <2>3, DescribesUnique
  <2>5. QED
    BY <2>1, <2>4 DEF R!vars
<1>6. CASE noticeReloadDeviceList
  <2>1. /\ pc = "reload" /\ pc' # "add"
        /\ UNCHANGED <<conn, devices, alive>>
    BY <1>6 DEF noticeReloadDeviceList, tables
  <2>2. UNCHANGED registration
    BY <1>d, <2>1
  <2>3. QED
    BY <2>1, <2>2 DEF R!vars
<1>7. CASE \/ \E s \in Slots, d \in Devices : HandleIpRequest(s, d)
           \/ \E s \in Slots : HandleDiscover(s)
           \/ \E s \in Slots, ip \in Ips : HandleForward(s, ip)
           \/ \E s \in Slots, r \in IoTRules : addRule(s, r)
           \/ \E s \in Slots, x \in {r.readId : r \in IoTRules} : handleRulerCommand(s, x)
           \/ RulerStep
           \/ UNCHANGED vars
  <2>1. /\ UNCHANGED <<conn, devices, pc, newDevice>>
        /\ UNCHANGED alive \/ alive' = FALSE
    BY <1>7 DEF HandleIpRequest, HandleDiscover, HandleForward, addRule,
       handleRulerCommand, RulerStep, beginScan, testRule, excuteReadRule,
       sendReadRequest, Throw, tables, server, vars
  <2>2. UNCHANGED registration
    BY <2>1 DEF registration, findDeviceIndexByDeviceId, SelectInSeq
  <2>3. QED
    BY <2>1, <2>2 DEF R!Next, R!Crash, R!vars
<1>8. QED
  BY <1>1, <1>2, <1>3, <1>4, <1>5, <1>6, <1>7 DEF Next, RulerStep, ServerStep, handlePackage, handleManagerPackage, handleRulePackage

\* The table behaves as Registry promises: entries replaced only by the device
\* itself, forgotten only behind a cut connection and before its slot is reused,
\* one device per ip.  That they are forgotten eventually is left to TLC.
THEOREM RegistryImplemented == Spec => RegistrySafety
<1>1. Init => R!Init
  <2> SUFFICES ASSUME Init PROVE R!Init
    OBVIOUS
  <2>1. devices \in Seq(DeviceInfo) /\ DOMAIN devices = {}
    BY EmptySeq DEF Init
  <2>2. Describes(registration, pc, newDevice, devices)
    BY <2>1, RegistrationDescribes DEF registration, findDeviceIndexByDeviceId, SelectInSeq
  <2>3. registration = [d \in Devices |-> None]
    BY <2>1, <2>2 DEF Init, Describes
  <2>4. QED
    BY <2>3 DEF Init, R!Init
<1>2. QED
  BY <1>1, RefinementStep, InvStep, Invariant, PTL DEF Spec, RegistrySafety

-----------------------------------------------------------------------------
(* Delivery.                                                               *)

\* While the server thread is in its loop every entry is live, so what SendTo
\* sends goes to the host of the device it looked up.
LEMMA SendToDelivers ==
    ASSUME Inv, pc = "select", UNCHANGED devices, NEW ip, NEW kind, SendTo(ip, kind),
           sent' # None
    PROVE  \E i \in DOMAIN devices' : /\ devices'[i].ip = sent'.ip
                                      /\ Host[devices'[i].dev] = sent'.to
<1> DEFINE k == findDeviceIndexByIoTIp(ip)
<1>1. devices \in Seq(DeviceInfo) /\ DOMAIN devices = 1 .. Len(devices)
      /\ Len(devices) \in Nat
  BY LenProperties DEF Inv, TypeOK
<1>2. k > 0 /\ Send(devices[k].slot, kind, ip)
  BY DEF SendTo
<1>3. k \in DOMAIN devices /\ devices[k].ip = ip
  BY <1>1, <1>2, FindByIp
<1>4. conn[devices[k].slot] = Host[devices[k].dev]
  BY <1>3 DEF Inv, LiveEntries
<1>5. sent'.to = conn[devices[k].slot] /\ sent'.ip = ip
  BY <1>2 DEF Send
<1>6. QED
  BY <1>3, <1>4, <1>5

\* What the server thread forwards or writes reaches the broker of the addressed
\* device.  (What the ruler thread reads need not: ReadReachesAddressee.)
THEOREM DeliveryCorrect == Spec => []ServerDelivers
<1>1. Inv /\ [Next]_vars /\ ServerDelivers => ServerDelivers'
  <2> SUFFICES ASSUME Inv, [Next]_vars, ServerDelivers,
                      sent' # None, sent'.kind \in {"forward", "write"}
               PROVE  \E i \in DOMAIN devices' : /\ devices'[i].ip = sent'.ip
                                                 /\ Host[devices'[i].dev] = sent'.to
    BY DEF ServerDelivers
  <2>1. ASSUME NEW s \in Slots, NEW ip \in Ips, HandleForward(s, ip)
        PROVE  pc = "select" /\ UNCHANGED devices /\ SendTo(ip, "forward")
    BY <2>1 DEF HandleForward, Idle, tables
  <2>2. ASSUME NEW s \in Slots, NEW x, handleRulerCommand(s, x)
        PROVE  pc = "select" /\ UNCHANGED devices /\ \E ip : SendTo(ip, "write")
    BY <2>2 DEF handleRulerCommand, excuteWriteRule, Idle, tables, Quiet
  <2>3. CASE UNCHANGED vars
    BY <2>3 DEF vars, tables, ServerDelivers
  <2>4. ASSUME \/ \E b \in Brokers : NewConnection(b)
               \/ \E s \in Slots : CutConnection(s)
               \/ removeDeviceBySocketIndex
               \/ \E s \in Slots, g \in granted : addNewDevice(s, g)
               \/ pushDevice
               \/ \E s \in Slots, r \in IoTRules : addRule(s, r)
               \/ noticeReloadDeviceList
               \/ beginScan
               \/ testRule
               \/ excuteReadRule
        PROVE  FALSE
    BY <2>4 DEF NewConnection, CutConnection, removeDeviceBySocketIndex, addNewDevice,
       pushDevice, addRule, noticeReloadDeviceList, beginScan, testRule, excuteReadRule,
       Throw, Quiet
  <2>5. ASSUME NEW s, NEW kind, NEW ip, Send(s, kind, ip), kind \in {"ip", "list", "read"}
        PROVE  FALSE
    BY <2>5 DEF Send
  <2>6. ASSUME \/ \E s \in Slots, d \in Devices : HandleIpRequest(s, d)
               \/ \E s \in Slots : HandleDiscover(s)
               \/ sendReadRequest
        PROVE  FALSE
    BY <2>5, <2>6 DEF HandleIpRequest, HandleDiscover, sendReadRequest, Throw, Quiet
  <2>7. QED
    BY <2>1, <2>2, <2>3, <2>4, <2>6, SendToDelivers DEF Next, RulerStep, ServerStep, handlePackage, handleManagerPackage, handleRulePackage
<1>2. Init => ServerDelivers
  BY DEF Init, ServerDelivers
<1>3. QED
  BY <1>1, <1>2, Invariant, PTL DEF Spec
=============================================================================
