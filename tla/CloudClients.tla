---------------------------- MODULE CloudClients ----------------------------
(***************************************************************************)
(* The two clients of the cloud: the bridge, which carries packages both   *)
(* ways, and the uploader, which subscribes to readings and posts them to  *)
(* a web server.  A process runs one of them: client says which, and the   *)
(* other never leaves its initial state.                                   *)
(***************************************************************************)
EXTENDS CloudBridge

CONSTANTS Devices, Components, Order, subscriptObjs, Tick, MaxIps, MaxQueue, None

VARIABLES
    client,
    ip_count, table, rules, visited, ipOf, todo, fromBroker, toBroker, fromUploader,
    toUploader, pc, allDevices, next, upload                 \* CloudUploader

U == INSTANCE CloudUploader

uploaderVars == <<ip_count, table, rules, visited, ipOf, todo, fromBroker, toBroker, fromUploader,
                  toUploader, pc, allDevices, next, upload>>

CloudInit == client \in {"bridge", "uploader"} /\ Init /\ U!Init

Bridges == client = "bridge"
Uploads == client = "uploader"

Bridge == Bridges /\ Next /\ UNCHANGED <<client, uploaderVars>>
Upload == Uploads /\ U!Next /\ UNCHANGED <<client, vars>>

CloudSpec ==
    /\ CloudInit /\ [][Bridge \/ Upload]_<<client, vars, uploaderVars>>
    \* Fairness, for the client that runs
    /\ WF_vars(Bridges /\ up /\ (Login \/ startListener))
    /\ WF_vars(Bridges /\ keepAliveLoop)
    /\ WF_vars(Bridges /\ up /\ (kill \/ create) /\ cloudUnchanged)
    /\ \A n \in Loops : WF_vars(Bridges /\ managerLoop(n))
    /\ WF_uploaderVars(Uploads /\ (U!addNewDevice \/ U!handleRulerCommand))
    /\ WF_uploaderVars(Uploads /\ (U!commandHandler \/ U!addRule))
    /\ WF_uploaderVars(Uploads /\ U!scanRules)
    /\ WF_uploaderVars(Uploads /\ U!UploaderThread)
    /\ WF_uploaderVars(Uploads /\ U!BrokerThread)

\* What is uploaded as a reading of a component of a device is one (CloudUploader).
RightLabel == U!RightLabel

\* A subscription that stays in force is uploaded again and again (CloudUploader).
KeepsUploading == U!KeepsUploading
=============================================================================
