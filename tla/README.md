# IoTRepublicPlus in TLA+

IoTRepublicPlus is a home gateway. *Brokers* (LoRa, XBee, cloud) bring their
devices onto the network of one *manager* over TCP. The manager hands out IoT
ips, keeps the table of devices, passes packages between them, and runs *rules*
that read a value here and write it there. This directory models the parts
whose correctness depends on threads, order, broken connections and the formats
that carry everything. TLC checks the models on small instances, TLAPS proves
the central results for all.

## The system

| component (`src/IoTRepublicPlus/`) | state | operations | modelled in |
|---|---|---|---|
| `IoT/IoTManager` | `registed_devices`, `ip_count`, `packageBuffer` per slot | handlers of new, cut and readable connections; ip request, registration, discovery, forwarding; reload of the rules | `IoTManager`, `PackageStream` |
| `IoT/Ruler` (base class of the manager) | `rules`, `nextRuleId` | add, remove, scan, response, stop | `IoTManager`, `CloudUploader`, `Lifecycle` |
| `IoT/IoTUtility`, `IoTPackage` | none | put a package together; find, check and take one at the head of a buffer | `Framing`, `PackageCodec` |
| `Network/TcpServer` (base class of the manager) | `clientSockets`, `master`, `fdmax` | select, accept, scan, cut | `TcpServer` |
| `Network/TcpClient` | a socket | connect, send, receive, disconnect | in the modules of its users |
| `Broker/IBroker`, `BrokerController` | `brokerList`, `IsStarted` | start and stop all brokers, ask for an ip | `Lifecycle` |
| `Broker/LoRaBroker` | `LoRaDevices`, `nowScanning`, the serial port | scan and rescan, join, check alive, register, forward | `LoRaBroker`, `Lifecycle` |
| `Broker/XBeeBroker_ApiMode` | `xbeeDevices` by 64-bit address, `nowScanning`, the serial port | discover, check alive, describe, register, forward, rescan | `XBeeBroker` |
| `Broker/XBee` (library) | position, escape, sum of the frame that is read | parse frames, send requests | `XBeeWire`, `XBeeFrames`, `XBeeRequests` |
| `Broker/CloudBridge` | `socketToManager`, `mutexLock`, three threads, two connections | log in, bridge both ways, keep alive, reconnect, stop | `CloudBridge` |
| `Broker/CloudUploader`, `FakeBroker` | snapshot of the devices, subscriptions | register, subscribe, upload; answer reads | `CloudUploader` |
| `Utility/thread` | threads, mutexes | create, stop, kill, lock | `CloudBridge`, `Lifecycle` |
| `main`, `IoT/BrocastServer`, `Network/UdpServer` | the servers and the brokers | start, stop, answer broadcasts | `Lifecycle` |
| `Utility/JsonUtility`, `IoTCommand`, `IoTRule`, `IoTDevice`, `IoTComponent` | none | make and read JSON documents | `IoTDocuments` |
| jansson | values with reference counts, the hash seed | load, dump, objects, arrays, strings | the `Json*` modules |
| `jansson/pack_unpack`, curl headers, rs232, files | | not called, or wrappers of the system | no |

How they interact. `IoTManager` *is* a `TcpServer` and a `Ruler`. The thread of
`TcpServer::server_loop` calls the virtual handlers `Event_ReceivedData` and
`Event_ConnectionDenied`, in which all of the manager's work is done; the
thread of `Ruler::mainLoop` wakes up every second, scans `rules` and sends read
requests. Both use `rules`, `registed_devices` and `clientSockets`, and **no
lock exists**. A broker connects to the manager with two or more connections:
`IBroker::askIoTIp` opens one per ip it asks for and closes it again, another
one carries the packages of its devices. Brokers run in the same process as the
manager and share its file descriptors, its heap, and jansson's hash seed.

What is hard here: threads without locks, ended from outside; the device table,
which is addressed by position, by device id, by ip and by slot, while
connections come and go; TCP's freedom to cut a stream anywhere, and connections
that break off within a package; serial lines that lose bytes; descriptors that
are reused; lengths that count their own digits or do not fit a byte; error
paths on which memory is owed to somebody; exceptions that nobody catches.

## The models

**`IoTManager`** has both threads. `devices`, `rules`, `ip_count`, `nextRuleId` are the
C++ members, `conn` is `clientSockets` with the peer in place of the socket, `granted`
records which device an ip was given to (known to the brokers, who use it). A handler of
the server thread is one action up to its first change of a vector the ruler thread
reads; from there each `erase` and `push_back` is its own action (`pc` = `drop`, `add`,
`reload`). The two loops that erase walk by an index over a size they read before
(`pass`), one action for each index; after an erase they go back by one
(`SameIndexAgain`: the size-- and i-- of the code). The ruler thread (`scan`)
interleaves at every `rules.at(i)` and between looking a device up and using the index.
`Throw` is an `out_of_range` nobody catches: the process ends. `sent` is the message the
last step sent.

**`Registry`** is what the device table promises: at most one registration per
device, made over a connection of its broker, forgotten only after that
connection was cut and before its slot is given away. `IoTManager` implements
it under the mapping `registration`.

**`Framing`** and **`PackageStream`** take the bytes of one or more connections
to packages. A package is cut into cells, the places between which a partial
read makes a difference to `isValidPackage`; `Inspect` is that function, its
tests in order. `PackageStream` has the clients, the wire, the buffer of every
slot, and the loop of `handlePackage`, one package per action. Buffers survive
their connection, as in the code.

**`PackageCodec`** has the bytes themselves: the four constructors of
`IoTPackage`, `PacketToSendingVector`, and `GetCompletedPackage` with all it
calls. Bytes are summed unsigned by the sender and signed by the receiver, and
folded to 16 bits. `headerLength` counts its own digits, one too few where their
number changes (`Miscounted`). One byte may change on the way; `struck` notes
whether it stands before the end of the two lengths (`Structural`).

**`TcpServer`** is the select loop on descriptors: lowest first, reused, shared with
other threads of the process; `select`, `accept` and one action per slot of the scan.
Connections may break (`Reset`), in the backlog too. `Windows` tells the platforms
apart: there select ignores its first argument, an `fd_set` may be full (`FdSet` then
does nothing), and a socket is unsigned, so that a failing `accept` is stored as a
connection (`acceptInvalid`) and makes the next select fail (`selectFails`); elsewhere
it ends the thread at once (`acceptFails`). **`ConnectionTable`** is the table of
connections it promises, which `IoTManager` and `PackageStream` build on
(`NewConnection`, `CutConnection`, `ReceivedData`): a slot is given up after the last of
what an orderly closed connection sent, or any time after it broke; a connection may be
refused, or a slot lost for good (`Lost`).

**`LoRaBroker`** has the main loop (`serverLoop`) and the scan (`ScanAllDevice`), which
a "rescan" command runs in a thread of its own: both use one serial port and
`LoRaDevices` without a lock. `port` is what the port holds; who polls first gets it.
Every write to the port, every wait for an answer, every erase is its own action; loops
over nodes and retries are the locals in `scan`. The LoRa module, the nodes (which may
die) and the manager are external. A node makes its replies in its own time (`making`),
and the module answers an enquiry with what the node has `left` by then. The waits of
the code are fixed times (5 seconds and more): they end with the answer, or with the
time (`waited`, `received`), and in `MaxLate` of them the time is too short, for the
module or for the node. What was asked stays `asked` when nobody waits for it any more.
`sendAtCommand` first takes all that comes in 200 ms for the outcome of the command; a
`JoinOK` that came so early would be lost, and the model assumes that joining a node
takes longer.

**`XBeeBroker`** has the same two threads on the port of an XBee module. The
module confirms (tx) what it is given and delivers what nodes answer (rx); the
code awaits "two frames", or a confirmation followed by a frame with start and
end code, and looks at no number and no sender. `getResponse` runs in both
threads (`taken`, `ends`), its locals being in `scan.got` and `main.got`. `air`
is what is under way: frames may be late (a time-out passes before one came) or
lost. Both count as `faults`, and the properties say under which of them they
hold. The two places where the code's data can break its own assumptions,
`erase` on an empty vector and `at(size() - 2)`, end the process or do not (`up`).

**`XBeeWire`**, **`XBeeFrames`** and **`XBeeRequests`** are the library below it: how a
frame is written; how `readPacket` reads the module's frames byte by byte from a line
that loses or changes some (`struck` notes whether it was a length, an escape or the
byte after one), and what the getters cut out of a response, those of kinds the broker
does not ask for too; and the requests the driver sends, whose lengths are `uint8_t`.
The module that reads a request is external: it takes a frame whose length and sum
agree.

**`CloudBridge`** has the three threads of the bridge and the one that calls `Login`,
`Start` and `Stop`. The n-th `managerLoop` and the connection it makes are both called
n. "discon" is three steps (`disconnect`, `kill`, `create`), between which everything
else may happen; a thread that is killed may own the mutex, which Windows then hands on
(`Abandon`), or the lock of the process heap or of `cout`, which nobody gives back
(`heapLock`, `coutLock`, `orphaned`): `managerLoop` allocates, frees and prints for what
it receives, `cloudLoop` does when it passes a package on or reconnects. After `Stop`,
nothing is claimed. `KillStops` tells Windows, where `Thread_kill` kills, from Linux,
where it does nothing. A package of the cloud that comes before `socketToManager` was
assigned uses a wild pointer: the model ends there (`up`), and nothing is claimed for
what follows.

**`CloudUploader`** is a composition: the uploader's thread, the manager with its
ruler, and a broker as `FakeBroker`, over queues of packages. The uploader takes
the device table once and labels by that snapshot whatever is sent to it later.
**`CloudClients`** has the bridge and the uploader, of which a process runs one.

**`Lifecycle`** is `main`: it starts the broadcast server, the manager, its ruler
and the brokers, waits for a key, and stops them. Registration goes through the
server's slots, one connection for each `askIoTIp`, which waits without a
time-out. A step that allocates holds the lock of the process heap (`heapLock`); a
thread that is terminated there never gives it back (`orphaned`). `freed` are the
rules `StopRuler` has deleted, `fault` is the first thing that went wrong with
them or with an index.

**The JSON modules** follow jansson's own division. `JsonTable` has the hashtable
of an object with its buckets in one list, and the seed all threads share; it
implements the ordered map **`JsonObjects`**. `JsonHeap` has reference counts and
the functions that take over references. `JsonValues` names the parameters of both
for `MCFormats` and the proofs and states `CountsExact` and `ObjectsAreMaps`. A table
starts with `InitialSize` buckets and doubles them (8 in the code, 2 in the run, any
number in the proof). `JsonParse` has the recursive descent,
`JsonLex` the scanner below it, `JsonDump` the printer into a growing buffer,
`JsonStrings` UTF-8 and escapes. **`JsonGrammar`** says what a text means, and
both `JsonParse` and `JsonDump` are held against it. Memory may run out wherever
it is asked for, except where the scanner saves the text of a token, a failure the code
does not look at. A real number is refused when it is out of range (`Overflows`); its
value is not modelled. **`IoTDocuments`** is what the program makes of all this:
commands, rules and descriptions, filled in by `SetValueInFirstObject` and read
field by field.

`MC*` modules name model values and instances for TLC. `MCFormats` and `CloudClients`
put machines that have nothing to say to each other side by side, one of which (`part`,
`client`) runs in a behaviour; `MCTcpServer` does so with the two platforms. `InSession`
keeps what need not come together apart. Definitions marked *Mutant* are the faulty
variants that show each property can fail.

## The runs

| run | instance | shows |
|---|---|---|
| `Manager_table` | 2 slots, 2 brokers; 3 devices (two behind one broker) and 3 ips, or 2 devices, 2 ips and 2 installations of 2 rules | `UniqueEntries`, `LiveEntries`, `OwnEntriesOnly`, that the table implements `Registry` with its fairness; `ServerDelivers`, `ReloadCleans`, `RulesSurvive`, `RulesExecuted` |
| `Manager_stale_index` | 2 devices, 2 ips, 1 rule | violation: `ReadReachesAddressee` |
| `Stream_pieces` | 2 connections in 1 slot, 2 packages each, recv of up to 6 cells | `HandledWasSent`, `AllHandled` |
| `Formats` | see below | one property for each format |
| `Package_length` | the packages of `Formats` | violation: `LengthsAddUp` |
| `Tcp_table` | 3 connections (or 2 and a descriptor of another thread), 2 slots, 3 descriptors; Windows, with room for one of them in an `fd_set`, and Linux | `TableSound`, `RecvNeverBlocks`, `ConnectionTable`; on Windows `ServesAll` |
| `Tcp_linux` | 2 connections, 2 slots, select as on Linux | violation: `Served` |
| `LoRa_rescan` | 2 end nodes, 2 tries; 1 rescan, 1 command and 1 wait too short, or 2 commands and 2 such waits | `ListedNodesFound`, `AnswersTrue`, `DeadNodesGone`, `ScanEnds` |
| `LoRa_lost_node` | 1 command, 3 tries as in the code | violation: `AnsweringNodesKept` |
| `XBee_scan` | 2 nodes, 1 rescan, and 2 of: command, late or lost frame, wrong check sum, departure | `RightNode`, `CommandsAnswered`, `SoundNodesFound`, `AsksBounded` |
| `Cloud_clients` | bridge: 2 "discon", 2 packages of the cloud, 2 cells per connection; uploader: 2 devices, 3 components | `ToCloudInOrder`, `PatientSessionsSeparate`, `StopStops`, `BridgeGoesOn`; `RightLabel`, `KeepsUploading` |
| `Lifecycle` | 4 slots, a broker with 2 devices, a peer with 1 rule | `FreedRulesUnused`, `MainGoesOn`, `BrokersRegister` |

`Formats` in parts: two packages with lengths around the changes of the number of
digits, one with a byte from 128 on, one byte changed, and packages where that, or a
miscounted header, has the checksum found right in the wrong place (`ReceivedWasSent`); three
frames with bytes to escape, the second of any kind or one whose sum is right for another
length too, one byte lost or changed, and
requests with payloads around
242 and 256 bytes (`HandedWasSent`); three colliding keys in a table of two buckets,
two seeds, two threads (`ObjectsAreMaps`); three values that may contain each other
(`CountsExact`); texts of up to seven tokens (`LoadsExactly`), of up to eight
characters (`ScansTokens`); all values of two nodes, circular ones too
(`DumpsExactly`); strings of up to four bytes at the limits of every class
(`StringsSurvive`); every document with two texts and two numbers (`DocumentsArrive`).

Why the bounds are enough. Two slots let one slot be reused while the other is in use;
with three devices one cut takes two entries, and the ruler's index can shift by one or
run out. Three ips let a device return under a new one. Two rules are one to be erased
and one to shift. Longer rows of the same things add no new order of events. Six cells
are a whole package with data, so that a recv may return less than a package, one, or
the end of one and the beginning of the next. Two nodes are one to be erased and one to
shift, and after the rescan four entries; two commands, and two waits too short, let the
second find the response of the first, and let both the node and the module be late; two
tries are a first and a last. In `XBee_scan` any two kinds of trouble meet in one scan
or in two; one failed read ends the discovery (six in the code), which only makes it
shorter. Two "discon" are one that finds the connection of the first session and one
that may find none; two cells are one to be received and one left behind. Three
descriptors for three connections run out, as they do for two and a foreign one; two
slots for three connections are too few, and of two connections stored one does not fit
into the `fd_set`. Four slots in `Lifecycle` are just what `LifecycleAssumption` asks
for: the broker, the peer, an `askIoTIp`, and the one before it, whose end the server
has not yet seen. Two buckets and three keys give an empty bucket, a crowded one and a
rehash; three values give a cycle with something hanging on it; seven tokens are a value
in an array in an object; eight characters hold a number with fraction and exponent, or
a surrogate pair; four bytes are the longest form of UTF-8.

The counters that would grow for ever are bounded by the constants marked *bound*
where they are declared.

Fairness. `IoTManager`: weak fairness of each thread, both being preemptively scheduled
and taking no lock; peers need do nothing. `PackageStream`: weak fairness of
`handlePackage`, a loop that runs to its end, and strong fairness of reading each slot,
which `TcpServer` justifies (`ServesAll`) on Windows for the connections that `select`
is asked about. `TcpServer`: weak fairness of the server thread. `LoRaBroker`: weak
fairness of both threads, of the module and of the nodes. `CloudBridge`: weak fairness
of every thread; neither the cloud nor the manager need send anything, and nobody need
call `Stop`. The mutex is free again and again because the manager sends a bounded
number of cells over a connection: without that bound `keepAliveLoop` could be passed by
for ever, as no order of waiting threads is promised. `CloudUploader`: weak fairness of
each thread; the subscriptions must stay in force, others may register or not.
`Lifecycle`: weak fairness of main and the threads, strong of the server thread, which
shares the heap's lock with the others and gets it when it is free often enough.
`XBeeBroker` needs no fairness: in place of "the scan ends" it is checked that a node is
asked at most `maxReTryTimes + faults` times (`AsksBounded`). Deadlock checking is off
where the program may stop: an exception ended it, all clients have come and gone, or a
format's input is at its end.

What the code needs from its surroundings is stated as an assumption or in the
property: `UploaderAssumption` (no two devices share a component id that is
subscribed to: a response is matched by that id alone), `LifecycleAssumption` (slots,
as above), `prompt` in `BrokersRegister` (the listener is up when main's sleep of
100 ms ends), a cloud that waits in `PatientSessionsSeparate`, a thread that is not
killed inside the heap or `cout` in `BridgeGoesOn` (`orphaned`),
connections that are in `master` (`Followed`) and a server thread that has not ended in
`ServesAll`, a join that is answered in time in `DeadNodesGone` (`joinLate`), a byte
that is not of the structure in `ReceivedWasSent` and `HandedWasSent` (`struck`). The
code ensures none of these; the models contain what happens without them.

### What the violations show

* `Manager_stale_index`: `excuteReadRule` finds an index at line 433 and uses
  it at 436. If the server thread erases an entry between the two, the request
  goes to the broker of another device (or the process ends).
* `LoRa_lost_node`: packages that follow "rescan" in one receive, or come before
  the new thread has set `nowScanning`, are handled during the scan. The response
  of a node then gets into the buffer of `checkAlive`, which keeps it over its
  retries (line 639) and looks at its beginning only: the node that answers every
  time is erased. `AnswersTrue` is about commands handled while no scan runs (`alone`):
  during one, a response is passed on under a later command's id.
* `Tcp_linux`: `fdmax` is set to the newest socket, not to the highest one.
* `Package_length`: the thresholds of `headerLength` (IoTPackage.h:120-131) are one off.
  97 bytes before it make 100, written with three digits where two were counted (and 8
  make 10): the package is a byte longer than its lengths and the checksum, and the
  receiver refuses it, or takes it with the last NUL of the header as data
  (`MiscountedLost`).

### What else the models say of the code

* `packageBuffer` is not cleared when a connection goes (IoTManager.cpp:474). A
  broken-off header is completed by the next connection's version word, `std::stoi`
  throws, and the process ends; or the first package of that connection is lost.
* Two "discon" faster than a connection is made: `reconnectToManager` closes the
  old connection twice and kills the thread that has just made the new one, which
  stays open. With `KillStops = FALSE` (Linux) the old loop lives on beside the new
  one, and `ToCloudInOrder` and `StopStops` fail.
* A package with a byte from 128 on never passes the checksum.
* The checksum of a package protects neither of its lengths: a changed digit moves the
  place where it is looked for. The sum of an XBee frame begins at the api id, so a
  changed length byte goes unnoticed if the sum comes out right for it.
* On Windows an `fd_set` has room for 64 sockets by default, the manager has 500 slots:
  a connection beyond keeps its slot, and neither its data nor its end is ever seen. A
  failing `accept` is stored as a connection there, `select` fails from then on, and the
  thread that serves everybody ends.
* A connection accepted when no slot is left stays open in nobody's hands.
* A node that answers later than `loraResponseWaitTimeout` has its answer passed on under
  the next command's id; a late answer of the module, under a command for another node.
* A "discon" may kill `managerLoop` inside the heap or `cout`: cloudLoop, and with it the
  bridge, then stands still.
* `sendData` turns the length of a package into a `uint8_t`: from 242 bytes on, its
  end is cut off or nothing arrives, without notice.
* `StopRuler` deletes the rules while the server thread still runs: until
  `StopManager` that thread may read one. The other threads cannot.
* A rule that goes between `rules.size()` and `rules.at(i)` makes `StopRuler` throw;
  it takes a broker that `StopAllBroker` cut off shortly before.
* A thread terminated while it allocates leaves the heap locked; main then never
  comes to its end.
* A broker asks for ips without a time-out: with fewer than two slots to spare it
  may wait for ever.
* `SetValueInFirstObject` never gives back its string, and `delete root` gives back
  the root only: `CountsExact` counts what is lost (`lost`).

## The proofs

Every theorem holds for all values of the constants that satisfy the module's
assumption (`ConstantsAssumption`, `TcpServerAssumption`, ...), whose conjuncts are the
types of the constants, that the heap has finitely many cells and keys
(`ValuesAssumption`), and that the values for "nobody" (`None`, `Other`, `Free`) are no
client, no slot, no JSON value and no key, that 0 is no seed, and that a hash table has at
least one bucket to begin with; `CloudProofs` and `ObjectsImplementMaps` also have the
hypotheses named below.

| module | theorems | states |
|---|---|---|
| `IoTManagerProofs` | `TypeCorrect`, `EntriesUnique`, `EntriesLive`, `RuleIdsCorrect`, `DeliveryCorrect` | invariants of the device table and the rules |
| | `RegistrationsKept`, `ReloadComplete`, `RulesKept` | action properties |
| | `RegistryImplemented` | the refinement of `Registry`, its safety half |
| `TcpServerProofs` | `TableCorrect`, `RecvPrompt` | `TableSound`, `RecvNeverBlocks` |
| | `TableImplemented` | the refinement of `ConnectionTable` |
| `PackageStreamProofs` | `HandledCorrect` | `HandledWasSent` |
| `LoRaBrokerProofs` | `ManagerFindsNodes`, `DeadNodesErased`, `ResponsesMatch` | `ListedNodesFound`, `DeadNodesGone`, `AnswersTrue` |
| `XBeeBrokerProofs` | `ManagerRightNode`, `RightAnswers`, `ScanFindsSound`, `AskingBounded` | `RightNode`, `CommandsAnswered`, `SoundNodesFound`, `AsksBounded` |
| `CloudProofs` | `ToCloudOrdered`, `SessionsSeparated`, `StopComplete` | `ToCloudInOrder`, `PatientSessionsSeparate`, `StopStops` |
| | `LabelsRight` | `RightLabel` of `CloudUploader` |
| `MemoryProofs` | `FreedRulesNeverRead` | `FreedRulesUnused` of `Lifecycle` |
| | `ReferencesCounted` | `CountsExact` of `JsonHeap` |
| | `ObjectsImplementMaps` | the refinement of `JsonObjects` by `JsonTable`, `ObjectsAreMaps` |

`SequenceLemmas` has what the proofs use of the vectors of the program: the index a
search finds, what `erase` and `push_back` leave, a queue without repetitions.

### The arguments

**Manager.** `LiveEntries` and `UniqueEntries` are not inductive: a registration that is
under way (`newDevice`) and the ips handed out have to be known too. `Inv` adds
`GrantsFresh` (no ip was granted twice, none is at or above `ip_count`),
`EntriesGranted` (every entry, and the one being added, is made from a grant, and the
one being added has no other entry and a live connection), `UniqueIds`, `CutIsFree` and
`DropPass` (behind the index of the loop over the devices none of the slot is left, so
that none is when it ends). `UniqueEntries` follows: entries with one ip come from one
grant, so they are one device. Rules need `RuleIdsOrdered`, because the ruler thread
never changes an id, and `ReloadPass`: behind the index of the loop there are only rules
to keep, after each step of it, because an erase leaves the index where it is. At the
end that is all of them (`ReloadComplete`).

**Select loop.** `TableSound` alone does not survive the scan: a slot that is cut closes
a descriptor, and the reports of `select` about later slots must still be true.
`OneSocketEach` (a client has one descriptor at most) and `Waiting` (it has none while
it is in the backlog, where it stands once) make them so (`Reported`). `RecvNeverBlocks`
is a consequence of `Reported`. `INVALID_SOCKET` is no descriptor, is never reported and
is only stored on Windows; a slot that holds it is lost (`Invalid`). The refinement maps
a client to the slot that holds its descriptor; closing, receiving and accepting are the
steps of `ConnectionTable`, `select` and the walk over idle slots are stutters.

**Streams.** The invariant speaks of the *stream* of a connection, its slot's buffer
followed by its wire, so that receiving changes nothing. The cells of a client
in it are the last ones and follow one another as they were cut (`Chain`); the packages
before them were handled or, where another connection left bytes, lost (`Fits`).
`Heads` is what keeps connections apart: outside of `handlePackage` no buffer has a
whole package at its head, so that none is ever made of the cells of a connection that
has gone. It needs both directions of `Inspect`: it finds a package only where a whole
one stands (`ValidHead`) and finds it wherever one does (`HeadValid`). A connection that
found its buffer empty never meets a data error (`CleanHead`), and so loses nothing.

**LoRa broker.** The entries that a scan has passed are registered (`Registered`), the
nodes that were gone are not among them (`Kept`), for no join is ever confirmed for such
a node (`Joins`) unless one was answered late (`joinLate`). At most one "rescan" is on
its way or at work (`OneRescan`): that the scan of `Start` has ended before. A command
is handled `alone` if no scan runs and the module owes no answer when the enquiry is
written: then what comes to the port was left by the node the broker has asked, as what
a node makes and leaves is its own (`Owed`); and if that node owed nothing when it got
the command (`afresh`), it can only be the response (`Alone`). How late node and module
are does not matter for either.

**XBee broker.** That no node is listed twice and no ip stands for two needs only that
an ip given out is new to everybody (`Ips`), and holds whatever is late or lost. The
rest is implied by *no trouble* (`Untroubled => Sure`), and trouble does not end, so the
step may assume that there was none (`UntroubledBefore`). `Alone` then says that the
thread which has asked is the only one at the port, and what stands there and is under
way is one exchange, seen at one of its stages: the request, the confirmation, the
answer (`Asked`, `Told`, and with what getResponse has counted, `Exchange`). These are
operators on values; that the module's steps and the reading go from stage to stage
(`ExchangeMoves`, `ExchangeRead`) is proved once for the three requests. `Finding` is
what a scan owes the sound nodes: each has its answer to ND at hand or is in the list,
and those the scan has passed have an ip of this scan. `OneRescan`, as for LoRa, keeps
the scan of `Start` and a rescan apart. TLC checked this invariant on the instance of
`XBee_scan` before it was proved.

`AsksBounded` needs what happens under trouble too. The times a node was asked and not
counted (`Uncounted`) are time-outs, and each of them costs a fault: its own, or an
earlier one by which a frame was lost or came too late. `Budget` therefore says of a scan
in askDeviceDescription that `Uncounted` is at most `faults`, and that when the two are
equal nothing has gone wrong that was not paid for (`NoneMissing`): besides descriptions
there is only the DES on its way or its confirmation, and where the scan waits for a
description one is at hand, so that no time-out is free. A fault makes `faults` larger
and ends the equality, or is the time-out and raises both. A node that says ACK is asked
first with nothing uncounted; if there was no fault until then, that the port is quiet
comes from `Sure`.

**Cloud bridge.** One `managerLoop` lives at a time: those before it are dead
(`OneLoop`), because `Thread_kill` kills. Hence the hypothesis `KillStops` of the three
theorems: it holds on Windows. On Linux `Thread_kill` does nothing, the run fails with
`KillStops = FALSE`, and nothing is claimed. The cells that reach the cloud ascend by
connection and within one; the mutex is held by the thread that sends, or was abandoned
by a dead one. Which locks a dead thread keeps changes none of this (`Runtime`).

**Uploader.** `UploaderAssumption` is the hypothesis; of it the proof needs most that
no two devices share a component id that is subscribed to. An ip is granted once, so
the table, what is on its way to it and the answer the uploader keeps name one device by
one ip (`IpsOnce`). Nothing is asked for before that answer has come, and it does not
change afterwards (`Stages`). What an answer is matched by, the component id, is the
same for every device; but all rules, reads and values for one id come from the one ip
the uploader subscribed with (`ComFromOne`, `OneSubscription`), whatever the manager has
registered since. So the label the uploader finds for the rule is that of the reading.
TLC checked this invariant on the instance of `Cloud_clients` before it was proved.

**Life of the process.** `FreedRulesUnused` is not inductive by itself: that a rule was
deleted has to say how far main is (`FreedLate`), and how far main is, which threads
still run (`RulerGone`, `ServerGone`). What happens outside changes none of these.

**Reference counts.** `CountsExact` is an equation for each value: its count is the
number of references the caller holds, of those lost, of those in containers and of those
yet to be dropped (`todo`). With the types of the heap (`TypeOK`) it is inductive as it
stands. The references in containers are the cardinality of a set of places
(`Occurrences`), so that the proof needs no sums: a step changes what at most one
container holds, and by how much is a lemma for each way (`StoreCounts`, `RefillCounts`, a
container that is made, deleted or freed without its items); then it is shown, for all
values at once, that the two sides change by the same (`StepBalances`, `CallBalances`).

**Objects.** The hypothesis is `Interlocked`, the branch of `hashtable_seed.c` for
Windows; without it two threads may draw two seeds, and nothing is claimed. A table is
`Sound` if no key is in it twice and each bucket is the part of the list from its first
to its last pair (`Span`). Inserting before the first pair of a bucket, or at the end of
the list when the bucket is empty, keeps that for every bucket at once
(`InsertKeepsSound`); so does deletion, with its four cases for the ends. Rehashing
inserts all pairs again, from an empty table: that after n pairs the table is sound and
has the first n of the list is shown by a least counterexample, since the prover has no
induction over n. In a sound table the search finds a key wherever it is (`FindsPair`).
The order of the map is that of the serials, which differ and are below the next one
(`Good`); the sequence in that order is unique (`OneOrder`), so that the sort of
`json_dumps` yields it. That the hash of every pair is still that of its key is where the
seed comes in: one thread at a time is between the increment and the store, and no table
is used before the seed is there (`SeedOnce`).

### What stays with TLC

Liveness (`RulesExecuted`, `AllHandled`, `ServesAll`, `ScanEnds`, `BridgeGoesOn`,
`KeepsUploading`, `MainGoesOn`, `BrokersRegister`, the fairness half of
`RegistrySpec`), which the prover does not reach. The formats `ReceivedWasSent`,
`HandedWasSent`, `LoadsExactly`, `ScansTokens`, `DumpsExactly`, `StringsSurvive` and
`DocumentsArrive`: their definitions recurse over data, in `RECURSIVE` operators or
folds, where induction is out of the prover's reach. Reference counts and objects are
proved because no such recursion is in what they state.

## Plan

1. (done) manager and ruler with proofs, byte streams, select loop; the brokers;
   the cloud's clients; packages, frames, JSON; the life of the process.
2. (done) proofs: `TcpServer`, `PackageStream`, `LoRaBroker`, `CloudBridge`,
   `XBeeBroker`, `CloudUploader`, the reference counts of `JsonHeap`, the objects of
   `JsonTable`.
3. Two rescans at once; the bridge's connection to the cloud failing.

## Not modelled

Log messages and console output. Of jansson: real numbers, error texts, `json_equal`
and deep copies, `pack_unpack.c` (called from nowhere). Of the XBee library:
the samples and the transmission status of series 1 modules. The disabled variant of
`main` that reads a config file. `rs232.cpp`, `file.cpp`, `SystemUtility.cpp` and the
curl headers: wrappers and declarations of what the modules treat as external.
Memory below the vectors' elements: a reallocation of `rules` under the ruler
thread (more than 50 rules) or torn reads of an element are undefined in C++
and outside the model. Failures of socket, bind and listen end the server
thread before its first connection.
