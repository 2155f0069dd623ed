----------------------------- MODULE MCFormats ------------------------------
(* The formats the program reads and writes: packages, frames of the XBee  *)
(* module, JSON texts, the documents made of them, and the values jansson  *)
(* keeps in between.  Each of these modules is a machine of its own; part, *)
(* chosen at first, says which one runs.  The variables of the others are  *)
(* Unused, and a variable of one name serves every machine that has it.      *)
EXTENDS Integers, SequencesExt, TLC, JsonValues

CONSTANTS
    \* PackageCodec, XBeeFrames
    MaxPackages, MaxPort, MaxFaults, MAX_FRAME_DATA_SIZE,
    \* JsonTable
    t1, t2, ka, kb, kab,
    \* JsonParse, JsonDump, JsonLex, JsonStrings
    MaxTokens, NoValue, Nodes, Root, STRBUFFER_MIN_SIZE, NULL, Refused,
    MaxBytes, MaxDigits, MaxLength,
    \* IoTDocuments
    Raw, Thrown,
    Unused

VARIABLES
    sent, vector, buffer, received, error, faults, struck,  \* PackageCodec
    wire, port, parser, handed,                             \* XBeeFrames
    asked, line, taken,                                     \* XBeeRequests
    pc, text, token, fresh, stack, value, values, strings, short,   \* JsonParse
    pos, state, c, saved, string, read, bytes,              \* JsonLex
    visited, item, out, length, size, result,               \* JsonDump
    made, document, got                                     \* IoTDocuments

-----------------------------------------------------------------------------
\* Packages around the lengths at which the digits of headerLength change, one of
\* them without ips, one with a byte from 128 on.
Fill(n, byte) == [i \in 1 .. n |-> byte]
Request(so, des, n, byte) ==
    [so |-> Fill(so, 49), des |-> Fill(des, 50), data |-> Fill(n, byte)]
Requests ==
    { Request(1, 2, n, 65) : n \in {0, 10} }
      \cup { Request(1, des, 1, 65) : des \in 83 .. 85 }
      \cup {Request(2, 1, 1, 200), Request(0, 0, 6, 0)}

\* Packages that match where the checksum is looked for with dataLength 00 instead of
\* 10, and with a miscounted header.
Colliding ==
    { [Request(1, 2, 10, 65) EXCEPT !.data[1] = 3, !.data[2] = 32],
      [Request(1, 84, 1, 19) EXCEPT !.so[1] = 40] }

Codec == INSTANCE PackageCodec WITH
    Requests <- Requests \cup Colliding, FaultyBytes <- {0, 48, 57}

\* A confirmation, a description with bytes to escape, an answer to an AT command ...
Answers ==
    { [apiId |-> 139, data |-> <<1, 17, 126, 0, 0, 0>>],
      [apiId |-> 144, data |-> <<0, 19, 162, 0, 64, 125, 1, 126, 255, 254, 1, 126, 65>>],
      [apiId |-> 136, data |-> <<1, 78, 68, 0, 125>>] }

\* ... and, between two of those, what only other programs ask for: an answer to a remote
\* AT command, the module's status, messages from a short and a long address, and a
\* sample of the digital pins 1 and 11 and the analog pins 0 and 2, or of pin 3 alone.
Sender == <<0, 19, 162, 0, 64, 125, 1, 126>>
Others ==
    { [apiId |-> 151, data |-> <<1>> \o Sender \o <<255, 254, 68, 50, 0, 3>>],
      [apiId |-> 138, data |-> <<6>>],
      [apiId |-> 129, data |-> <<18, 52, 40, 2, 65, 66>>],
      [apiId |-> 128, data |-> Sender \o <<40, 4, 125>>],
      [apiId |-> 146, data |-> Sender \o <<255, 254, 1, 1, 8, 2, 5, 8, 0, 1, 2, 3, 126>>],
      [apiId |-> 146, data |-> Sender \o <<255, 254, 1, 1, 0, 0, 8, 2, 17>>] }

\* Answers whose sum also comes out right for another length, and without a byte: 6
\* instead of 8, and 93 49 instead of 125 17 (125 93 125 49 on the wire).
Misleading ==
    { [apiId |-> 136, data |-> <<1, 78, 68, 0, 100, 128, 7>>],
      [apiId |-> 136, data |-> <<1, 78, 68, 0, 125, 17>>] }

Port == INSTANCE XBeeFrames WITH
    Frames <- <<Answers, Others \cup Misleading, Answers>>, FaultyBytes <- {0, 6, 65, 125, 126}

\* Bytes to escape, and packages around the lengths at which a uint8_t overflows.
Asker == INSTANCE XBeeRequests WITH
    Addresses <- {<<0, 19, 162, 0, 64, 125, 1, 126>>},
    Packages <- {<<>>, <<17, 125, 126, 19>>}
      \cup { Fill(n, 65) : n \in {241, 242, 247, 252, 254, 300} },
    Commands <- {<<78, 68>>},
    CommandValues <- {<<>>, <<125>>}
      \cup { Fill(n, 200) : n \in {242, 253, 254, 255, 257} },
    startCode <- 2, endCode <- 3

\* Two buckets at first; ka and kb collide under the first seed, ka and kab after a
\* rehash under the second.
MCKeysOf == t1 :> TableKeys @@ t2 :> {}
MCHashlittle == <<ka :> 1 @@ kb :> 3 @@ kab :> 2, ka :> 0 @@ kb :> 1 @@ kab :> 4>>

Parser == INSTANCE JsonParse WITH Strings <- {"a", "b"}
Scanner == INSTANCE JsonLex
Dumper == INSTANCE JsonDump WITH Strings <- {"a", "b"}

\* The bytes at the limits of every class, with some that need an escape.
Strings == INSTANCE JsonStrings WITH
    Bytes <- {1, 10, 34, 47, 65, 92, 127, 128, 143, 144, 159, 160, 191, 192, 193, 194,
              223, 224, 225, 237, 239, 240, 241, 244, 245, 255}

Documents == INSTANCE IoTDocuments WITH Texts <- {"1", "x"}, Numbers <- {0, 5}

ASSUME Codec!CodecAssumption
ASSUME Port!FramesAssumption
ASSUME Asker!RequestsAssumption

\* json_loads(json_dumps(v)) = v: a text that Spell writes stands for its value.
ASSUME \A d \in Dumper!Documents : <<Dumper!Spell(d[2]), d[2]>> \in Dumper!Documents

-----------------------------------------------------------------------------
(* What only one machine uses, and what several share.                     *)

codecVars == <<vector, received, error>>
portVars == <<wire, port, parser, handed>>
askerVars == <<asked, line, taken>>
tableVars == <<hashtable_seed, seed_initialized, seeding, table>>
heapVars == <<held, lost, todo>>
parserVars == <<text, fresh, value, values, strings>>
scannerVars == <<pos, state, c, saved, read, bytes>>
dumperVars == <<visited, item, out, length, size, result>>
documentVars == <<made, document, got>>
vars == <<part, sent, faults, struck, buffer, pc, heap, token, stack, short, string,
          codecVars, portVars, askerVars, tableVars, heapVars, parserVars, scannerVars,
          dumperVars, documentVars>>

codecIdle == vector = Unused /\ received = Unused /\ error = Unused
portIdle ==
    wire = Unused /\ port = Unused /\ parser = Unused /\ handed = Unused
askerIdle == asked = Unused /\ line = Unused /\ taken = Unused
lineIdle == sent = Unused /\ faults = Unused /\ struck = Unused
tableIdle ==
    /\ hashtable_seed = Unused /\ seed_initialized = Unused /\ seeding = Unused
    /\ table = Unused
heapIdle == held = Unused /\ lost = Unused /\ todo = Unused
parserIdle ==
    /\ text = Unused /\ fresh = Unused /\ value = Unused /\ values = Unused
    /\ strings = Unused
scannerIdle ==
    /\ pos = Unused /\ state = Unused /\ c = Unused /\ saved = Unused /\ read = Unused
    /\ bytes = Unused
dumperIdle ==
    /\ visited = Unused /\ item = Unused /\ out = Unused /\ length = Unused /\ size = Unused
    /\ result = Unused
documentIdle == made = Unused /\ document = Unused /\ got = Unused

Init ==
    \/ /\ part = "packages" /\ Codec!Init
       /\ portIdle /\ askerIdle /\ tableIdle /\ heapIdle /\ parserIdle /\ scannerIdle
       /\ dumperIdle
       /\ documentIdle /\ pc = Unused /\ heap = Unused /\ token = Unused /\ stack = Unused
       /\ short = Unused /\ string = Unused
    \/ /\ part = "frames" /\ Port!Init
       /\ codecIdle /\ askerIdle /\ tableIdle /\ heapIdle /\ parserIdle /\ scannerIdle
       /\ dumperIdle /\ documentIdle /\ buffer = Unused /\ pc = Unused /\ heap = Unused
       /\ token = Unused
       /\ stack = Unused /\ short = Unused /\ string = Unused
    \/ /\ part = "requests" /\ Asker!Init
       /\ lineIdle /\ codecIdle /\ portIdle /\ tableIdle /\ heapIdle /\ parserIdle
       /\ scannerIdle /\ dumperIdle /\ documentIdle /\ buffer = Unused /\ pc = Unused
       /\ heap = Unused /\ token = Unused /\ stack = Unused /\ short = Unused
       /\ string = Unused
    \/ /\ part = "table" /\ Table!Init
       /\ lineIdle /\ askerIdle /\ codecIdle /\ portIdle /\ heapIdle /\ parserIdle
       /\ scannerIdle
       /\ dumperIdle /\ documentIdle /\ buffer = Unused /\ pc = Unused /\ heap = Unused
       /\ token = Unused /\ stack = Unused /\ short = Unused /\ string = Unused
    \/ /\ part = "heap" /\ Heap!Init
       /\ lineIdle /\ askerIdle /\ codecIdle /\ portIdle /\ tableIdle /\ parserIdle
       /\ scannerIdle
       /\ dumperIdle /\ documentIdle /\ buffer = Unused /\ pc = Unused /\ token = Unused
       /\ stack = Unused /\ short = Unused /\ string = Unused
    \/ /\ part = "parse" /\ Parser!Init
       /\ lineIdle /\ askerIdle /\ codecIdle /\ portIdle /\ tableIdle /\ heapIdle
       /\ scannerIdle
       /\ dumperIdle /\ documentIdle /\ buffer = Unused /\ heap = Unused /\ string = Unused
    \/ /\ part = "scan" /\ Scanner!Init
       /\ lineIdle /\ askerIdle /\ codecIdle /\ portIdle /\ tableIdle /\ heapIdle
       /\ parserIdle
       /\ dumperIdle /\ documentIdle /\ heap = Unused /\ stack = Unused /\ short = Unused
    \/ /\ part = "dump" /\ Dumper!Init
       /\ lineIdle /\ askerIdle /\ codecIdle /\ portIdle /\ tableIdle /\ heapIdle
       /\ parserIdle
       /\ scannerIdle /\ documentIdle /\ buffer = Unused /\ token = Unused
       /\ string = Unused
    \/ /\ part = "strings" /\ Strings!Init
       /\ lineIdle /\ askerIdle /\ codecIdle /\ portIdle /\ tableIdle /\ heapIdle
       /\ parserIdle
       /\ scannerIdle /\ dumperIdle /\ documentIdle /\ buffer = Unused /\ pc = Unused
       /\ heap = Unused /\ token = Unused /\ stack = Unused /\ short = Unused
    \/ /\ part = "documents" /\ Documents!Init
       /\ lineIdle /\ askerIdle /\ codecIdle /\ portIdle /\ tableIdle /\ heapIdle
       /\ parserIdle
       /\ scannerIdle /\ dumperIdle /\ buffer = Unused /\ pc = Unused
       /\ heap = Unused /\ token = Unused /\ stack = Unused /\ short = Unused
       /\ string = Unused

Packages ==
    /\ part = "packages" /\ Codec!Next
    /\ UNCHANGED <<part, portVars, askerVars, tableVars, heapVars, parserVars,
                   scannerVars, dumperVars,
                   documentVars, pc, heap, token, stack, short, string>>
Frames ==
    /\ part = "frames" /\ Port!Next
    /\ UNCHANGED <<part, codecVars, askerVars, tableVars, heapVars, parserVars,
                   scannerVars, dumperVars,
                   documentVars, buffer, pc, heap, token, stack, short, string>>
Requests_ ==
    /\ part = "requests" /\ Asker!Next
    /\ UNCHANGED <<part, sent, faults, struck, codecVars, portVars, tableVars, heapVars, parserVars,
                   scannerVars, dumperVars, documentVars, buffer, pc, heap, token, stack,
                   short,
                   string>>
Tables ==
    /\ part = "table" /\ Table!Next
    /\ UNCHANGED <<part, sent, faults, struck, askerVars, codecVars, portVars, heapVars,
                   parserVars, scannerVars,
                   dumperVars, documentVars, buffer, pc, heap, token, stack, short,
                   string>>
Heaps ==
    /\ part = "heap" /\ Heap!Next
    /\ UNCHANGED <<part, sent, faults, struck, askerVars, codecVars, portVars, tableVars,
                   parserVars, scannerVars,
                   dumperVars, documentVars, buffer, pc, token, stack, short, string>>
Parse ==
    /\ part = "parse" /\ Parser!Next
    /\ UNCHANGED <<part, sent, faults, struck, askerVars, codecVars, portVars, tableVars,
                   heapVars, scannerVars,
                   dumperVars, documentVars, buffer, heap, string>>
Scan ==
    /\ part = "scan" /\ Scanner!Next
    /\ UNCHANGED <<part, sent, faults, struck, askerVars, codecVars, portVars, tableVars,
                   heapVars, parserVars,
                   dumperVars, documentVars, heap, stack, short>>
Dump ==
    /\ part = "dump" /\ Dumper!Next
    /\ UNCHANGED <<part, sent, faults, struck, askerVars, codecVars, portVars, tableVars,
                   heapVars, parserVars,
                   scannerVars, documentVars, buffer, token, string>>
Grow ==
    /\ part = "strings" /\ Strings!Next
    /\ UNCHANGED <<part, sent, faults, struck, askerVars, codecVars, portVars, tableVars,
                   heapVars, parserVars,
                   scannerVars, dumperVars, documentVars, buffer, pc, heap, token, stack,
                   short>>
Document ==
    /\ part = "documents" /\ Documents!Next
    /\ UNCHANGED <<part, sent, faults, struck, askerVars, codecVars, portVars, tableVars,
                   heapVars, parserVars,
                   scannerVars, dumperVars, buffer, pc, heap, token, stack, short, string>>

Next ==
    \/ Packages \/ Frames \/ Requests_ \/ Tables \/ Heaps
    \/ Parse \/ Scan \/ Dump \/ Grow \/ Document

Spec == Init /\ [][Next]_vars

Symmetry == Permutations(HeapCells)
-----------------------------------------------------------------------------
(* The properties of the machines (where each is told in full).            *)

\* Packages of plain characters get through, unless headerLength comes out at 10 or
\* 100, which is one too few: such a package never arrives.  One with a byte from 128
\* on is refused.  With a byte changed on the line, behind the lengths of its package,
\* what a receiver takes was sent (PackageCodec).
ReceivedWasSent ==
    part = "packages" =>
        /\ Codec!HeaderIsCounted /\ Codec!PlainPackagesArrive /\ Codec!HighBytesRefused
        /\ Codec!ReceivedWasSent /\ Codec!MiscountedLost

\* A package has as many bytes as its lengths say, and two for the checksum
\* (IoTPackage.h:418, IoTUtility.cpp:22).
LengthsAddUp == part = "packages" => Codec!LengthsAddUp

\* The responses handed to the broker were sent by the module, unless a byte of a frame's
\* structure was hit, and a lost byte costs at most two of them (XBeeFrames); the module
\* takes the requests that were asked, as far as their length fits a byte (XBeeRequests).
HandedWasSent ==
    /\ part = "frames" => Port!HandedWasSent /\ Port!LossBounded
    /\ part = "requests" => Asker!RequestsArrive

\* json_loads returns the value of the text and frees the rest (JsonParse).
LoadsExactly == part = "parse" => Parser!LoadsExactly

\* lex_scan returns the longest token and puts back what follows it (JsonLex).
ScansTokens == part = "scan" => Scanner!ScansTokens

\* json_dumps writes the text of the value, or NULL for a circular one (JsonDump).
DumpsExactly == part = "dump" => Dumper!DumpsExactly

\* A string that is dumped and loaded is the same bytes (JsonStrings).
StringsSurvive == part = "strings" => Strings!StringsSurvive

\* A reader gets the fields the maker put in, or fails as a whole (IoTDocuments).
DocumentsArrive == part = "documents" => Documents!DocumentsArrive
=============================================================================
