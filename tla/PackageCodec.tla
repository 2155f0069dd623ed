---------------------------- MODULE PackageCodec ----------------------------
(***************************************************************************)
(* The bytes of a package: how a sender puts them together (IoTPackage.h)  *)
(* and how a receiver takes them apart (IoTUtility.cpp).                   *)
(*                                                                         *)
(*   version NUL headerLength NUL dataLength NUL source NUL dest NUL       *)
(*   data checksum                                                         *)
(*                                                                         *)
(* headerLength counts its own digits (one too few at 100 bytes), the      *)
(* checksum is folded to 16 bits, and one byte may be changed on its way   *)
(* (the serial lines of LoRa and XBee).  Framing has the same format in    *)
(* whole cells, for the streams.                                           *)
(***************************************************************************)
EXTENDS Integers, SequencesExt

CONSTANTS
    Requests,      \* what senders send: [so, des, data], sequences of bytes
    MaxPackages,   \* packages sent
    MaxFaults,     \* bytes changed on their way
    FaultyBytes    \* what a byte changes to

CodecAssumption ==
    /\ \A r \in Requests : {r.so, r.des, r.data} \subseteq Seq(0 .. 255)
    /\ MaxPackages \in Nat /\ MaxFaults \in Nat /\ FaultyBytes \subseteq 0 .. 255

SegmentSymbol == 0
ProtocolVersion == <<73, 85, 68, 80, 49, 46, 48>>    \* IUDP1.0
headerColumns == 5

(* Numbers as the digits a stringstream writes and std::stoi reads. *)

NumDigits(n) == IF n < 10 THEN 1 ELSE IF n < 100 THEN 2 ELSE IF n < 1000 THEN 3 ELSE 4

Digits(n) ==
    LET k == NumDigits(n) IN [i \in 1 .. k |-> 48 + ((n \div 10 ^ (k - i)) % 10)]

\* The number of leading digits; 0 makes std::stoi throw.
DigitsAhead(s) ==
    LET bad == {i \in DOMAIN s : s[i] \notin 48 .. 57}
    IN  IF bad = {} THEN Len(s) ELSE (CHOOSE i \in bad : \A j \in bad : i <= j) - 1

Stoi(s) ==
    LET value[i \in 0 .. DigitsAhead(s)] ==
            IF i = 0 THEN 0 ELSE 10 * value[i - 1] + (s[i] - 48)
    IN  value[DigitsAhead(s)]

(* The sender. *)

\* Length of the header without its own field's digits and their NUL.
fieldsLength(ver, so, des, dataLength) ==
    (Len(ver) + 1) + (Len(so) + 1) + (Len(des) + 1) + (NumDigits(dataLength) + 1)

headerLength(fields) ==
    fields + (IF fields <= 8 THEN 1 ELSE IF fields <= 97 THEN 2 ELSE 3) + 1

\* Byte by byte, taken together by value.
Sum(s) ==
    MapThenSumSet(LAMBDA b : b * Cardinality({i \in DOMAIN s : s[i] = b}), {s[i] : i \in DOMAIN s})

\* One turn of while ((sum >> 16) > 0), for an unsigned int that holds x mod 2^32;
\* two turns always do.
FoldOnce(x) ==
    IF x \in 0 .. 65535 THEN x
    ELSE (x % 65536) + (x \div 65536) + (IF x < 0 THEN 65536 ELSE 0)

Fold16(x) == FoldOnce(FoldOnce(x))

sendedChecksum(bytes) == Fold16(Sum(bytes))

PacketToSendingVector(p) ==
    LET NUL == <<SegmentSymbol>>
        bytes == p.ver \o NUL \o Digits(p.headerLength) \o NUL \o Digits(Len(p.data)) \o NUL
                 \o p.so \o NUL \o p.des \o NUL \o p.data
        sum == sendedChecksum(bytes)
    IN  bytes \o <<sum \div 256, sum % 256>>

Packed(ver, so, des, data) ==
    [ver |-> ver, so |-> so, des |-> des, data |-> data,
     headerLength |-> headerLength(fieldsLength(ver, so, des, Len(data)))]

\* The constructors that take a vector swap it with their own: the caller is left
\* with an empty one.  Those that take a string copy it.
VectorPackage(ver, so, des, vector) ==
    [package |-> Packed(ver, so, des, vector), vector |-> <<>>]
CurrentVectorPackage(so, des, vector) ==
    [package |-> Packed(ProtocolVersion, so, des, vector), vector |-> <<>>]
StringPackage(ver, so, des, string) ==
    [package |-> Packed(ver, so, des, string), vector |-> string]
CurrentStringPackage(so, des, string) ==
    [package |-> Packed(ProtocolVersion, so, des, string), vector |-> string]

(* The receiver. *)

\* The bytes from position start up to a NUL or the end of the buffer.
popHeader(buffer, start) ==
    LET ends == {i \in start .. Len(buffer) : buffer[i] = SegmentSymbol}
        end == IF ends = {} THEN Len(buffer)
               ELSE (CHOOSE i \in ends : \A j \in ends : i <= j) - 1
    IN  SubSeq(buffer, start, end)

\* The five fields, one after the other; "Throws" when a length is no number.
decodeOnlyHeader(buffer) ==
    LET field[i \in 1 .. headerColumns] ==
            LET start == IF i = 1 THEN 1 ELSE field[i - 1].next
                text == popHeader(buffer, start)
            IN  [text |-> text, next |-> start + Len(text) + 1]
    IN  [ver |-> field[1].text, so |-> field[4].text, des |-> field[5].text,
         throws |-> \E i \in 2 .. 3 : DigitsAhead(field[i].text) = 0,
         headerLength |-> Stoi(field[2].text), dataLength |-> Stoi(field[3].text)]

\* The receiver adds plain chars, which are signed.
asChar(byte) == IF byte < 128 THEN byte ELSE byte - 256

receivedChecksum(bytes) == Fold16(Sum([i \in DOMAIN bytes |-> asChar(bytes[i])]))

headerCompleted(buffer) ==
    Cardinality({i \in DOMAIN buffer : buffer[i] = SegmentSymbol}) >= headerColumns

\* Mutant: the two bytes of the checksum are compared with nothing.
AnyChecksum(buffer, total) == TRUE

checkSumNoError(buffer, total) ==
    receivedChecksum(SubSeq(buffer, 1, total)) = 256 * buffer[total + 1] + buffer[total + 2]

isValidPackage(buffer) ==
    LET h == decodeOnlyHeader(buffer)
        total == h.headerLength + h.dataLength
    IN  IF Len(buffer) < Len(ProtocolVersion) THEN "lengthIsNotLongEnough"
        ELSE IF SubSeq(buffer, 1, Len(ProtocolVersion)) # ProtocolVersion THEN "StartWordError"
        ELSE IF ~ headerCompleted(buffer) THEN "HeaderNotCompleted"
        ELSE IF h.throws THEN "Throws"
        ELSE IF Len(buffer) < total + 2 THEN "PackageNotCompleted"
        ELSE IF ~ checkSumNoError(buffer, total) THEN "ChecksumError"
        ELSE "NoError"

decodePackage(buffer) ==
    LET h == decodeOnlyHeader(buffer)
    IN  [ver |-> h.ver, so |-> h.so, des |-> h.des, headerLength |-> h.headerLength,
         data |-> SubSeq(buffer, h.headerLength + 1, h.headerLength + h.dataLength)]

\* What is left when a valid package has been taken.
erasePackage(buffer) ==
    LET h == decodeOnlyHeader(buffer)
    IN  SubSeq(buffer, h.headerLength + h.dataLength + 3, Len(buffer))
-----------------------------------------------------------------------------
VARIABLES
    sent,        \* the packages sent, in order
    vector,      \* the sender's own bytes after the last construction
    buffer,      \* the receiver's bytes
    received,    \* the packages taken from it
    error,       \* the last answer of GetCompletedPackage
    faults,      \* bytes changed on their way
    struck       \* for the properties: one of them was before or in the lengths

vars == <<sent, vector, buffer, received, error, faults, struck>>

Init ==
    /\ sent = <<>> /\ received = <<>>
    /\ vector = <<>> /\ buffer = <<>>
    /\ error = "NoError"
    /\ faults = 0 /\ struck = FALSE

\* One of the four constructors, and the package on the wire.
Send(construction) ==
    /\ error # "Throws"
    /\ Len(sent) < MaxPackages
    /\ sent' = Append(sent, construction.package)
    /\ vector' = construction.vector
    /\ buffer' = buffer \o PacketToSendingVector(construction.package)
    /\ UNCHANGED <<received, error, faults, struck>>

SendVector == \E r \in Requests :
    Send(VectorPackage(ProtocolVersion, r.so, r.des, r.data))
SendCurrentVector == \E r \in Requests : Send(CurrentVectorPackage(r.so, r.des, r.data))
SendString == \E r \in Requests :
    Send(StringPackage(ProtocolVersion, r.so, r.des, r.data))
SendCurrentString == \E r \in Requests : Send(CurrentStringPackage(r.so, r.des, r.data))

\* Byte i of the buffer, the last package in which is the last one sent, is one of
\* version, headerLength and dataLength, or a NUL after them.
Structural(i) ==
    \E k \in DOMAIN sent :
        LET p == sent[k]
            first == Len(buffer) + 1
                     - MapThenSumSet(LAMBDA j : Len(PacketToSendingVector(sent[j])), k .. Len(sent))
            lengths == NumDigits(p.headerLength) + NumDigits(Len(p.data))
        IN  i \in first .. first + Len(p.ver) + lengths + 2

\* A byte changes on the line.
Fault ==
    /\ error # "Throws"
    /\ faults < MaxFaults
    /\ \E i \in DOMAIN buffer, b \in FaultyBytes :
          /\ b # buffer[i]
          /\ buffer' = [buffer EXCEPT ![i] = b]
          /\ struck' = (struck \/ Structural(i))
    /\ faults' = faults + 1
    /\ UNCHANGED <<sent, vector, received, error>>

\* GetCompletedPackage, and what its callers do with a data error: they clear the
\* buffer (IoTManager::handlePackage).
GetCompletedPackage ==
    /\ buffer # <<>> /\ error # "Throws"
    /\ error' = isValidPackage(buffer)
    /\ CASE error' = "NoError" ->
              /\ received' = Append(received, decodePackage(buffer))
              /\ buffer' = erasePackage(buffer)
         [] error' \in {"StartWordError", "ChecksumError"} ->
              buffer' = <<>> /\ UNCHANGED received
         [] OTHER -> UNCHANGED <<buffer, received>>
    /\ UNCHANGED <<sent, vector, faults, struck>>

Next ==
    \/ SendVector \/ SendCurrentVector \/ SendString \/ SendCurrentString
    \/ Fault
    \/ GetCompletedPackage

Spec == Init /\ [][Next]_vars
-----------------------------------------------------------------------------
(* Properties. *)

HighBytes(p) == Cardinality({i \in DOMAIN p.data : p.data[i] >= 128})

\* The length a header has on the wire.
writtenLength(p) == Len(PacketToSendingVector(p)) - Len(p.data) - 2

\* The thresholds of headerLength count one digit too few for a header that comes out
\* at 10 or at 100 bytes.
Miscounted(p) == p.headerLength \in {10, 100}

\* headerLength, which counts its own digits, is where the data begins on the wire:
\* the receiver cuts data and checksum there (IoTPackage.h:122, IoTUtility.cpp:231).
\* At the two lengths where the number of digits changes it is one byte before.
HeaderIsCounted ==
    \A i \in DOMAIN sent :
        writtenLength(sent[i]) = sent[i].headerLength + (IF Miscounted(sent[i]) THEN 1 ELSE 0)

\* What the comments on the sum of both lengths say: "2 is for checksum"
\* (IoTPackage.h:418), "2 is for check sum" (IoTUtility.cpp:22), and nothing else.
LengthsAddUp ==
    \A i \in DOMAIN sent :
        Len(PacketToSendingVector(sent[i])) = sent[i].headerLength + Len(sent[i].data) + 2

\* With a byte changed anywhere behind the lengths, every package that is taken is one
\* that was sent, byte for byte and in order: the sum of one byte less or more never
\* comes out the same (IoTUtility.cpp:54).  It says nothing of a byte changed before:
\* then the checksum may be looked for in another place, and what stands there may match
\* (so it may for a miscounted header, MiscountedLost).  Nor does it with so many bytes
\* from 128 on that the two ways of adding them differ by 65536.
ReceivedWasSent ==
    (faults <= 1 /\ ~ struck /\ \A i \in DOMAIN sent : HighBytes(sent[i]) < 255) =>
        LET read == {i \in DOMAIN received : ~ Miscounted(received[i])}
        IN  \E at \in [read -> DOMAIN sent] :
              /\ \A i \in read : received[i] = sent[at[i]]
              /\ \A i, j \in read : i < j => at[i] < at[j]

\* A package whose header is miscounted never arrives: it is refused, or, when the wrong
\* place of the checksum matches, taken with the last NUL of its header as the first
\* byte of its data and without the last.
MiscountedLost ==
    faults = 0 => \A i \in DOMAIN received : Miscounted(received[i]) =>
        /\ received[i] \notin ToSet(sent)
        /\ \E p \in ToSet(sent) :
             received[i] = [p EXCEPT !.data = <<SegmentSymbol>> \o Front(@)]

\* As long as nothing was disturbed, all other packages of plain characters get through:
\* what was not taken yet is in the buffer, and no buffer was cleared
\* (IoTUtility.cpp:40, IoTPackage.h:490 and IoTUtility.cpp:140 sum alike).
PlainPackagesArrive ==
    (/\ faults = 0
     /\ \A i \in DOMAIN sent : HighBytes(sent[i]) = 0 /\ ~ Miscounted(sent[i]))
        => /\ received = SubSeq(sent, 1, Len(received))
           /\ buffer = FlattenSeq([i \in 1 .. Len(sent) - Len(received) |->
                                     PacketToSendingVector(sent[Len(received) + i])])

\* The receiver adds signed chars where the sender adds unsigned ones: a package with
\* bytes from 128 on is never taken, short of 256 of them (IoTUtility.cpp:142).
HighBytesRefused ==
    faults = 0 => \A i \in DOMAIN received : HighBytes(received[i]) \in {0, 256}
=============================================================================
