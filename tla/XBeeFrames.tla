----------------------------- MODULE XBeeFrames -----------------------------
(***************************************************************************)
(* What an XBee module sends to its driver (XBeeApiLibrary.cpp): frames of *)
(* the form XBeeWire gives.                                                *)
(*                                                                         *)
(* The bytes come over a serial line that may lose or change some; they    *)
(* are parsed one by one as they arrive, by readPacket, called again and   *)
(* again.  One thread reads; XBeeBroker has the threads and takes frames   *)
(* as they are.                                                            *)
(***************************************************************************)
EXTENDS XBeeWire, FiniteSets

CONSTANTS
    Frames,               \* for each frame it sends, what the module may send:
                          \* a sequence of sets of [apiId, data]
    MaxPort,              \* bytes the port holds
    MaxFaults,            \* bytes lost or changed
    FaultyBytes,          \* what a byte changes to
    MAX_FRAME_DATA_SIZE   \* 110 in the code

API_ID_INDEX == 3

RX_64_RESPONSE == 128
RX_16_RESPONSE == 129
AT_COMMAND_RESPONSE == 136
MODEM_STATUS_RESPONSE == 138
ZB_TX_STATUS_RESPONSE == 139
ZB_RX_RESPONSE == 144
ZB_IO_SAMPLE_RESPONSE == 146
REMOTE_AT_COMMAND_RESPONSE == 151

Known == {RX_64_RESPONSE, RX_16_RESPONSE, AT_COMMAND_RESPONSE, MODEM_STATUS_RESPONSE,
          ZB_TX_STATUS_RESPONSE, ZB_RX_RESPONSE, ZB_IO_SAMPLE_RESPONSE,
          REMOTE_AT_COMMAND_RESPONSE}

XBEE_NO_ERROR == 0
CHECKSUM_FAILURE == 1
PACKET_EXCEEDS_BYTE_ARRAY_LENGTH == 2
UNEXPECTED_START_BYTE == 3

FramesAssumption ==
    /\ \A k \in DOMAIN Frames : \A f \in Frames[k] :
         f.apiId \in Known /\ f.data \in Seq(0 .. 255) /\ f.data # <<>>
         /\ Len(f.data) + 4 <= MAX_FRAME_DATA_SIZE       \* longer ones are refused
    /\ MaxPort \in Nat \ {0} /\ MaxFaults \in Nat
    /\ FaultyBytes \subseteq 0 .. 255
    /\ MAX_FRAME_DATA_SIZE \in 4 .. 250

-----------------------------------------------------------------------------
VARIABLES
    sent,      \* the frames sent, in order
    wire,      \* bytes on their way
    port,      \* bytes that have arrived: what RS232_PollComport gives
    parser,    \* the members of XBee and of its XBeeResponse
    handed,    \* the responses the driver gave, in order
    faults,    \* bytes lost or changed
    struck     \* for the properties: one of them was structural

vars == <<sent, wire, port, parser, handed, faults, struck>>

\* resetResponse; the bytes of the last frame stay in the array.
resetResponse(p) ==
    [p EXCEPT !.pos = 0, !.escape = FALSE, !.checksumTotal = 0, !.complete = FALSE,
              !.error = XBEE_NO_ERROR, !.apiId = 0, !.msb = 0, !.lsb = 0, !.frameLength = 0]

Init ==
    /\ sent = <<>> /\ wire = <<>> /\ port = <<>> /\ handed = <<>>
    /\ parser = [pos |-> 0, escape |-> FALSE, checksumTotal |-> 0, complete |-> FALSE,
                 error |-> XBEE_NO_ERROR, apiId |-> 0, msb |-> 0, lsb |-> 0,
                 frameLength |-> 0, data |-> [i \in 0 .. MAX_FRAME_DATA_SIZE - 1 |-> 0]]
    /\ faults = 0 /\ struck = FALSE

\* The module sends a frame.
SendFrame ==
    /\ Len(sent) < Len(Frames)
    /\ wire = <<>>
    /\ \E f \in Frames[Len(sent) + 1] : sent' = Append(sent, f) /\ wire' = send(f)
    /\ UNCHANGED <<port, parser, handed, faults, struck>>

\* The next byte on its way says how others are to be read: it is of the length, an
\* escape, or what follows one.
Structural ==
    LET f == Last(sent)
        bytes == send(f)
        next == Len(bytes) - Len(wire) + 1
        length == <<(Len(f.data) + 1) \div 256, (Len(f.data) + 1) % 256>>
    IN  \/ next \in 2 .. 1 + Len(Escaped(length))
        \/ bytes[next] = ESCAPE
        \/ next > 1 /\ bytes[next - 1] = ESCAPE

\* The next byte arrives as it was sent, or changed, or not at all.
Arrive ==
    /\ wire # <<>> /\ Len(port) < MaxPort
    /\ wire' = Tail(wire)
    /\ \/ port' = Append(port, Head(wire)) /\ UNCHANGED <<faults, struck>>
       \/ /\ faults < MaxFaults
          /\ faults' = faults + 1
          /\ \/ port' = port /\ struck' = (struck \/ Structural)
             \/ \E b \in FaultyBytes \ {Head(wire)} :
                  /\ port' = Append(port, b)
                  /\ struck' = (struck \/ Structural \/ b = ESCAPE)
    /\ UNCHANGED <<sent, parser, handed>>

\* getPacketLength: (_msbLength << 8) & 0xff is 0.
getPacketLength(p) == p.lsb

\* The byte at the place of the checksum.
lastByte(p, b) ==
    IF p.checksumTotal = 255
    THEN [p EXCEPT !.complete = TRUE, !.frameLength = p.pos - 4, !.pos = 0]
    ELSE [p EXCEPT !.error = CHECKSUM_FAILURE, !.frameLength = p.pos - 4, !.pos = 0]

exceeds(p) == p.pos > MAX_FRAME_DATA_SIZE

\* One byte, escapes undone, at its place in the frame.
takeByte(q, b) ==
    LET p == IF q.pos >= API_ID_INDEX
             THEN [q EXCEPT !.checksumTotal = (q.checksumTotal + b) % 256] ELSE q
    IN  CASE p.pos = 0 -> IF b = START_BYTE THEN [p EXCEPT !.pos = 1] ELSE p
          [] p.pos = 1 -> [p EXCEPT !.msb = b, !.pos = 2]
          [] p.pos = 2 -> [p EXCEPT !.lsb = b, !.pos = 3]
          [] p.pos = 3 -> [p EXCEPT !.apiId = b, !.pos = 4]
          [] OTHER ->
               IF exceeds(p) THEN [p EXCEPT !.error = PACKET_EXCEEDS_BYTE_ARRAY_LENGTH]
               ELSE IF p.pos = getPacketLength(p) + 3 THEN lastByte(p, b)
               ELSE [p EXCEPT !.data[p.pos - 4] = b, !.pos = p.pos + 1]

unexpectedStart(b) == parser.pos > 0 /\ b = START_BYTE

\* One turn of the loop in readPacket.  After an escape the next byte is taken in the
\* same turn if it is there, otherwise _escape is kept for it.
readPacket ==
    /\ ~ parser.complete /\ parser.error = XBEE_NO_ERROR
    /\ port # <<>>
    /\ LET b == Head(port)
       IN  \/ /\ unexpectedStart(b)
              /\ parser' = [parser EXCEPT !.error = UNEXPECTED_START_BYTE]
              /\ port' = Tail(port)
           \/ /\ ~ unexpectedStart(b)
              /\ parser.pos > 0 /\ b = ESCAPE /\ Len(port) > 1
              /\ LET c == Flipped(port[2])
                 IN  parser' = takeByte([parser EXCEPT !.escape = FALSE],
                                        IF parser.escape THEN Flipped(c) ELSE c)
              /\ port' = Tail(Tail(port))
           \/ /\ parser.pos > 0 /\ b = ESCAPE /\ Len(port) = 1
              /\ parser' = [parser EXCEPT !.escape = TRUE]
              /\ port' = <<>>
           \/ /\ ~ unexpectedStart(b)
              /\ ~ (parser.pos > 0 /\ b = ESCAPE)
              /\ parser' = takeByte([parser EXCEPT !.escape = FALSE],
                                    IF parser.escape THEN Flipped(b) ELSE b)
              /\ port' = Tail(port)
    /\ UNCHANGED <<sent, wire, handed, faults, struck>>

\* Bit i of b.
Bit(b, i) == (b \div 2 ^ i) % 2 = 1

AnalogPins == 0 .. 3 \cup {7}               \* & 0x8f
DigitalPins == 0 .. 7 \cup 10 .. 12         \* & 0x1c in the byte of pin 8

Bytes(p, from, n) == [i \in 1 .. n |-> p.data[from + i - 1]]

(* What the getters of the subclasses cut out of the array. *)

getZBRxResponse(p) ==
    [kind |-> "RxStatus", address |-> Bytes(p, 0, 8), remote |-> Bytes(p, 8, 2),
     option |-> p.data[10], data |-> Bytes(p, 11, getPacketLength(p) - 12)]

getZBTxStatusResponse(p) ==
    [kind |-> "TxStatus", frameId |-> p.data[0], remote |-> Bytes(p, 1, 2),
     retries |-> p.data[3], status |-> p.data[4], discovery |-> p.data[5]]

getAtCommandResponse(p) ==
    [kind |-> "AtCommand", frameId |-> p.data[0], command |-> Bytes(p, 1, 2),
     status |-> p.data[3], value |-> Bytes(p, 4, p.frameLength - 4)]

getRemoteAtCommandResponse(p) ==
    [kind |-> "RemoteAtCommand", frameId |-> p.data[0], address |-> Bytes(p, 1, 8),
     remote |-> Bytes(p, 9, 2), command |-> Bytes(p, 11, 2), status |-> p.data[13],
     value |-> Bytes(p, 14, p.frameLength - 14)]

getModemStatusResponse(p) == [kind |-> "ModemStatus", status |-> p.data[0]]

\* RxResponse: rssi, option and data follow the address.
RxResponse(p, getRssiOffset) ==
    [kind |-> "Rx", address |-> Bytes(p, 0, getRssiOffset), rssi |-> p.data[getRssiOffset],
     addressBroadcast |-> Bit(p.data[getRssiOffset + 1], 1),
     panBroadcast |-> Bit(p.data[getRssiOffset + 1], 2),
     data |-> LET getDataOffset == getRssiOffset + 2
              IN  Bytes(p, getDataOffset, getPacketLength(p) - getDataOffset - 1)]

getRx16Response(p) == RxResponse(p, 2)
getRx64Response(p) == RxResponse(p, 8)

isAnalogEnabled(p, pin) == Bit(p.data[14], pin)     \* of the pins 0 to 3 and 7

\* The mask has a byte for the pins to 7 and one for the pins 10 to 12.
isDigitalEnabled(p, pin) ==
    IF pin <= 7 THEN Bit(p.data[13], pin) ELSE Bit(p.data[12], pin - 8)

isDigitalOn(p, pin) ==
    IF pin <= 7 THEN Bit(p.data[16], pin) ELSE Bit(p.data[15], pin - 8)

\* Two bytes for the digital pins, if any is enabled, and two for each analog one.
getAnalog(p, pin) ==
    LET containsDigital == \E d \in DigitalPins : isDigitalEnabled(p, d)
        before == {a \in AnalogPins : a < pin /\ isAnalogEnabled(p, a)}
    IN  Bytes(p, 15 + (IF containsDigital THEN 2 ELSE 0) + 2 * Cardinality(before), 2)

getZBRxIoSampleResponse(p) ==
    [kind |-> "IoSample", address |-> Bytes(p, 0, 8), remote |-> Bytes(p, 8, 2),
     analog |-> [a \in {b \in AnalogPins : isAnalogEnabled(p, b)} |-> getAnalog(p, a)],
     digital |-> [d \in {e \in DigitalPins : isDigitalEnabled(p, e)} |-> isDigitalOn(p, d)]]

Response(p) ==
    CASE p.apiId = ZB_RX_RESPONSE -> getZBRxResponse(p)
      [] p.apiId = ZB_TX_STATUS_RESPONSE -> getZBTxStatusResponse(p)
      [] p.apiId = AT_COMMAND_RESPONSE -> getAtCommandResponse(p)
      [] p.apiId = REMOTE_AT_COMMAND_RESPONSE -> getRemoteAtCommandResponse(p)
      [] p.apiId = MODEM_STATUS_RESPONSE -> getModemStatusResponse(p)
      [] p.apiId = RX_16_RESPONSE -> getRx16Response(p)
      [] p.apiId = RX_64_RESPONSE -> getRx64Response(p)
      [] p.apiId = ZB_IO_SAMPLE_RESPONSE -> getZBRxIoSampleResponse(p)

\* readPacket(timeout) returns true: the broker copies the response, and the next call
\* resets the parser.
takeResponse ==
    /\ parser.complete
    /\ handed' = IF parser.apiId \in Known THEN Append(handed, Response(parser)) ELSE handed
    /\ parser' = resetResponse(parser)
    /\ UNCHANGED <<sent, wire, port, faults, struck>>

\* readPacket(timeout) returns false, and the next call resets the parser.
dropError ==
    /\ parser.error # XBEE_NO_ERROR
    /\ parser' = resetResponse(parser)
    /\ UNCHANGED <<sent, wire, port, handed, faults, struck>>

Next == SendFrame \/ Arrive \/ readPacket \/ takeResponse \/ dropError

Spec == Init /\ [][Next]_vars
-----------------------------------------------------------------------------
(* Properties. *)

\* A message of a module of the first series, after its sender.
Message(sender, d) ==
    [kind |-> "Rx", address |-> sender, rssi |-> d[1],
     addressBroadcast |-> (d[2] \div 2) % 2 = 1, panBroadcast |-> (d[2] \div 4) % 2 = 1,
     data |-> SubSeq(d, 3, Len(d))]

\* The samples at the end of the frame, two bytes for each analog pin, in their order.
Samples(d) ==
    LET pins == {a \in 0 .. 7 : Bit(d[15], a)}
        rank(a) == Cardinality({b \in pins : b >= a})
    IN  [a \in pins |-> SubSeq(d, Len(d) - 2 * rank(a) + 1, Len(d) - 2 * rank(a) + 2)]

\* The digital pins of the mask, and those of them that are high.
Levels(d) ==
    LET mask == 256 * d[13] + d[14]
    IN  [p \in {q \in 0 .. 12 : Bit(mask, q)} |-> Bit(256 * d[16] + d[17], p)]

\* The response a frame carries, read off the frame itself.
Carried(f) ==
    LET d == f.data
    IN  CASE f.apiId = ZB_RX_RESPONSE ->
               [kind |-> "RxStatus", address |-> SubSeq(d, 1, 8), remote |-> SubSeq(d, 9, 10),
                option |-> d[11], data |-> SubSeq(d, 12, Len(d))]
          [] f.apiId = ZB_TX_STATUS_RESPONSE ->
               [kind |-> "TxStatus", frameId |-> d[1], remote |-> SubSeq(d, 2, 3),
                retries |-> d[4], status |-> d[5], discovery |-> d[6]]
          [] f.apiId = AT_COMMAND_RESPONSE ->
               [kind |-> "AtCommand", frameId |-> d[1], command |-> SubSeq(d, 2, 3),
                status |-> d[4], value |-> SubSeq(d, 5, Len(d))]
          [] f.apiId = REMOTE_AT_COMMAND_RESPONSE ->
               [kind |-> "RemoteAtCommand", frameId |-> d[1], address |-> SubSeq(d, 2, 9),
                remote |-> SubSeq(d, 10, 11), command |-> SubSeq(d, 12, 13),
                status |-> d[14], value |-> SubSeq(d, 15, Len(d))]
          [] f.apiId = MODEM_STATUS_RESPONSE -> [kind |-> "ModemStatus", status |-> d[1]]
          [] f.apiId = RX_16_RESPONSE -> Message(SubSeq(d, 1, 2), SubSeq(d, 3, Len(d)))
          [] f.apiId = RX_64_RESPONSE -> Message(SubSeq(d, 1, 8), SubSeq(d, 9, Len(d)))
          [] f.apiId = ZB_IO_SAMPLE_RESPONSE ->
               [kind |-> "IoSample", address |-> SubSeq(d, 1, 8), remote |-> SubSeq(d, 9, 10),
                analog |-> Samples(d), digital |-> Levels(d)]

\* One byte lost or changed on the line never makes a response that was not sent, unless
\* it belongs to the structure of its frame: the responses handed on are among those
\* sent, in order (XBeeApiLibrary.cpp:993).  The sum of 8 bits begins at the api id: with
\* another length it may come out right for a part of the frame, and with an escape, or
\* the byte after it, gone for bytes that were not sent.
HandedWasSent ==
    faults <= 1 /\ ~ struck =>
        \E at \in [DOMAIN handed -> DOMAIN sent] :
          /\ \A i \in DOMAIN handed : handed[i] = Carried(sent[at[i]])
          /\ \A i, j \in DOMAIN handed : i < j => at[i] < at[j]

\* When every byte has been read, each lost or changed byte has cost at most two
\* frames: the one it hit and the next, whose start byte ends the first and is
\* swallowed with it (XBeeApiLibrary.cpp:926).  Without one, every frame gets through.
LossBounded ==
    (wire = <<>> /\ port = <<>> /\ ~ parser.complete)
        => Len(handed) + 2 * faults >= Len(sent)
=============================================================================
