---------------------------- MODULE XBeeRequests ----------------------------
(***************************************************************************)
(* What the driver asks of an XBee module: the requests of                 *)
(* XBeeApiLibrary.cpp, made by the broker's sendData and sendAtCommand, or *)
(* by another user of the library.  A request computes its frame data byte *)
(* by byte (getFrameData), and every length in it is a uint8_t.  The       *)
(* module is external: it takes a frame whose length and checksum agree    *)
(* and that is long enough for its kind.                                   *)
(***************************************************************************)
EXTENDS XBeeWire, TLC

CONSTANTS
    Addresses,      \* 64-bit addresses: eight bytes, msb first
    Packages,       \* what sendData is given
    Commands,       \* AT commands: two characters
    CommandValues,  \* their values, <<>> for none
    startCode, endCode,
    NULL, Refused

RequestsAssumption ==
    /\ \A a \in Addresses : a \in [1 .. 8 -> 0 .. 255]
    /\ \A c \in Commands : c \in [1 .. 2 -> 0 .. 255]
    /\ Packages \cup CommandValues \subseteq Seq(0 .. 255)

TX_64_REQUEST == 0
TX_16_REQUEST == 1
AT_COMMAND_REQUEST == 8
ZB_TX_REQUEST == 16
REMOTE_AT_REQUEST == 23

DEFAULT_FRAME_ID == 1
ZB_BROADCAST_ADDRESS == <<255, 254>>
ZB_BROADCAST_RADIUS_MAX_HOPS == 0
ZB_TX_UNICAST == 0
ACK_OPTION == 0

uint8_t(n) == n % 256

VARIABLES
    asked,      \* the request, NULL before it
    line,       \* the bytes written to the port
    taken       \* what the module understood: a request, Refused, NULL before

vars == <<asked, line, taken>>

Init == asked = NULL /\ line = <<>> /\ taken = NULL

-----------------------------------------------------------------------------
(* The requests: fixed fields, and a payload whose length is kept apart.   *)

Request(apiId, fields, payload) ==
    [apiId |-> apiId, fields |-> fields, payload |-> payload,
     payloadLength |-> uint8_t(Len(payload))]

ZBTxRequest(address, data) ==
    Request(ZB_TX_REQUEST,
            address \o ZB_BROADCAST_ADDRESS \o <<ZB_BROADCAST_RADIUS_MAX_HOPS, ZB_TX_UNICAST>>, data)

Tx16Request(address16, data) == Request(TX_16_REQUEST, address16 \o <<ACK_OPTION>>, data)

Tx64Request(address, data) == Request(TX_64_REQUEST, address \o <<ACK_OPTION>>, data)

AtCommandRequest(command, value) == Request(AT_COMMAND_REQUEST, command, value)

\* Changes are applied at once if there is a value.
RemoteAtCommandRequest(address, command, value) ==
    Request(REMOTE_AT_REQUEST,
            address \o ZB_BROADCAST_ADDRESS \o <<IF value = <<>> THEN 0 ELSE 2>> \o command, value)

getFrameDataLength(r) == uint8_t(Len(r.fields) + r.payloadLength)

\* Byte pos is a field or, after the fields, one of the payload.
getFrameData(r) == SubSeq(r.fields \o r.payload, 1, getFrameDataLength(r))

\* XBee::send.
Ask(r) ==
    /\ asked = NULL
    /\ asked' = r
    /\ line' = send([apiId |-> r.apiId, data |-> <<DEFAULT_FRAME_ID>> \o getFrameData(r)])
    /\ UNCHANGED taken

\* The broker sends a package between a start and an end code.
sendData ==
    \E r \in { ZBTxRequest(a, <<startCode>> \o p \o <<endCode>>) :
               a \in Addresses, p \in Packages } : Ask(r)

sendAtCommand ==
    \E r \in { AtCommandRequest(c, v) : c \in Commands, v \in CommandValues } : Ask(r)

\* Requests of the library that the broker does not make.
sendOther ==
    \E r \in { RemoteAtCommandRequest(a, c, v) :
               a \in Addresses, c \in Commands, v \in CommandValues }
             \cup { Tx64Request(a, p) : a \in Addresses, p \in Packages }
             \cup { Tx16Request(SubSeq(a, 7, 8), p) : a \in Addresses, p \in Packages } : Ask(r)

-----------------------------------------------------------------------------
(* The module.                                                             *)

Unescaped(bytes) ==
    LET Meant(i) == CASE i > 1 /\ bytes[i - 1] = ESCAPE -> Flipped(bytes[i])
                      [] bytes[i] = ESCAPE -> -1
                      [] OTHER -> bytes[i]
    IN  SelectSeq([i \in DOMAIN bytes |-> Meant(i)], LAMBDA b : b # -1)

\* Bytes before the payload, by kind of request.
FieldsLength ==
    (TX_64_REQUEST :> 9) @@ (TX_16_REQUEST :> 3) @@ (AT_COMMAND_REQUEST :> 2)
      @@ (ZB_TX_REQUEST :> 12) @@ (REMOTE_AT_REQUEST :> 13)

Understood(frame) ==
    LET n == frame[1] * 256 + frame[2]
        fields == FieldsLength[frame[3]]
        whole == /\ Len(frame) = n + 3 /\ n >= fields + 2
                 /\ Sum(SubSeq(frame, 3, n + 3)) % 256 = 255
    IN  IF whole
          THEN [apiId |-> frame[3], frameId |-> frame[4], fields |-> SubSeq(frame, 5, fields + 4),
                payload |-> SubSeq(frame, fields + 5, n + 2)]
          ELSE Refused

moduleReads ==
    /\ asked # NULL /\ taken = NULL
    /\ line[1] = START_BYTE
    /\ \E frame \in {Unescaped(Tail(line))} : taken' = Understood(frame)
    /\ UNCHANGED <<asked, line>>

Next == sendData \/ sendAtCommand \/ sendOther \/ moduleReads

Spec == Init /\ [][Next]_vars

-----------------------------------------------------------------------------
(* The module takes the request that was asked, field by field and         *)
(* whatever bytes are in it, if its frame data is shorter than 256 bytes.  *)
(* A longer one loses its end or is refused: sendData of a package of 242  *)
(* bytes or more fails silently (XBeeBroker_ApiMode.cpp:507, where an int  *)
(* becomes a uint8_t).                                                     *)
RequestsArrive ==
    taken # NULL =>
      IF Len(asked.fields) + Len(asked.payload) < 256
        THEN taken = [apiId |-> asked.apiId, frameId |-> DEFAULT_FRAME_ID,
                      fields |-> asked.fields, payload |-> asked.payload]
        ELSE \/ taken = Refused
             \/ taken.fields = asked.fields /\ IsStrictPrefix(taken.payload, asked.payload)
=============================================================================
