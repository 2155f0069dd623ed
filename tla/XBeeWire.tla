------------------------------ MODULE XBeeWire ------------------------------
(***************************************************************************)
(* The bytes of a frame between an XBee module and its driver              *)
(* (XBeeApiLibrary.cpp, API mode 2):                                       *)
(*                                                                         *)
(*   START msb lsb apiId data checksum                                     *)
(*                                                                         *)
(* where START occurs nowhere else, because the bytes after it are         *)
(* escaped.  Both sides write frames this way.                             *)
(***************************************************************************)
EXTENDS Integers, SequencesExt

START_BYTE == 126
ESCAPE == 125
XON == 17
XOFF == 19

\* b ^ 0x20
Flipped(b) == IF (b \div 32) % 2 = 0 THEN b + 32 ELSE b - 32

\* Mutant: only a start byte is escaped.
sendByteStart(b) == IF b = START_BYTE THEN <<ESCAPE, Flipped(b)>> ELSE <<b>>

sendByte(b) ==
    IF b \in {START_BYTE, ESCAPE, XON, XOFF} THEN <<ESCAPE, Flipped(b)>> ELSE <<b>>

\* Both by halves: a frame may be longer than a recursion may be deep.
Sum(s) ==
    LET Part[m, n \in 0 .. Len(s)] ==
          CASE m >= n -> 0
            [] n = m + 1 -> s[n]
            [] OTHER -> Part[m, (m + n) \div 2] + Part[(m + n) \div 2, n]
    IN  Part[0, Len(s)]

Escaped(s) ==
    LET Part[m, n \in 0 .. Len(s)] ==
          CASE m >= n -> <<>>
            [] n = m + 1 -> sendByte(s[n])
            [] OTHER -> Part[m, (m + n) \div 2] \o Part[(m + n) \div 2, n]
    IN  Part[0, Len(s)]

\* The length counts the api id and the data; the data of a request begins with its
\* frame id.
send(frame) ==
    LET body == <<frame.apiId>> \o frame.data
        counted == <<Len(body) \div 256, Len(body) % 256>> \o body
        checksum == 255 - (Sum(body) % 256)
    IN  <<START_BYTE>> \o Escaped(Append(counted, checksum))
=============================================================================
