------------------------------ MODULE Framing -------------------------------
(***************************************************************************)
(* How IoTUtility (IoT/IoTUtility.cpp) finds a package at the head of a    *)
(* buffer of bytes.  A package is                                          *)
(*                                                                         *)
(*   version NUL headerLength NUL dataLength NUL source NUL dest NUL       *)
(*   data checksum                                                         *)
(*                                                                         *)
(* and is cut here into cells, the pieces a partial read can end between:  *)
(*   1, 2      the two halves of the version word                          *)
(*   3         its NUL, headerLength and the NUL of that                   *)
(*   4         dataLength and the two ips, with their three NULs           *)
(*   5 ..      data, if any; the last cell is the checksum                 *)
(* A cell knows the package it was cut from: its sender c, its number n    *)
(* among the sender's, its length len in cells, and its own position k.    *)
(*                                                                         *)
(* Assumed of the checksum: it holds for the cells of one whole package    *)
(* and for no other run of cells.                                          *)
(***************************************************************************)
EXTENDS Integers, SequencesExt

headerColumns == 5
VersionCells == 2

\* Lengths of a package without data and of one with data.
PackageLengths == {5, 6}

\* PacketToSendingVector: the package as it goes on the wire.
Cells(c, n, len) == [k \in 1 .. len |-> [c |-> c, n |-> n, len |-> len, k |-> k]]

\* NULs in a buffer; data and checksum contribute none before the header ends.
Nuls(buf) ==
    2 * Cardinality({i \in DOMAIN buf : buf[i].k = 3})
    + 3 * Cardinality({i \in DOMAIN buf : buf[i].k = 4})

StartsWithVersion(buf) == \A i \in 1 .. VersionCells : buf[i].k = i

\* The number after the first NUL is headerLength, whatever precedes it; dataLength
\* is a number unless the header was broken off and another package follows.
numberCell(buf) == SelectInSeq(buf, LAMBDA x : x.k = 3)
NumbersParse(buf) ==
    LET j == numberCell(buf) IN j + 1 \in DOMAIN buf /\ buf[j + 1].k = 4

TotalLength(buf) == buf[numberCell(buf)].len

ChecksumOk(buf) ==
    LET len == TotalLength(buf)
    IN  SubSeq(buf, 1, len) = Cells(buf[1].c, buf[1].n, len)

\* isValidPackage, its tests in their order.  "Throws": std::stoi on something that
\* is not a number.
Inspect(buf) ==
    IF Len(buf) < VersionCells THEN "lengthIsNotLongEnough"
    ELSE IF ~ StartsWithVersion(buf) THEN "StartWordError"
    ELSE IF Nuls(buf) < headerColumns THEN "HeaderNotCompleted"
    ELSE IF ~ NumbersParse(buf) THEN "Throws"
    ELSE IF Len(buf) < TotalLength(buf) THEN "PackageNotCompleted"
    ELSE IF ~ ChecksumOk(buf) THEN "ChecksumError"
    ELSE "NoError"

NotCompleted == {"lengthIsNotLongEnough", "HeaderNotCompleted", "PackageNotCompleted"}
DataErrors == {"StartWordError", "ChecksumError"}

\* GetCompletedPackage takes a valid package off the head of the buffer.
Package(buf) == [c |-> buf[1].c, n |-> buf[1].n]

\* Mutant: the package is copied and not erased.
RestWithPackage(buf) == buf

Rest(buf) == SubSeq(buf, TotalLength(buf) + 1, Len(buf))
=============================================================================
