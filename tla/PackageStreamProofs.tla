------------------------- MODULE PackageStreamProofs -------------------------
(***************************************************************************)
(* HandledWasSent for any number of slots, connections and packages, and   *)
(* pieces of any size.  The argument is about a connection's stream: what  *)
(* its slot's buffer and the wire hold.  Its cells follow one another as   *)
(* they were cut, the first of them where the last package handled ended.  *)
(* Cells of earlier connections stand before them in the buffer; they hold *)
(* no whole package, or it would have been taken before the slot was free. *)
(***************************************************************************)
EXTENDS PackageStream, SequenceLemmas, FiniteSetTheorems

WholeCell == {x \in Cell : x.k \in 1 .. x.len}
Taken == [c : Clients, n : 1 .. MaxPackages]

Types ==
    /\ phase \in [Clients -> {"new", "up", "closed", "gone"}]
    /\ sentCount \in [Clients -> 0 .. MaxPackages]
    /\ wire \in [Clients -> Seq(WholeCell)]
    /\ conn \in [Slots -> Clients \cup {None}]
    /\ buf \in [Slots -> Seq(WholeCell)]
    /\ busy \in Slots \cup {None}
    /\ busy # None => conn[busy] # None
    /\ broken \subseteq Clients
    /\ handled \in [Clients -> Seq(Taken)]
    /\ tainted \subseteq Clients
    /\ alive \in BOOLEAN

\* The cell y comes after x on one connection, and next to it.
Ordered(x, y) == x.n < y.n \/ (x.n = y.n /\ x.len = y.len /\ x.k < y.k)
Follows(x, y) ==
    \/ y.n = x.n /\ y.len = x.len /\ y.k = x.k + 1
    \/ y.n = x.n + 1 /\ x.k = x.len /\ y.k = 1

\* The cells of c in T are the last of T, and come as they were sent.
Chain(T, c) ==
    /\ \A i, j \in 1 .. Len(T) : i < j /\ T[i].c = c => T[j].c = c /\ Ordered(T[i], T[j])
    /\ \A i \in 1 .. Len(T) - 1 : T[i].c = c => Follows(T[i], T[i + 1])

\* A whole package of L cells is at the head of b.
WholeHead(b, L) ==
    /\ L \in PackageLengths
    /\ L <= Len(b)
    /\ \A i \in 1 .. L : b[i] = [c |-> b[1].c, n |-> b[1].n, len |-> L, k |-> i]

\* T is what is left of the stream of c, which has sent the packages 1 .. sent and of
\* which those in done were handled; open while c may send more, clean unless its
\* slot's buffer held cells of others when it came.
Fits(T, c, sent, done, open, clean) ==
    /\ Chain(T, c)
    /\ \A m \in 1 .. Len(done) : done[m].n <= sent
    /\ \A i \in 1 .. Len(T) : T[i].c = c =>
          T[i].n <= sent /\ \A m \in 1 .. Len(done) : done[m].n < T[i].n
    /\ open /\ T # <<>> /\ T[Len(T)].c = c => T[Len(T)].n = sent /\ T[Len(T)].k = T[Len(T)].len
    /\ clean /\ T # <<>> => T[1].c = c /\ T[1].k = 1 /\ T[1].n = Len(done) + 1
    /\ clean /\ T = <<>> /\ open => Len(done) = sent

Stream(s) == buf[s] \o wire[conn[s]]
InStep(s) ==
    conn[s] # None => Fits(Stream(s), conn[s], sentCount[conn[s]], handled[conn[s]],
                           phase[conn[s]] = "up", conn[s] \notin tainted)
Streams == \A s \in Slots : InStep(s)

\* A client that is connected has one slot; only a connected client's wire holds bytes,
\* its own; a client that has not come yet has sent nothing.
Connected ==
    /\ \A s, t \in Slots : conn[s] = conn[t] /\ conn[s] # None => s = t
    /\ \A s \in Slots : conn[s] # None => phase[conn[s]] \in {"up", "closed"}
    /\ \A c \in Clients : phase[c] \in {"up", "closed"} => \E s \in Slots : conn[s] = c
    /\ \A c \in Clients : phase[c] \in {"new", "gone"} => wire[c] = <<>>
    /\ \A c \in Clients : \A i \in 1 .. Len(wire[c]) : wire[c][i].c = c
Fresh ==
    \A c \in Clients : phase[c] = "new" =>
        /\ sentCount[c] = 0 /\ handled[c] = <<>>
        /\ \A s \in Slots : \A i \in 1 .. Len(buf[s]) : buf[s][i].c # c

\* Only where handlePackage is at work is there a whole package at a buffer's head, and
\* it is of the client that is connected.
Heads ==
    alive => \A s \in Slots :
        Inspect(buf[s]) = "NoError" => s = busy /\ buf[s][1].c = conn[s]

\* What was handled of an untainted connection are its first packages.
Counted ==
    \A c \in Clients \ tainted :
        Len(handled[c]) <= sentCount[c] /\ \A m \in 1 .. Len(handled[c]) : handled[c][m].n = m

Inv == Types /\ Connected /\ Fresh /\ Streams /\ Heads /\ Counted /\ NothingForged

USE StreamAssumption

-----------------------------------------------------------------------------
(* Framing: what isValidPackage finds at the head of a buffer.             *)

\* The first number is found in the first third cell of a package.
LEMMA NumberCellFacts ==
    ASSUME NEW S, NEW b \in Seq(S)
    PROVE  /\ numberCell(b) \in 0 .. Len(b)
           /\ numberCell(b) > 0 => b[numberCell(b)].k = 3
           /\ \A i \in 1 .. Len(b) : b[i].k = 3 => 0 < numberCell(b) /\ numberCell(b) <= i
<1> DEFINE I == {i \in 1 .. Len(b) : b[i].k = 3}
<1>1. Len(b) \in Nat /\ I \in SUBSET (1 .. Len(b))
  BY LenProperties
<1>2. numberCell(b) = IF I # {} THEN Min(I) ELSE 0
  BY DEF numberCell, SelectInSeq
<1>3. \A i \in 1 .. Len(b) : i \in I <=> b[i].k = 3
  OBVIOUS
<1> HIDE DEF I
<1>4. QED
  BY <1>1, <1>2, <1>3, FirstIndex

\* A buffer passes all tests only if a whole package is at its head, and that is what
\* is taken off.
LEMMA ValidHead ==
    ASSUME NEW b \in Seq(WholeCell), Inspect(b) = "NoError"
    PROVE  WholeHead(b, TotalLength(b))
<1> DEFINE L == TotalLength(b)
<1>1. /\ ~ (Len(b) < VersionCells) /\ StartsWithVersion(b) /\ NumbersParse(b)
      /\ ~ (Len(b) < L) /\ ChecksumOk(b)
  BY DEF Inspect
<1>2. /\ numberCell(b) \in 0 .. Len(b) /\ Len(b) \in Nat /\ DOMAIN b = 1 .. Len(b)
      /\ b[1].k = 1 /\ numberCell(b) + 1 \in DOMAIN b /\ b[numberCell(b) + 1].k = 4
  BY <1>1, NumberCellFacts, LenProperties DEF StartsWithVersion, VersionCells, NumbersParse
<1>3. numberCell(b) \in 1 .. Len(b)
  BY <1>2
<1>4. b[numberCell(b)] \in Cell
  BY <1>3, ElementOfSeq DEF WholeCell
<1>5. L \in PackageLengths /\ L \in Nat \ {0} /\ L <= Len(b)
  BY <1>1, <1>2, <1>4 DEF Cell, TotalLength, PackageLengths
<1>6. \A i \in 1 .. L : SubSeq(b, 1, L)[i] = b[i]
  <2>1. \A i \in 1 .. L : b[i] \in WholeCell
    BY <1>2, <1>5, ElementOfSeq
  <2>2. QED
    BY <1>5, <2>1, SubSeqProperties
<1>7. SubSeq(b, 1, L) = Cells(b[1].c, b[1].n, L)
  BY <1>1 DEF ChecksumOk
<1>8. \A i \in 1 .. L : b[i] = [c |-> b[1].c, n |-> b[1].n, len |-> L, k |-> i]
  BY <1>6, <1>7 DEF Cells
<1>9. QED
  BY <1>5, <1>8 DEF WholeHead

\* A whole package at the head of a buffer passes all tests, whatever follows it.
LEMMA HeadValid ==
    ASSUME NEW b \in Seq(WholeCell), NEW L, WholeHead(b, L)
    PROVE  Inspect(b) = "NoError" /\ TotalLength(b) = L
<1>1. /\ Len(b) \in Nat /\ DOMAIN b = 1 .. Len(b) /\ L \in {5, 6} /\ L <= Len(b)
      /\ b[1].k = 1 /\ b[2].k = 2 /\ b[3].k = 3 /\ b[4].k = 4 /\ b[3].len = L
  <2>1. L \in {5, 6} /\ L <= Len(b)
    BY DEF WholeHead, PackageLengths
  <2>2. 1 \in 1 .. L /\ 2 \in 1 .. L /\ 3 \in 1 .. L /\ 4 \in 1 .. L
    BY <2>1
  <2>3. b[1].k = 1 /\ b[2].k = 2 /\ b[3].k = 3 /\ b[4].k = 4 /\ b[3].len = L
    <3>1. ASSUME NEW i \in 1 .. L PROVE b[i].k = i /\ b[i].len = L
      <4>1. b[i] = [c |-> b[1].c, n |-> b[1].n, len |-> L, k |-> i]
        BY DEF WholeHead
      <4>2. \A c, n : [c |-> c, n |-> n, len |-> L, k |-> i].k = i
                       /\ [c |-> c, n |-> n, len |-> L, k |-> i].len = L
        OBVIOUS
      <4>3. QED
        BY <4>1, <4>2
    <3>2. QED
      BY <2>2, <3>1
  <2>4. QED
    BY <2>1, <2>3, LenProperties
<1>2. numberCell(b) = 3
  <2>1. numberCell(b) \in 1 .. 3 /\ b[numberCell(b)].k = 3
    BY <1>1, NumberCellFacts
  <2>2. QED
    BY <1>1, <2>1
<1>3. TotalLength(b) = L
  BY <1>1, <1>2 DEF TotalLength
<1>4. Nuls(b) \in Int /\ Nuls(b) >= headerColumns
  <2> DEFINE A == {i \in DOMAIN b : b[i].k = 3}
             B == {i \in DOMAIN b : b[i].k = 4}
  <2>1. 3 \in A /\ 4 \in B /\ A \subseteq 1 .. Len(b) /\ B \subseteq 1 .. Len(b)
    BY <1>1
  <2>2. Nuls(b) = 2 * Cardinality(A) + 3 * Cardinality(B)
    BY DEF Nuls
  <2> HIDE DEF A, B
  <2>3. IsFiniteSet(A) /\ IsFiniteSet(B)
    <3>1. IsFiniteSet(1 .. Len(b))
      BY <1>1, FS_Interval
    <3>2. QED
      BY <2>1, <3>1, FS_Subset
  <2>4. Cardinality(A) \in Nat /\ Cardinality(B) \in Nat /\ Cardinality(A) # 0 /\ Cardinality(B) # 0
    BY <2>1, <2>3, FS_CardinalityType, FS_EmptySet
  <2>5. QED
    BY <2>2, <2>4 DEF headerColumns
<1>5. SubSeq(b, 1, L) = Cells(b[1].c, b[1].n, L)
  <2>1. \A i \in 1 .. L : b[i] \in WholeCell
    BY <1>1, ElementOfSeq
  <2>2. /\ SubSeq(b, 1, L) \in Seq(WholeCell) /\ Len(SubSeq(b, 1, L)) = L
        /\ \A i \in 1 .. L : SubSeq(b, 1, L)[i] = b[i]
    BY <1>1, <2>1, SubSeqProperties
  <2>3. Cells(b[1].c, b[1].n, L) \in [1 .. L -> WholeCell]
    BY <2>1 DEF WholeHead, Cells
  <2>4. Cells(b[1].c, b[1].n, L) \in Seq(WholeCell) /\ Len(Cells(b[1].c, b[1].n, L)) = L
    BY <1>1, <2>3, FunctionIsSeq
  <2>5. \A i \in 1 .. L : SubSeq(b, 1, L)[i] = Cells(b[1].c, b[1].n, L)[i]
    BY <2>2 DEF WholeHead, Cells
  <2>6. QED
    BY <2>2, <2>4, <2>5, SeqEqual
<1>6. QED
  <2>1. StartsWithVersion(b) /\ NumbersParse(b)
    BY <1>1, <1>2 DEF VersionCells, StartsWithVersion, NumbersParse
  <2>2. ChecksumOk(b) /\ ~ (Len(b) < TotalLength(b)) /\ ~ (Len(b) < VersionCells)
    BY <1>1, <1>3, <1>5 DEF ChecksumOk, VersionCells
  <2>3. ~ (Nuls(b) < headerColumns)
    BY <1>4 DEF headerColumns
  <2>4. QED
    BY <1>3, <2>1, <2>2, <2>3 DEF Inspect

\* A buffer that begins where a package of c begins, and holds only what c sent after
\* it, never gives a data error.
LEMMA CleanHead ==
    ASSUME NEW b \in Seq(WholeCell), NEW c, Chain(b, c),
           b # <<>> => b[1].c = c /\ b[1].k = 1
    PROVE  Inspect(b) \notin DataErrors
<1> SUFFICES ASSUME Inspect(b) \in DataErrors PROVE FALSE
  OBVIOUS
<1>1. Len(b) \in Nat /\ Len(b) >= 2 /\ b # <<>> /\ DOMAIN b = 1 .. Len(b)
  BY LenProperties, EmptySeq DEF Inspect, DataErrors, VersionCells
<1>2. \A i \in 1 .. Len(b) : b[i] \in Cell /\ b[i].k \in 1 .. b[i].len /\ b[i].len \in {5, 6}
  <2>1. \A i \in 1 .. Len(b) : b[i] \in WholeCell
    BY <1>1, ElementOfSeq
  <2>2. QED
    BY <2>1 DEF WholeCell, Cell, PackageLengths
<1>3. \A i \in 1 .. Len(b) : b[i].c = c
  BY <1>1 DEF Chain
<1> DEFINE L == b[1].len
           Is(i) == b[i].n = b[1].n /\ b[i].len = L /\ b[i].k = i
<1>4. L \in {5, 6} /\ Is(1)
  BY <1>1, <1>2
<1>5. ASSUME NEW i \in 1 .. 5, i + 1 <= Len(b), i < L, Is(i) PROVE Is(i + 1)
  <2>1. Follows(b[i], b[i + 1])
    BY <1>1, <1>3, <1>5 DEF Chain
  <2>2. QED
    BY <1>4, <1>5, <2>1 DEF Follows
<1>6. Is(2)
  BY <1>1, <1>4, <1>5
<1>7. StartsWithVersion(b)
  BY <1>4, <1>6 DEF StartsWithVersion, VersionCells
<1>8. NumbersParse(b) /\ ~ (Len(b) < TotalLength(b)) /\ ~ ChecksumOk(b)
  BY <1>7 DEF Inspect, DataErrors
<1>9. Len(b) >= 3
  <2>1. numberCell(b) \in 0 .. Len(b) /\ numberCell(b) + 1 \in 1 .. Len(b) /\ b[numberCell(b) + 1].k = 4
    BY <1>1, <1>8, NumberCellFacts DEF NumbersParse
  <2>2. ASSUME Len(b) = 2 PROVE FALSE
    BY <1>4, <1>6, <2>1, <2>2
  <2>3. QED
    BY <1>1, <2>2
<1>10. Is(3)
  BY <1>4, <1>5, <1>6, <1>9
<1>11. TotalLength(b) = L
  <2>1. numberCell(b) \in 1 .. 3 /\ b[numberCell(b)].k = 3
    BY <1>1, <1>9, <1>10, NumberCellFacts
  <2>2. numberCell(b) = 3
    BY <1>4, <1>6, <2>1
  <2>3. QED
    BY <1>10, <2>2 DEF TotalLength
<1>12. L <= Len(b)
  BY <1>1, <1>4, <1>8, <1>11
<1>13. Is(4) /\ Is(5)
  BY <1>4, <1>5, <1>10, <1>12
<1>14. L = 6 => Is(6)
  BY <1>4, <1>5, <1>12, <1>13
<1>15. \A i \in 1 .. L : Is(i)
  BY <1>4, <1>6, <1>10, <1>13, <1>14
<1>16. \A i \in 1 .. L : b[i] = [c |-> b[1].c, n |-> b[1].n, len |-> L, k |-> i]
  BY <1>1, <1>2, <1>3, <1>12, <1>15 DEF Cell
<1>17. WholeHead(b, L)
  BY <1>4, <1>12, <1>16 DEF WholeHead, PackageLengths
<1>18. Inspect(b) = "NoError"
  BY <1>17, HeadValid
<1>19. QED
  BY <1>18 DEF DataErrors

-----------------------------------------------------------------------------
(* What happens to a stream.                                               *)

\* A piece of a chain is a chain.
LEMMA PieceChain ==
    ASSUME NEW T, NEW U, NEW c, Chain(T, c), NEW d \in Nat, Len(T) \in Nat, Len(U) \in Nat,
           d + Len(U) <= Len(T), \A i \in 1 .. Len(U) : U[i] = T[i + d]
    PROVE  Chain(U, c)
<1>1. ASSUME NEW i \in 1 .. Len(U), NEW j \in 1 .. Len(U), i < j, U[i].c = c
      PROVE  U[j].c = c /\ Ordered(U[i], U[j])
  <2>1. i + d \in 1 .. Len(T) /\ j + d \in 1 .. Len(T) /\ i + d < j + d
    BY <1>1
  <2>2. U[i] = T[i + d] /\ U[j] = T[j + d]
    OBVIOUS
  <2>3. QED
    BY <1>1, <2>1, <2>2 DEF Chain
<1>2. ASSUME NEW i \in 1 .. Len(U) - 1, U[i].c = c PROVE Follows(U[i], U[i + 1])
  <2>1. i \in 1 .. Len(U) /\ i + 1 \in 1 .. Len(U) /\ i + d \in 1 .. Len(T) - 1
    BY <1>2
  <2>2. U[i] = T[i + d] /\ U[i + 1] = T[(i + d) + 1]
    <3>1. (i + 1) + d = (i + d) + 1
      BY <2>1
    <3>2. U[i + 1] = T[(i + 1) + d]
      BY <2>1
    <3>3. QED
      BY <2>1, <3>1, <3>2
  <2>3. QED
    BY <1>2, <2>1, <2>2 DEF Chain
<1>3. QED
  BY <1>1, <1>2 DEF Chain

\* The end of a stream.
LEMMA SuffixFacts ==
    ASSUME NEW T \in Seq(WholeCell), NEW d \in 0 .. Len(T)
    PROVE  /\ SubSeq(T, d + 1, Len(T)) \in Seq(WholeCell)
           /\ Len(SubSeq(T, d + 1, Len(T))) = Len(T) - d
           /\ \A i \in 1 .. Len(T) - d : SubSeq(T, d + 1, Len(T))[i] = T[i + d]
           /\ SubSeq(T, 1, d) \in Seq(WholeCell)
           /\ Len(SubSeq(T, 1, d)) = d
           /\ \A i \in 1 .. d : SubSeq(T, 1, d)[i] = T[i]
<1>1. Len(T) \in Nat /\ \A i \in 1 .. Len(T) : T[i] \in WholeCell
  BY LenProperties, ElementOfSeq
<1>2. /\ SubSeq(T, d + 1, Len(T)) \in Seq(WholeCell)
      /\ Len(SubSeq(T, d + 1, Len(T))) = Len(T) - d
  BY <1>1, SubSeqProperties
<1>3. ASSUME NEW i \in 1 .. Len(T) - d PROVE SubSeq(T, d + 1, Len(T))[i] = T[i + d]
  <2>1. /\ d + 1 \in Int /\ Len(T) \in Int /\ i \in 1 .. Len(T) - (d + 1) + 1
        /\ (d + 1) + i - 1 = i + d
        /\ \A k \in d + 1 .. Len(T) : T[k] \in WholeCell
    BY <1>1
  <2>2. SubSeq(T, d + 1, Len(T))[i] = T[(d + 1) + i - 1]
    BY <2>1, SubSeqProperties
  <2>3. QED
    BY <2>1, <2>2
<1>4. /\ SubSeq(T, 1, d) \in Seq(WholeCell)
      /\ Len(SubSeq(T, 1, d)) = d
      /\ \A i \in 1 .. d : SubSeq(T, 1, d)[i] = T[i]
  BY <1>1, SubSeqProperties
<1>5. QED
  BY <1>2, <1>3, <1>4

\* The cells of one package.
LEMMA CellsFacts ==
    ASSUME NEW c \in Clients, NEW n \in 1 .. MaxPackages, NEW len \in PackageLengths
    PROVE  /\ Cells(c, n, len) \in Seq(WholeCell) /\ Len(Cells(c, n, len)) = len
           /\ \A i \in 1 .. len : Cells(c, n, len)[i] = [c |-> c, n |-> n, len |-> len, k |-> i]
           /\ len \in Nat /\ len > 0
<1>1. len \in {5, 6}
  BY DEF PackageLengths
<1>2. Cells(c, n, len) \in [1 .. len -> WholeCell]
  <2>1. ASSUME NEW k \in 1 .. len PROVE [c |-> c, n |-> n, len |-> len, k |-> k] \in WholeCell
    BY <1>1 DEF WholeCell, Cell
  <2>2. QED
    BY <2>1 DEF Cells
<1>3. \A i \in 1 .. len : Cells(c, n, len)[i] = [c |-> c, n |-> n, len |-> len, k |-> i]
  BY DEF Cells
<1>4. QED
  BY <1>1, <1>2, <1>3, FunctionIsSeq

\* The cells of the next package follow on.
LEMMA FitsSend ==
    ASSUME NEW T \in Seq(WholeCell), NEW c \in Clients, NEW sent \in 0 .. MaxPackages - 1,
           NEW len \in PackageLengths, NEW done \in Seq(Taken), NEW clean,
           Fits(T, c, sent, done, TRUE, clean)
    PROVE  Fits(T \o Cells(c, sent + 1, len), c, sent + 1, done, TRUE, clean)
<1> DEFINE C == Cells(c, sent + 1, len)
           U == T \o C
           new(i) == [c |-> c, n |-> sent + 1, len |-> len, k |-> i]
<1>1. /\ C \in Seq(WholeCell) /\ Len(C) = len /\ len \in Nat /\ len > 0 /\ sent + 1 \in 1 .. MaxPackages
      /\ \A i \in 1 .. len : C[i] = new(i)
  <2>1. sent + 1 \in 1 .. MaxPackages
    OBVIOUS
  <2>2. QED
    BY <2>1, CellsFacts, ZenonT(60)
<1>2. /\ U \in Seq(WholeCell) /\ Len(U) = Len(T) + len /\ Len(T) \in Nat
      /\ \A i \in 1 .. Len(T) : U[i] = T[i]
      /\ \A i \in Len(T) + 1 .. Len(T) + len : U[i] = new(i - Len(T))
  <2>1. /\ U \in Seq(WholeCell) /\ Len(U) = Len(T) + len /\ Len(T) \in Nat
        /\ \A i \in 1 .. Len(T) + len : U[i] = IF i <= Len(T) THEN T[i] ELSE C[i - Len(T)]
    <3>1. Len(T) \in Nat /\ C \in Seq(WholeCell) /\ Len(C) = len
      BY <1>1, LenProperties
    <3> HIDE DEF C
    <3>2. /\ U \in Seq(WholeCell) /\ Len(U) = Len(T) + Len(C)
          /\ \A i \in 1 .. Len(T) + Len(C) : U[i] = IF i <= Len(T) THEN T[i] ELSE C[i - Len(T)]
      BY <3>1, ConcatProperties
    <3>3. QED
      BY <3>1, <3>2
  <2>2. ASSUME NEW i \in Len(T) + 1 .. Len(T) + len PROVE U[i] = new(i - Len(T))
    <3>1. i - Len(T) \in 1 .. len /\ ~ (i <= Len(T)) /\ i \in 1 .. Len(T) + len
      BY <1>1, <2>1
    <3>2. QED
      BY <1>1, <2>1, <3>1
  <2>3. QED
    BY <1>1, <2>1, <2>2
<1>3. \A i \in 1 .. Len(T) : T[i].c = c => T[i].n <= sent /\ T[i].n \in Int
  <2>1. \A i \in 1 .. Len(T) : T[i] \in Cell
    BY ElementOfSeq DEF WholeCell
  <2>2. QED
    BY <2>1 DEF Fits, Cell
<1>4. \A i, k : new(i).c = c /\ new(i).n = sent + 1 /\ new(i).len = len /\ new(i).k = i
  OBVIOUS
<1> HIDE DEF U, C, new
<1>5. ASSUME NEW i \in 1 .. Len(U), NEW j \in 1 .. Len(U), i < j, U[i].c = c
      PROVE  U[j].c = c /\ Ordered(U[i], U[j])
  <2>1. CASE j <= Len(T)
    BY <1>2, <1>5, <2>1 DEF Fits, Chain
  <2>2. CASE ~ (j <= Len(T)) /\ i <= Len(T)
    <3>1. U[j] = new(j - Len(T)) /\ U[i] = T[i]
      BY <1>2, <2>2
    <3>2. T[i].n < sent + 1
      BY <1>2, <1>3, <1>5, <2>2, <3>1
    <3>3. QED
      BY <1>4, <3>1, <3>2 DEF Ordered
  <2>3. CASE ~ (i <= Len(T))
    <3>1. U[j] = new(j - Len(T)) /\ U[i] = new(i - Len(T)) /\ i - Len(T) < j - Len(T)
      <4>1. i \in Len(T) + 1 .. Len(T) + len /\ j \in Len(T) + 1 .. Len(T) + len
        BY <1>1, <1>2, <1>5, <2>3
      <4>2. QED
        BY <1>2, <1>5, <4>1
    <3>2. QED
      BY <1>4, <3>1 DEF Ordered
  <2>4. QED
    BY <2>1, <2>2, <2>3
<1>6. ASSUME NEW i \in 1 .. Len(U) - 1, U[i].c = c PROVE Follows(U[i], U[i + 1])
  <2>1. CASE i < Len(T)
    <3>1. i \in 1 .. Len(T) - 1 /\ i \in 1 .. Len(T) /\ i + 1 \in 1 .. Len(T)
      BY <1>1, <1>2, <1>6, <2>1
    <3>2. U[i] = T[i] /\ U[i + 1] = T[i + 1]
      BY <1>2, <3>1
    <3>3. T[i].c = c => Follows(T[i], T[i + 1])
      BY <3>1 DEF Fits, Chain
    <3>4. QED
      BY <1>6, <3>2, <3>3
  <2>2. CASE i = Len(T)
    <3>1. U[i] = T[Len(T)] /\ U[i + 1] = new(1) /\ T # <<>>
      <4>1. U[i + 1] = new(i + 1 - Len(T)) /\ i + 1 - Len(T) = 1
        BY <1>1, <1>2, <2>2, SMTT(30)
      <4>2. QED
        BY <1>2, <2>2, <4>1, EmptySeq
    <3>2. T[Len(T)].n = sent /\ T[Len(T)].k = T[Len(T)].len
      BY <1>6, <3>1 DEF Fits
    <3>3. QED
      BY <1>4, <3>1, <3>2 DEF Follows
  <2>3. CASE i > Len(T)
    <3>1. U[i] = new(i - Len(T)) /\ U[i + 1] = new((i - Len(T)) + 1)
      <4>1. (i + 1) - Len(T) = (i - Len(T)) + 1
        BY <1>2
      <4>2. U[i] = new(i - Len(T)) /\ U[i + 1] = new((i + 1) - Len(T))
        <5>1. i \in Len(T) + 1 .. Len(T) + len /\ i + 1 \in Len(T) + 1 .. Len(T) + len
          BY <1>1, <1>2, <2>3
        <5>2. QED
          BY <1>2, <5>1
      <4>3. QED
        BY <4>1, <4>2
    <3>2. QED
      BY <1>4, <3>1 DEF Follows
  <2>4. QED
    BY <1>2, <2>1, <2>2, <2>3
<1>7. Chain(U, c)
  BY <1>5, <1>6 DEF Chain
<1>8. Len(done) \in Nat /\ \A m \in 1 .. Len(done) : done[m].n \in Int /\ done[m].n <= sent
  <2>1. \A m \in 1 .. Len(done) : done[m] \in Taken
    BY ElementOfSeq
  <2>2. QED
    BY <2>1, LenProperties DEF Taken, Fits
<1>9. ASSUME NEW i \in 1 .. Len(U), U[i].c = c
      PROVE  U[i].n <= sent + 1 /\ \A m \in 1 .. Len(done) : done[m].n < U[i].n
  <2>1. CASE i <= Len(T)
    BY <1>2, <1>3, <1>9, <2>1, SMTT(30) DEF Fits
  <2>2. CASE ~ (i <= Len(T))
    <3>1. i \in Len(T) + 1 .. Len(T) + len
      BY <1>1, <1>2, <2>2
    <3>2. U[i].n = sent + 1
      BY <1>2, <1>4, <3>1
    <3>3. QED
      BY <1>8, <3>2
  <2>3. QED
    BY <2>1, <2>2
<1>10. U # <<>> /\ U[Len(U)].n = sent + 1 /\ U[Len(U)].k = U[Len(U)].len
  <2>1. Len(U) \in Len(T) + 1 .. Len(T) + len /\ Len(U) - Len(T) = len /\ Len(U) # 0
    BY <1>1, <1>2
  <2>2. U[Len(U)] = new(len)
    BY <1>2, <2>1
  <2>3. QED
    BY <1>4, <2>1, <2>2, EmptySeq
<1>11. ASSUME clean PROVE U[1].c = c /\ U[1].k = 1 /\ U[1].n = Len(done) + 1
  <2>1. CASE T = <<>>
    <3>1. Len(done) = sent /\ Len(T) = 0
      BY <1>11, <2>1 DEF Fits
    <3>2. U[1] = new(1)
      BY <1>1, <1>2, <3>1
    <3>3. QED
      BY <1>4, <3>1, <3>2
  <2>2. CASE T # <<>>
    <3>1. 1 \in 1 .. Len(T)
      BY <1>2, <2>2, EmptySeq
    <3>2. QED
      BY <1>2, <1>11, <2>2, <3>1 DEF Fits
  <2>3. QED
    BY <2>1, <2>2
<1>12. \A m \in 1 .. Len(done) : done[m].n <= sent + 1
  BY <1>8
<1>13. Fits(U, c, sent + 1, done, TRUE, clean)
  BY <1>7, <1>9, <1>10, <1>11, <1>12 DEF Fits
<1>14. QED
  BY <1>13 DEF U, C

\* A part of the stream is lost: its end with the connection, ...
LEMMA FitsCut ==
    ASSUME NEW T \in Seq(WholeCell), NEW m \in 0 .. Len(T), NEW c, NEW sent, NEW done, NEW open, NEW clean,
           Fits(T, c, sent, done, open, clean)
    PROVE  Fits(SubSeq(T, 1, m), c, sent, done, FALSE, clean)
<1> DEFINE U == SubSeq(T, 1, m)
<1>1. U \in Seq(WholeCell) /\ Len(U) = m /\ Len(T) \in Nat /\ \A i \in 1 .. m : U[i] = T[i]
  BY SuffixFacts, LenProperties
<1> HIDE DEF U
<1>2. Chain(U, c)
  <2> DEFINE d == 0
  <2>1. d \in Nat /\ Len(U) \in Nat /\ d + Len(U) <= Len(T) /\ \A i \in 1 .. Len(U) : U[i] = T[i + d]
    BY <1>1
  <2> HIDE DEF d
  <2>2. QED
    BY <1>1, <2>1, PieceChain DEF Fits
<1>3. U # <<>> => T # <<>> /\ 1 \in 1 .. m
  BY <1>1, EmptySeq
<1>4. \A i \in 1 .. m : i \in 1 .. Len(T)
  BY <1>1
<1>5. Fits(U, c, sent, done, FALSE, clean)
  BY <1>1, <1>2, <1>3, <1>4 DEF Fits
<1>6. QED
  BY <1>5 DEF U

\* ... or its beginning, when a buffer is cleared.
LEMMA FitsClear ==
    ASSUME NEW T \in Seq(WholeCell), NEW d \in 0 .. Len(T), NEW c, NEW sent, NEW done, NEW open, NEW clean,
           Fits(T, c, sent, done, open, clean)
    PROVE  Fits(SubSeq(T, d + 1, Len(T)), c, sent, done, open, FALSE)
<1> DEFINE U == SubSeq(T, d + 1, Len(T))
<1>1. /\ U \in Seq(WholeCell) /\ Len(U) = Len(T) - d /\ Len(T) \in Nat
      /\ \A i \in 1 .. Len(T) - d : U[i] = T[i + d]
  BY SuffixFacts, LenProperties
<1> HIDE DEF U
<1>2. Chain(U, c)
  BY <1>1, PieceChain, SMTT(30) DEF Fits
<1>3. U # <<>> => T # <<>> /\ U[Len(U)] = T[Len(T)]
  <2>1. ASSUME U # <<>> PROVE Len(U) \in 1 .. Len(T) - d /\ Len(U) + d = Len(T) /\ Len(T) # 0
    BY <1>1, <2>1, EmptySeq
  <2>2. QED
    BY <1>1, <2>1, EmptySeq
<1>4. \A i \in 1 .. Len(U) : i + d \in 1 .. Len(T) /\ U[i] = T[i + d]
  BY <1>1
<1>5. Fits(U, c, sent, done, open, FALSE)
  BY <1>2, <1>3, <1>4 DEF Fits
<1>6. QED
  BY <1>5 DEF U

\* The first package is taken off and handled.
LEMMA FitsTake ==
    ASSUME NEW T \in Seq(WholeCell), NEW L, WholeHead(T, L), NEW c \in Clients, T[1].c = c, NEW sent,
           NEW done \in Seq(Taken), NEW open, NEW clean,
           Fits(T, c, sent, done, open, clean)
    PROVE  /\ [c |-> c, n |-> T[1].n] \in Taken
           /\ Fits(SubSeq(T, L + 1, Len(T)), c, sent, Append(done, [c |-> c, n |-> T[1].n]), open, clean)
           /\ \A m \in 1 .. Len(done) : done[m].n < T[1].n
           /\ T[1].n <= sent
           /\ clean => T[1].n = Len(done) + 1
<1> DEFINE U == SubSeq(T, L + 1, Len(T))
           e == [c |-> c, n |-> T[1].n]
           D == Append(done, e)
<1>1. /\ L \in {5, 6} /\ L <= Len(T) /\ Len(T) \in Nat
      /\ \A i \in 1 .. Len(T) : T[i] \in Cell /\ T[i].k \in 1 .. T[i].len
  <2>1. \A i \in 1 .. Len(T) : T[i] \in WholeCell
    BY ElementOfSeq
  <2>2. QED
    BY <2>1, LenProperties DEF WholeHead, PackageLengths, WholeCell
<1>2. T[L].c = c /\ T[L].n = T[1].n /\ T[L].len = L /\ T[L].k = L
  <2>1. L \in 1 .. L
    BY <1>1
  <2>2. T[L] = [c |-> c, n |-> T[1].n, len |-> L, k |-> L]
    BY <2>1 DEF WholeHead
  <2>3. QED
    BY <2>2
<1>3. T[1].n \in 1 .. MaxPackages /\ e \in Taken /\ e.n = T[1].n
  <2>1. T[1] \in Cell
    BY <1>1
  <2>2. QED
    BY <2>1 DEF Cell, Taken
<1>4. /\ U \in Seq(WholeCell) /\ Len(U) = Len(T) - L
      /\ \A i \in 1 .. Len(T) - L : U[i] = T[i + L]
  BY <1>1, SuffixFacts
<1>5. /\ D \in Seq(Taken) /\ Len(D) = Len(done) + 1 /\ Len(done) \in Nat
      /\ \A m \in 1 .. Len(done) : D[m] = done[m] /\ done[m].n \in Int
      /\ D[Len(done) + 1] = e
  <2>1. \A m \in 1 .. Len(done) : done[m] \in Taken
    BY ElementOfSeq
  <2>2. QED
    BY <1>3, <2>1, AppendContents, LenProperties DEF Taken
<1>6. /\ T[1].n <= sent /\ T # <<>>
      /\ \A m \in 1 .. Len(done) : done[m].n < T[1].n
      /\ clean => T[1].n = Len(done) + 1
  <2>1. 1 \in 1 .. Len(T) /\ T # <<>>
    BY <1>1, EmptySeq
  <2>2. QED
    BY <2>1 DEF Fits
<1> HIDE DEF U, D, e
<1>7. ASSUME NEW i \in L + 1 .. Len(T) PROVE T[i].c = c /\ T[1].n < T[i].n
  <2>1. T[i].c = c /\ Ordered(T[L], T[i]) /\ i \in 1 .. Len(T)
    <3>1. L \in 1 .. Len(T) /\ i \in 1 .. Len(T) /\ L < i
      BY <1>1
    <3>2. QED
      BY <1>2, <3>1 DEF Fits, Chain
  <2>2. T[i].k <= T[i].len /\ T[i].k \in Int /\ T[i].len \in Int
    BY <1>1, <2>1 DEF Cell, PackageLengths
  <2>3. QED
    BY <1>2, <2>1, <2>2 DEF Ordered
<1>8. Chain(U, c)
  <2>1. L \in Nat /\ L + Len(U) <= Len(T) /\ Len(U) \in Nat
    BY <1>1, <1>4
  <2>2. QED
    BY <1>1, <1>4, <2>1, PieceChain DEF Fits
<1>9. \A m \in 1 .. Len(D) : D[m].n <= T[1].n
  <2>1. \A m \in 1 .. Len(D) : m \in 1 .. Len(done) \/ m = Len(done) + 1
    BY <1>5
  <2>2. QED
    BY <1>3, <1>5, <1>6, <2>1
<1>10. \A m \in 1 .. Len(D) : D[m].n <= sent /\ D[m].n \in Int
  <2>1. \A m \in 1 .. Len(D) : D[m] \in Taken
    BY <1>5, ElementOfSeq
  <2>2. \A m \in 1 .. Len(D) : D[m].n \in Int
    BY <2>1 DEF Taken
  <2>3. ASSUME NEW m \in 1 .. Len(D) PROVE D[m].n <= sent
    <3>1. CASE m \in 1 .. Len(done)
      BY <1>5, <3>1 DEF Fits
    <3>2. CASE m = Len(done) + 1
      BY <1>3, <1>5, <1>6, <3>2
    <3>3. QED
      BY <1>5, <3>1, <3>2
  <2>4. QED
    BY <2>2, <2>3
<1>11. ASSUME NEW i \in 1 .. Len(U)
       PROVE  U[i].n <= sent /\ \A m \in 1 .. Len(D) : D[m].n < U[i].n
  <2>1. U[i] = T[i + L] /\ i + L \in L + 1 .. Len(T) /\ i + L \in 1 .. Len(T)
    BY <1>1, <1>4
  <2>2. T[i + L].c = c /\ T[1].n < T[i + L].n
    BY <1>7, <2>1
  <2>3. T[i + L].n <= sent
    BY <2>1, <2>2 DEF Fits
  <2>4. T[i + L].n \in Int
    BY <1>1, <2>1 DEF Cell
  <2>5. QED
    BY <1>3, <1>9, <1>10, <2>1, <2>2, <2>3, <2>4
<1>12. ASSUME open, U # <<>> PROVE U[Len(U)].n = sent /\ U[Len(U)].k = U[Len(U)].len
  <2>1. Len(U) # 0
    BY <1>4, <1>12, EmptySeq
  <2>2. Len(U) \in 1 .. Len(T) - L /\ Len(U) + L = Len(T) /\ Len(T) \in L + 1 .. Len(T)
    BY <1>1, <1>4, <2>1
  <2>3. U[Len(U)] = T[Len(T)] /\ T[Len(T)].c = c
    BY <1>4, <1>7, <2>2
  <2>4. QED
    BY <1>6, <1>12, <2>3 DEF Fits
<1>13. ASSUME clean, U # <<>> PROVE U[1].c = c /\ U[1].k = 1 /\ U[1].n = Len(D) + 1
  <2>1. Len(U) # 0
    BY <1>4, <1>13, EmptySeq
  <2>2. L + 1 \in L + 1 .. Len(T) /\ L \in 1 .. Len(T) - 1 /\ 1 \in 1 .. Len(T) - L /\ 1 + L = L + 1
    BY <1>1, <1>4, <2>1
  <2>3. U[1] = T[L + 1] /\ T[L + 1].c = c /\ Follows(T[L], T[L + 1])
    BY <1>2, <1>4, <1>7, <2>2 DEF Fits, Chain
  <2>4. T[L + 1].k \in Int /\ T[L + 1].len \in Int /\ T[L + 1].k <= T[L + 1].len
    <3>1. L + 1 \in 1 .. Len(T)
      BY <1>1, <2>2
    <3>2. QED
      BY <1>1, <3>1 DEF Cell, PackageLengths
  <2>5. T[L + 1].n = T[1].n + 1 /\ T[L + 1].k = 1
    BY <1>1, <1>2, <2>3, <2>4 DEF Follows
  <2>6. QED
    BY <1>5, <1>6, <1>13, <2>3, <2>5
<1>14. ASSUME clean, U = <<>>, open PROVE Len(D) = sent
  <2>1. Len(T) = L
    BY <1>1, <1>4, <1>14, EmptySeq
  <2>2. T[1].n = sent
    BY <1>2, <1>6, <1>14, <2>1 DEF Fits
  <2>3. QED
    BY <1>5, <1>6, <1>14, <2>2
<1>15. Fits(U, c, sent, D, open, clean)
  BY <1>8, <1>10, <1>11, <1>12, <1>13, <1>14 DEF Fits
<1>16. QED
  BY <1>3, <1>6, <1>15 DEF U, D, e

\* A stream whose end is lost on the wire, ...
LEMMA StreamCut ==
    ASSUME NEW b \in Seq(WholeCell), NEW w \in Seq(WholeCell), NEW n \in 0 .. Len(w)
    PROVE  /\ Len(b) + n \in 0 .. Len(b \o w)
           /\ b \o SubSeq(w, 1, n) = SubSeq(b \o w, 1, Len(b) + n)
<1> DEFINE v == SubSeq(w, 1, n)
           T == b \o w
           U == b \o v
           m == Len(b) + n
<1>1. /\ v \in Seq(WholeCell) /\ Len(v) = n /\ \A i \in 1 .. n : v[i] = w[i]
      /\ Len(b) \in Nat /\ Len(w) \in Nat /\ n \in Nat /\ n <= Len(w)
  BY SuffixFacts, LenProperties
<1> HIDE DEF v
<1>2. /\ T \in Seq(WholeCell) /\ Len(T) = Len(b) + Len(w)
      /\ \A i \in 1 .. Len(b) + Len(w) : T[i] = IF i <= Len(b) THEN b[i] ELSE w[i - Len(b)]
  BY ConcatProperties
<1>3. /\ U \in Seq(WholeCell) /\ Len(U) = Len(b) + Len(v)
      /\ \A i \in 1 .. Len(b) + Len(v) : U[i] = IF i <= Len(b) THEN b[i] ELSE v[i - Len(b)]
  BY <1>1, ConcatProperties
<1> HIDE DEF T, U
<1>4. m \in 0 .. Len(T) /\ \A i \in 1 .. m : i \in 1 .. Len(T)
  BY <1>1, <1>2
<1>5. /\ SubSeq(T, 1, m) \in Seq(WholeCell) /\ Len(SubSeq(T, 1, m)) = m
      /\ \A i \in 1 .. m : SubSeq(T, 1, m)[i] = T[i]
  BY <1>2, <1>4, SuffixFacts
<1>6. ASSUME NEW i \in 1 .. m PROVE U[i] = SubSeq(T, 1, m)[i]
  <2>1. /\ i \in Nat /\ i \in 1 .. Len(b) + Len(w) /\ i \in 1 .. Len(b) + Len(v)
        /\ SubSeq(T, 1, m)[i] = T[i]
    BY <1>1, <1>5
  <2>2. CASE i <= Len(b)
    BY <1>2, <1>3, <2>1, <2>2
  <2>3. CASE ~ (i <= Len(b))
    <3>1. i - Len(b) \in 1 .. n
      BY <1>1, <2>1, <2>3
    <3>2. v[i - Len(b)] = w[i - Len(b)]
      BY <1>1, <3>1
    <3>3. QED
      BY <1>2, <1>3, <2>1, <2>3, <3>2
  <2>4. QED
    BY <2>2, <2>3
<1>7. Len(U) = m
  BY <1>1, <1>3
<1>8. U = SubSeq(T, 1, m)
  BY <1>3, <1>5, <1>6, <1>7, SeqEqual
<1>9. QED
  BY <1>4, <1>8 DEF T, U, v

\* ... one that moves on from the wire into the buffer, ...
LEMMA StreamMoves ==
    ASSUME NEW b \in Seq(WholeCell), NEW w \in Seq(WholeCell), NEW n \in 0 .. Len(w)
    PROVE  (b \o SubSeq(w, 1, n)) \o SubSeq(w, n + 1, Len(w)) = b \o w
<1> DEFINE v == SubSeq(w, 1, n)
           r == SubSeq(w, n + 1, Len(w))
<1>1. v \in Seq(WholeCell) /\ r \in Seq(WholeCell) /\ Len(w) \in Nat
  BY SuffixFacts, LenProperties
<1>2. v \o r = w
  <2> DEFINE one == 1
             l == Len(w)
  <2>1. one \in 1 .. Len(w) + 1 /\ n \in one - 1 .. Len(w) /\ l \in n .. Len(w)
    BY <1>1
  <2> HIDE DEF one, l
  <2>2. SubSeq(w, one, n) \o SubSeq(w, n + 1, l) = SubSeq(w, one, l)
    BY <2>1, ConcatAdjacentSubSeq
  <2>3. SubSeq(w, 1, Len(w)) = w
    BY SubSeqFull
  <2>4. QED
    BY <2>2, <2>3 DEF one, l
<1> HIDE DEF v, r
<1>3. (b \o v) \o r = b \o (v \o r)
  <2>1. \A x, y, z \in Seq(WholeCell) : (x \o y) \o z = x \o (y \o z)
    BY ConcatAssociative, SMTT(30)
  <2>2. QED
    BY <1>1, <2>1
<1>4. QED
  BY <1>2, <1>3 DEF v, r

\* ... and one whose first cells leave the buffer.
LEMMA StreamDrops ==
    ASSUME NEW b \in Seq(WholeCell), NEW w \in Seq(WholeCell), NEW d \in 0 .. Len(b)
    PROVE  /\ d \in 0 .. Len(b \o w)
           /\ SubSeq(b, d + 1, Len(b)) \o w = SubSeq(b \o w, d + 1, Len(b \o w))
<1> DEFINE r == SubSeq(b, d + 1, Len(b))
           T == b \o w
           U == r \o w
<1>1. /\ r \in Seq(WholeCell) /\ Len(r) = Len(b) - d /\ \A i \in 1 .. Len(b) - d : r[i] = b[i + d]
      /\ Len(b) \in Nat /\ Len(w) \in Nat /\ d \in Nat /\ d <= Len(b)
  BY SuffixFacts, LenProperties
<1> HIDE DEF r
<1>2. /\ T \in Seq(WholeCell) /\ Len(T) = Len(b) + Len(w)
      /\ \A i \in 1 .. Len(b) + Len(w) : T[i] = IF i <= Len(b) THEN b[i] ELSE w[i - Len(b)]
  BY ConcatProperties
<1>3. /\ U \in Seq(WholeCell) /\ Len(U) = Len(r) + Len(w)
      /\ \A i \in 1 .. Len(r) + Len(w) : U[i] = IF i <= Len(r) THEN r[i] ELSE w[i - Len(r)]
  BY <1>1, ConcatProperties
<1> HIDE DEF T, U
<1>4. d \in 0 .. Len(T) /\ Len(T) - d = Len(U)
  BY <1>1, <1>2, <1>3
<1>5. /\ SubSeq(T, d + 1, Len(T)) \in Seq(WholeCell) /\ Len(SubSeq(T, d + 1, Len(T))) = Len(T) - d
      /\ \A i \in 1 .. Len(T) - d : SubSeq(T, d + 1, Len(T))[i] = T[i + d]
  BY <1>2, <1>4, SuffixFacts
<1>6. ASSUME NEW i \in 1 .. Len(U) PROVE U[i] = T[i + d]
  <2>1. i \in Nat /\ i + d \in 1 .. Len(b) + Len(w) /\ (i <= Len(r) <=> i + d <= Len(b))
        /\ i - Len(r) = (i + d) - Len(b)
    BY <1>1, <1>2, <1>4
  <2>2. CASE i <= Len(r)
    <3>1. U[i] = r[i] /\ i \in 1 .. Len(b) - d
      BY <1>1, <1>3, <1>4, <2>1, <2>2
    <3>2. T[i + d] = b[i + d]
      BY <1>2, <2>1, <2>2
    <3>3. QED
      BY <1>1, <3>1, <3>2
  <2>3. CASE ~ (i <= Len(r))
    BY <1>2, <1>3, <2>1, <2>3
  <2>4. QED
    BY <2>2, <2>3
<1>7. U = SubSeq(T, d + 1, Len(T))
  BY <1>3, <1>4, <1>5, <1>6, SeqEqual
<1>8. QED
  BY <1>4, <1>7 DEF T, U, r

-----------------------------------------------------------------------------
(* The steps.                                                              *)

LEMMA SlotTypes ==
    ASSUME Types, NEW s \in Slots, conn[s] # None
    PROVE  /\ conn[s] \in Clients /\ buf[s] \in Seq(WholeCell) /\ wire[conn[s]] \in Seq(WholeCell)
           /\ Stream(s) \in Seq(WholeCell) /\ Len(Stream(s)) = Len(buf[s]) + Len(wire[conn[s]])
           /\ \A i \in 1 .. Len(buf[s]) : Stream(s)[i] = buf[s][i]
           /\ Len(buf[s]) \in Nat /\ Len(wire[conn[s]]) \in Nat
           /\ sentCount[conn[s]] \in 0 .. MaxPackages /\ handled[conn[s]] \in Seq(Taken)
<1>1. conn[s] \in Clients /\ buf[s] \in Seq(WholeCell) /\ wire[conn[s]] \in Seq(WholeCell)
  BY DEF Types
<1>2. QED
  BY <1>1, ConcatProperties, LenProperties DEF Types, Stream

\* A connection that the step does not touch.
LEMMA StaysInStep ==
    ASSUME Streams, NEW t \in Slots, conn[t] # None,
           conn'[t] = conn[t], buf'[t] = buf[t], wire'[conn[t]] = wire[conn[t]],
           sentCount'[conn[t]] = sentCount[conn[t]], handled'[conn[t]] = handled[conn[t]],
           phase'[conn[t]] = phase[conn[t]], conn[t] \notin tainted' <=> conn[t] \notin tainted
    PROVE  InStep(t)'
<1>1. Fits(Stream(t), conn[t], sentCount[conn[t]], handled[conn[t]], phase[conn[t]] = "up",
           conn[t] \notin tainted)
  BY DEF Streams, InStep
<1>2. Stream(t)' = Stream(t)
  BY DEF Stream
<1>3. (conn[t] \notin tainted') = (conn[t] \notin tainted)
  OBVIOUS
<1>4. QED
  BY <1>1, <1>2, <1>3 DEF InStep

LEMMA SendStep ==
    ASSUME Inv, NEW c \in Clients, NEW len \in PackageLengths, SendPackage(c, len)
    PROVE  Inv'
<1>1. /\ phase[c] = "up" /\ sentCount[c] < MaxPackages
      /\ sentCount' = [sentCount EXCEPT ![c] = @ + 1]
      /\ wire' = [wire EXCEPT ![c] = @ \o Cells(c, sentCount[c] + 1, len)]
      /\ UNCHANGED <<phase, conn, buf, busy, broken, handled, tainted, alive>>
  BY DEF SendPackage, history
<1>2. /\ sentCount[c] \in 0 .. MaxPackages - 1 /\ sentCount[c] + 1 \in 1 .. MaxPackages
      /\ sentCount \in [Clients -> 0 .. MaxPackages]
      /\ wire \in [Clients -> Seq(WholeCell)] /\ wire[c] \in Seq(WholeCell)
  BY <1>1 DEF Inv, Types
<1> DEFINE C == Cells(c, sentCount[c] + 1, len)
<1>3. /\ C \in Seq(WholeCell) /\ Len(C) = len /\ len \in Nat
      /\ \A i \in 1 .. len : C[i].c = c
  <2>1. /\ C \in Seq(WholeCell) /\ Len(C) = len /\ len \in Nat
        /\ \A i \in 1 .. len : C[i] = [c |-> c, n |-> sentCount[c] + 1, len |-> len, k |-> i]
    BY <1>2, CellsFacts
  <2> HIDE DEF C
  <2>2. QED
    BY <2>1
<1> HIDE DEF C
<1>4. /\ wire'[c] = wire[c] \o C /\ \A d \in Clients \ {c} : wire'[d] = wire[d]
      /\ sentCount'[c] = sentCount[c] + 1 /\ \A d \in Clients \ {c} : sentCount'[d] = sentCount[d]
  BY <1>1, <1>2 DEF C
<1>5. /\ wire[c] \o C \in Seq(WholeCell) /\ Len(wire[c] \o C) = Len(wire[c]) + len /\ Len(wire[c]) \in Nat
      /\ \A i \in 1 .. Len(wire[c]) + len :
            (wire[c] \o C)[i] = IF i <= Len(wire[c]) THEN wire[c][i] ELSE C[i - Len(wire[c])]
  <2>1. /\ wire[c] \o C \in Seq(WholeCell) /\ Len(wire[c] \o C) = Len(wire[c]) + Len(C)
        /\ \A i \in 1 .. Len(wire[c]) + Len(C) :
              (wire[c] \o C)[i] = IF i <= Len(wire[c]) THEN wire[c][i] ELSE C[i - Len(wire[c])]
    <3> DEFINE W == wire[c]
    <3>1. W \in Seq(WholeCell) /\ C \in Seq(WholeCell)
      BY <1>2, <1>3
    <3> HIDE DEF W
    <3>2. /\ W \o C \in Seq(WholeCell) /\ Len(W \o C) = Len(W) + Len(C)
          /\ \A i \in 1 .. Len(W) + Len(C) : (W \o C)[i] = IF i <= Len(W) THEN W[i] ELSE C[i - Len(W)]
      BY <3>1, ConcatProperties
    <3>3. QED
      BY <3>2 DEF W
  <2>2. QED
    BY <1>2, <1>3, <2>1, LenProperties
<1>6. Types'
  <2>1. wire' \in [Clients -> Seq(WholeCell)]
    BY <1>1, <1>2, <1>5 DEF C
  <2>2. sentCount' \in [Clients -> 0 .. MaxPackages]
    BY <1>1, <1>2
  <2>3. QED
    BY <1>1, <2>1, <2>2 DEF Inv, Types
<1>7. Connected'
  <2>1. ASSUME NEW i \in 1 .. Len(wire'[c]) PROVE wire'[c][i].c = c
    <3>1. CASE i <= Len(wire[c])
      BY <1>4, <1>5, <2>1, <3>1 DEF Inv, Connected
    <3>2. CASE ~ (i <= Len(wire[c]))
      <4>1. i - Len(wire[c]) \in 1 .. len
        BY <1>3, <1>4, <1>5, <3>2
      <4>2. QED
        BY <1>3, <1>4, <1>5, <3>2, <4>1
    <3>3. QED
      BY <3>1, <3>2
  <2>2. \A d \in Clients : \A i \in 1 .. Len(wire'[d]) : wire'[d][i].c = d
    BY <1>4, <2>1 DEF Inv, Connected
  <2>3. \A d \in Clients : phase[d] \in {"new", "gone"} => d # c
    BY <1>1
  <2>4. QED
    BY <1>1, <1>4, <2>2, <2>3 DEF Inv, Connected
<1>8. Fresh'
  <2>1. \A d \in Clients : phase[d] = "new" => d # c
    BY <1>1
  <2>2. QED
    BY <1>1, <1>4, <2>1 DEF Inv, Fresh
<1>9. Streams'
  <2> SUFFICES ASSUME NEW t \in Slots, conn[t] # None PROVE InStep(t)'
    BY <1>1 DEF Streams, InStep
  <2>1. CASE conn[t] = c
    <3>1. Fits(Stream(t), c, sentCount[c], handled[c], TRUE, c \notin tainted)
      <4>1. (phase[c] = "up") = TRUE
        BY <1>1
      <4>2. QED
        BY <2>1, <4>1 DEF Inv, Streams, InStep
    <3>2. Fits(Stream(t) \o C, c, sentCount[c] + 1, handled[c], TRUE, c \notin tainted)
      BY <1>2, <2>1, <3>1, SlotTypes, FitsSend DEF Inv, C
    <3>3. Stream(t)' = Stream(t) \o C
      <4>1. buf[t] \in Seq(WholeCell)
        BY SlotTypes DEF Inv
      <4>2. Stream(t)' = buf[t] \o (wire[c] \o C) /\ Stream(t) = buf[t] \o wire[c]
        BY <1>1, <1>4, <2>1 DEF Stream
      <4>3. wire[c] \in Seq(WholeCell) /\ C \in Seq(WholeCell)
        BY <1>2, <1>3
      <4>4. (buf[t] \o wire[c]) \o C = buf[t] \o (wire[c] \o C)
        <5> DEFINE B == buf[t]
                   W == wire[c]
        <5>1. B \in Seq(WholeCell) /\ W \in Seq(WholeCell) /\ C \in Seq(WholeCell)
          BY <4>1, <4>3
        <5> HIDE DEF B, W
        <5>2. (B \o W) \o C = B \o (W \o C)
          BY <5>1, ConcatAssociative
        <5>3. QED
          BY <5>2 DEF B, W
      <4>5. QED
        BY <4>2, <4>4
    <3>4. (phase'[c] = "up") = TRUE
      BY <1>1
    <3>5. QED
      BY <1>1, <1>4, <2>1, <3>2, <3>3, <3>4 DEF InStep
  <2>2. CASE conn[t] # c
    <3>1. conn[t] \in Clients
      BY SlotTypes DEF Inv
    <3>2. QED
      BY <1>1, <1>4, <2>2, <3>1, StaysInStep DEF Inv
  <2>3. QED
    BY <2>1, <2>2
<1>10. Heads' /\ NothingForged'
  BY <1>1 DEF Inv, Heads, NothingForged
<1>11. Counted'
  <2>1. \A d \in Clients : sentCount'[d] \in Int /\ sentCount[d] \in Int /\ sentCount[d] <= sentCount'[d]
                           /\ Len(handled[d]) \in Nat
    <3>1. \A d \in Clients : handled[d] \in Seq(Taken) /\ sentCount[d] \in 0 .. MaxPackages
      BY DEF Inv, Types
    <3>2. \A d \in Clients : sentCount'[d] = sentCount[d] \/ sentCount'[d] = sentCount[d] + 1
      BY <1>4
    <3>3. QED
      BY <3>1, <3>2, LenProperties
  <2>2. QED
    BY <1>1, <2>1 DEF Inv, Counted
<1>12. QED
  BY <1>6, <1>7, <1>8, <1>9, <1>10, <1>11 DEF Inv

\* A connection ends: orderly, or with the end of its stream lost.
LEMMA CloseStep ==
    ASSUME Inv, NEW c \in Clients, Close(c) \/ Break(c)
    PROVE  Inv'
<1>1. /\ phase[c] = "up" /\ phase' = [phase EXCEPT ![c] = "closed"]
      /\ UNCHANGED <<sentCount, conn, buf, busy, handled, tainted, alive>>
      /\ broken' \subseteq Clients
  BY DEF Close, Break, history, Inv, Types
<1>2. phase \in [Clients -> {"new", "up", "closed", "gone"}] /\ wire \in [Clients -> Seq(WholeCell)]
  BY DEF Inv, Types
<1>3. PICK n \in 0 .. Len(wire[c]) : wire' = [wire EXCEPT ![c] = SubSeq(@, 1, n)]
  <2>1. CASE Break(c)
    BY <2>1 DEF Break
  <2>2. CASE Close(c)
    <3>1. wire' = wire /\ SubSeq(wire[c], 1, Len(wire[c])) = wire[c] /\ Len(wire[c]) \in 0 .. Len(wire[c])
      BY <1>2, <2>2, SubSeqFull, LenProperties DEF Close
    <3>2. wire' = [wire EXCEPT ![c] = SubSeq(@, 1, Len(wire[c]))]
      BY <1>2, <3>1
    <3>3. QED
      BY <3>1, <3>2
  <2>3. QED
    BY <2>1, <2>2
<1>4. /\ wire'[c] = SubSeq(wire[c], 1, n) /\ \A d \in Clients \ {c} : wire'[d] = wire[d]
      /\ phase'[c] = "closed" /\ \A d \in Clients \ {c} : phase'[d] = phase[d]
  BY <1>1, <1>2, <1>3
<1>5. /\ wire'[c] \in Seq(WholeCell) /\ Len(wire'[c]) = n /\ Len(wire[c]) \in Nat
      /\ \A i \in 1 .. n : wire'[c][i] = wire[c][i]
  BY <1>2, <1>4, SuffixFacts, LenProperties
<1>6. Types'
  <2>1. wire' \in [Clients -> Seq(WholeCell)]
    BY <1>2, <1>3, <1>4, <1>5
  <2>2. phase' \in [Clients -> {"new", "up", "closed", "gone"}]
    BY <1>1, <1>2
  <2>3. QED
    BY <1>1, <2>1, <2>2 DEF Inv, Types
<1>7. Connected'
  <2>1. \A i \in 1 .. Len(wire'[c]) : wire'[c][i].c = c
    BY <1>5 DEF Inv, Connected
  <2>2. \A d \in Clients : phase'[d] \in {"up", "closed"} <=> phase[d] \in {"up", "closed"}
    BY <1>1, <1>4
  <2>3. \A d \in Clients : phase'[d] \in {"new", "gone"} => phase'[d] = phase[d] /\ d # c
    BY <1>4
  <2>4. /\ \A s, t \in Slots : conn'[s] = conn'[t] /\ conn'[s] # None => s = t
        /\ \A s \in Slots : conn'[s] # None => conn[s] \in Clients
    BY <1>1, SlotTypes DEF Inv, Connected
  <2>5. \A s \in Slots : conn'[s] # None => phase'[conn'[s]] \in {"up", "closed"}
    BY <1>1, <2>2, <2>4 DEF Inv, Connected
  <2>6. \A d \in Clients : phase'[d] \in {"up", "closed"} => \E s \in Slots : conn'[s] = d
    BY <1>1, <2>2 DEF Inv, Connected
  <2>7. \A d \in Clients : phase'[d] \in {"new", "gone"} => wire'[d] = <<>>
    BY <1>4, <2>3 DEF Inv, Connected
  <2>8. \A d \in Clients : \A i \in 1 .. Len(wire'[d]) : wire'[d][i].c = d
    BY <1>4, <2>1 DEF Inv, Connected
  <2>9. QED
    BY <2>4, <2>5, <2>6, <2>7, <2>8 DEF Connected
<1>8. Fresh'
  <2>1. \A d \in Clients : phase'[d] = "new" => phase[d] = "new"
    BY <1>4
  <2>2. QED
    BY <1>1, <2>1 DEF Inv, Fresh
<1>9. Streams'
  <2> SUFFICES ASSUME NEW t \in Slots, conn[t] # None PROVE InStep(t)'
    BY <1>1 DEF Streams, InStep
  <2>1. CASE conn[t] = c
    <3> DEFINE m == Len(buf[t]) + n
    <3>1. Fits(Stream(t), c, sentCount[c], handled[c], phase[c] = "up", c \notin tainted)
      BY <2>1 DEF Inv, Streams, InStep
    <3>2. m \in 0 .. Len(Stream(t)) /\ Stream(t)' = SubSeq(Stream(t), 1, m) /\ Stream(t) \in Seq(WholeCell)
      <4> DEFINE B == buf[t]
                 W == wire[c]
      <4>1. /\ B \in Seq(WholeCell) /\ W \in Seq(WholeCell) /\ Stream(t) \in Seq(WholeCell)
            /\ Stream(t) = B \o W /\ Stream(t)' = B \o SubSeq(W, 1, n)
        BY <1>1, <1>2, <1>4, <2>1, SlotTypes DEF Stream, Inv
      <4>2. n \in 0 .. Len(W)
        BY <1>3
      <4> HIDE DEF B, W
      <4>3. Len(B) + n \in 0 .. Len(B \o W) /\ B \o SubSeq(W, 1, n) = SubSeq(B \o W, 1, Len(B) + n)
        BY <4>1, <4>2, StreamCut
      <4>4. m = Len(B) + n
        BY DEF B
      <4>5. QED
        BY <4>1, <4>3, <4>4
    <3> HIDE DEF m
    <3>3. Fits(SubSeq(Stream(t), 1, m), c, sentCount[c], handled[c], FALSE, c \notin tainted)
      BY <3>1, <3>2, FitsCut
    <3>4. Stream(t)' = SubSeq(Stream(t), 1, m)
      BY <3>2
    <3>5. (phase'[c] = "up") = FALSE
      BY <1>4
    <3>6. QED
      BY <1>1, <2>1, <3>3, <3>4, <3>5 DEF InStep
  <2>2. CASE conn[t] # c
    <3>1. conn[t] \in Clients
      BY SlotTypes DEF Inv
    <3>2. QED
      BY <1>1, <1>4, <2>2, <3>1, StaysInStep DEF Inv
  <2>3. QED
    BY <2>1, <2>2
<1>10. Heads' /\ Counted' /\ NothingForged'
  BY <1>1 DEF Inv, Heads, Counted, NothingForged
<1>11. QED
  BY <1>6, <1>7, <1>8, <1>9, <1>10 DEF Inv

\* The stream of a connection begins, in a buffer that holds no cell of it.
LEMMA FitsNew ==
    ASSUME NEW T \in Seq(WholeCell), NEW c, \A i \in 1 .. Len(T) : T[i].c # c,
           NEW clean, clean => T = <<>>
    PROVE  Fits(T, c, 0, <<>>, TRUE, clean)
<1>1. Len(T) \in Nat /\ Len(<<>>) = 0 /\ (T # <<>> => Len(T) \in 1 .. Len(T))
  BY LenProperties, EmptySeq
<1>2. Chain(T, c)
  <2>1. \A i \in 1 .. Len(T) - 1 : i \in 1 .. Len(T)
    BY <1>1
  <2>2. QED
    BY <2>1 DEF Chain
<1>3. QED
  BY <1>1, <1>2 DEF Fits

\* A connection gets the lowest free slot.
LEMMA NewConnectionStep ==
    ASSUME Inv, NEW c \in Clients, NewConnection(c)
    PROVE  Inv'
<1>1. /\ alive /\ busy = None /\ phase[c] = "new" /\ phase' = [phase EXCEPT ![c] = "up"]
      /\ UNCHANGED <<sentCount, wire, buf, busy, broken, handled, alive>>
  BY DEF NewConnection, Idle
<1>2. PICK s \in Slots :
         /\ conn[s] = None
         /\ conn' = [conn EXCEPT ![s] = c]
         /\ tainted' = IF buf[s] # <<>> THEN tainted \cup {c} ELSE tainted
  BY DEF NewConnection
<1>3. /\ phase \in [Clients -> {"new", "up", "closed", "gone"}] /\ conn \in [Slots -> Clients \cup {None}]
      /\ buf[s] \in Seq(WholeCell) /\ tainted \subseteq Clients
      /\ s \in Slots /\ c # None
  BY <1>2 DEF Inv, Types
<1>4. /\ conn'[s] = c /\ \A t \in Slots \ {s} : conn'[t] = conn[t]
      /\ phase'[c] = "up" /\ \A d \in Clients \ {c} : phase'[d] = phase[d]
  BY <1>1, <1>2, <1>3
<1>5. \A t \in Slots : conn[t] # c
  BY <1>1, <1>3 DEF Inv, Connected
<1>6. Types'
  <2>1. conn' \in [Slots -> Clients \cup {None}] /\ phase' \in [Clients -> {"new", "up", "closed", "gone"}]
        /\ tainted' \subseteq Clients
    BY <1>1, <1>2, <1>3
  <2>2. QED
    BY <1>1, <2>1 DEF Inv, Types
<1>7. Connected'
  <2>1. \A t, u \in Slots : conn'[t] = conn'[u] /\ conn'[t] # None => t = u
    BY <1>4, <1>5 DEF Inv, Connected
  <2>2. \A t \in Slots : conn'[t] # None => phase'[conn'[t]] \in {"up", "closed"}
    BY <1>3, <1>4, <1>5 DEF Inv, Connected
  <2>3. ASSUME NEW d \in Clients, phase'[d] \in {"up", "closed"} PROVE \E t \in Slots : conn'[t] = d
    <3>1. CASE d = c
      BY <1>2, <1>4, <3>1
    <3>2. CASE d # c
      <4>1. PICK t \in Slots : conn[t] = d
        BY <1>4, <2>3, <3>2 DEF Inv, Connected
      <4>2. t # s
        BY <1>2, <4>1
      <4>3. QED
        BY <1>4, <4>1, <4>2
    <3>3. QED
      BY <3>1, <3>2
  <2>4. \A d \in Clients : phase'[d] \in {"new", "gone"} => wire'[d] = <<>>
    BY <1>1, <1>4 DEF Inv, Connected
  <2>5. \A d \in Clients : \A i \in 1 .. Len(wire'[d]) : wire'[d][i].c = d
    BY <1>1 DEF Inv, Connected
  <2>6. QED
    BY <2>1, <2>2, <2>3, <2>4, <2>5 DEF Connected
<1>8. Fresh'
  <2>1. \A d \in Clients : phase'[d] = "new" => phase[d] = "new"
    BY <1>4
  <2>2. QED
    BY <1>1, <2>1 DEF Inv, Fresh
<1>9. Streams'
  <2> SUFFICES ASSUME NEW t \in Slots, conn'[t] # None PROVE InStep(t)'
    BY DEF Streams, InStep
  <2>1. CASE t = s
    <3> DEFINE B == buf[s]
    <3>1. B \in Seq(WholeCell) /\ (c \notin tainted' => B = <<>>) /\ \A i \in 1 .. Len(B) : B[i].c # c
      BY <1>1, <1>2, <1>3 DEF Inv, Fresh
    <3>2. Stream(s)' = B
      <4>1. Stream(s)' = buf[s] \o wire[c]
        BY <1>1, <1>4 DEF Stream
      <4>2. wire[c] = <<>>
        BY <1>1 DEF Inv, Connected
      <4>3. B \o <<>> = B
        <5> HIDE DEF B
        <5>1. QED
          BY <3>1, ConcatEmptySeq
      <4>4. QED
        BY <4>1, <4>2, <4>3
    <3>3. Fits(B, c, 0, <<>>, TRUE, c \notin tainted')
      <4> HIDE DEF B
      <4>1. QED
        BY <3>1, FitsNew
    <3>4. /\ sentCount'[c] = 0 /\ handled'[c] = <<>> /\ (phase'[c] = "up") = TRUE
          /\ conn'[t] = c /\ Stream(t)' = B
      BY <1>1, <1>4, <2>1, <3>2 DEF Inv, Fresh
    <3> HIDE DEF B
    <3>5. Fits(Stream(t)', conn'[t], sentCount'[conn'[t]], handled'[conn'[t]], phase'[conn'[t]] = "up",
               conn'[t] \notin tainted')
      BY <3>3, <3>4
    <3>6. QED
      BY <3>5 DEF InStep
  <2>2. CASE t # s
    <3>1. conn'[t] = conn[t] /\ conn[t] \in Clients /\ conn[t] # c /\ conn[t] # None
      BY <1>3, <1>4, <1>5, <2>2
    <3>2. phase'[conn[t]] = phase[conn[t]] /\ (conn[t] \notin tainted' <=> conn[t] \notin tainted)
      BY <1>2, <1>4, <3>1
    <3>3. QED
      BY <1>1, <3>1, <3>2, StaysInStep DEF Inv
  <2>3. QED
    BY <2>1, <2>2
<1>10. Heads'
  <2>1. \A t \in Slots : Inspect(buf[t]) # "NoError"
    BY <1>1 DEF Inv, Heads, Slots
  <2>2. QED
    BY <1>1, <2>1 DEF Heads
<1>11. Counted' /\ NothingForged'
  <2>1. Clients \ tainted' \subseteq Clients \ tainted
    BY <1>2
  <2>2. QED
    BY <1>1, <2>1 DEF Inv, Counted, NothingForged
<1>12. QED
  BY <1>6, <1>7, <1>8, <1>9, <1>10, <1>11 DEF Inv

\* A connection that has ended, and whose bytes have all been read, leaves its slot.
LEMMA CutConnectionStep ==
    ASSUME Inv, NEW s \in Slots, CutConnection(s)
    PROVE  Inv'
<1> DEFINE c == conn[s]
<1>1. /\ alive /\ busy = None /\ c # None /\ phase[c] = "closed" /\ wire[c] = <<>>
      /\ phase' = [phase EXCEPT ![c] = "gone"] /\ conn' = [conn EXCEPT ![s] = None]
      /\ UNCHANGED <<sentCount, wire, buf, busy, broken, handled, tainted, alive>>
  BY DEF CutConnection, Idle, history
<1>2. /\ phase \in [Clients -> {"new", "up", "closed", "gone"}] /\ conn \in [Slots -> Clients \cup {None}]
      /\ c \in Clients
  BY <1>1 DEF Inv, Types
<1>3. \A t \in Slots \ {s} : conn[t] # c
  BY <1>1 DEF Inv, Connected
<1> HIDE DEF c
<1>4. /\ conn'[s] = None /\ \A t \in Slots \ {s} : conn'[t] = conn[t]
      /\ phase'[c] = "gone" /\ \A d \in Clients \ {c} : phase'[d] = phase[d]
  BY <1>1, <1>2
<1>5. Types'
  <2>1. conn' \in [Slots -> Clients \cup {None}] /\ phase' \in [Clients -> {"new", "up", "closed", "gone"}]
    BY <1>1, <1>2
  <2>2. QED
    BY <1>1, <2>1 DEF Inv, Types
<1>6. Connected'
  <2>1. \A t, u \in Slots : conn'[t] = conn'[u] /\ conn'[t] # None => t = u
    BY <1>4 DEF Inv, Connected
  <2>2. \A t \in Slots : conn'[t] # None => phase'[conn'[t]] \in {"up", "closed"}
    BY <1>2, <1>3, <1>4 DEF Inv, Connected
  <2>3. ASSUME NEW d \in Clients, phase'[d] \in {"up", "closed"} PROVE \E t \in Slots : conn'[t] = d
    <3>1. d # c
      BY <1>4, <2>3
    <3>2. PICK t \in Slots : conn[t] = d
      BY <1>4, <2>3, <3>1 DEF Inv, Connected
    <3>3. t # s
      BY <3>1, <3>2 DEF c
    <3>4. QED
      BY <1>4, <3>2, <3>3
  <2>4. \A d \in Clients : phase'[d] \in {"new", "gone"} => wire'[d] = <<>>
    BY <1>1, <1>4 DEF Inv, Connected
  <2>5. \A d \in Clients : \A i \in 1 .. Len(wire'[d]) : wire'[d][i].c = d
    BY <1>1 DEF Inv, Connected
  <2>6. QED
    BY <2>1, <2>2, <2>3, <2>4, <2>5 DEF Connected
<1>7. Fresh'
  <2>1. \A d \in Clients : phase'[d] = "new" => phase[d] = "new"
    BY <1>4
  <2>2. QED
    BY <1>1, <2>1 DEF Inv, Fresh
<1>8. Streams'
  <2> SUFFICES ASSUME NEW t \in Slots, conn'[t] # None PROVE InStep(t)'
    BY DEF Streams, InStep
  <2>1. t # s /\ conn'[t] = conn[t] /\ conn[t] # c /\ conn[t] # None /\ conn[t] \in Clients
    BY <1>2, <1>3, <1>4
  <2>2. phase'[conn[t]] = phase[conn[t]]
    BY <1>4, <2>1
  <2>3. QED
    BY <1>1, <2>1, <2>2, StaysInStep DEF Inv
<1>9. Heads'
  <2>1. \A t \in Slots : Inspect(buf[t]) # "NoError"
    BY <1>1 DEF Inv, Heads, Slots
  <2>2. QED
    BY <1>1, <2>1 DEF Heads
<1>10. Counted' /\ NothingForged'
  BY <1>1 DEF Inv, Counted, NothingForged
<1>11. QED
  BY <1>5, <1>6, <1>7, <1>8, <1>9, <1>10 DEF Inv

\* A piece of the stream moves from the wire into the buffer.
LEMMA ReceivedDataStep ==
    ASSUME Inv, NEW s \in Slots, ReceivedData(s)
    PROVE  Inv'
<1> DEFINE c == conn[s]
           b == buf[s]
           w == wire[c]
<1>1. /\ alive /\ busy = None /\ c # None /\ busy' = s
      /\ UNCHANGED <<phase, sentCount, conn, broken, handled, tainted, alive>>
  BY DEF ReceivedData, Idle, history
<1>2. /\ wire \in [Clients -> Seq(WholeCell)] /\ buf \in [Slots -> Seq(WholeCell)]
      /\ c \in Clients /\ b \in Seq(WholeCell) /\ w \in Seq(WholeCell)
      /\ phase[c] \in {"up", "closed"} /\ \A t \in Slots \ {s} : conn[t] # c
      /\ \A i \in 1 .. Len(w) : w[i].c = c
  BY <1>1 DEF Inv, Types, Connected
<1>3. PICK n \in 0 .. Len(w) :
         /\ buf' = [buf EXCEPT ![s] = b \o SubSeq(w, 1, n)]
         /\ wire' = [wire EXCEPT ![c] = SubSeq(w, n + 1, Len(w))]
  <2>1. PICK n \in 1 .. MaxRecv :
           /\ n <= Len(wire[conn[s]])
           /\ buf' = [buf EXCEPT ![s] = @ \o SubSeq(wire[conn[s]], 1, n)]
           /\ wire' = [wire EXCEPT ![conn[s]] = SubSeq(@, n + 1, Len(@))]
    BY DEF ReceivedData
  <2>2. n \in 0 .. Len(w)
    <3>1. Len(w) \in Nat
      BY <1>2, LenProperties
    <3>2. QED
      BY <2>1, <3>1
  <2>3. /\ buf' = [buf EXCEPT ![s] = b \o SubSeq(w, 1, n)]
        /\ wire' = [wire EXCEPT ![c] = SubSeq(w, n + 1, Len(w))]
    BY <1>2, <2>1
  <2>4. QED
    BY <2>2, <2>3
<1> DEFINE v == SubSeq(w, 1, n)
           r == SubSeq(w, n + 1, Len(w))
<1>4. /\ buf' = [buf EXCEPT ![s] = b \o v] /\ wire' = [wire EXCEPT ![c] = r] /\ n \in 0 .. Len(w)
      /\ conn[s] = c /\ buf[s] = b /\ wire[c] = w
  BY <1>3
<1> HIDE DEF c, b, w
<1>5. /\ v \in Seq(WholeCell) /\ r \in Seq(WholeCell) /\ (b \o v) \o r = b \o w
      /\ Len(v) = n /\ Len(r) = Len(w) - n /\ Len(w) \in Nat
      /\ \A i \in 1 .. Len(v) : v[i].c = c
      /\ \A i \in 1 .. Len(r) : r[i].c = c
  <2>1. /\ Len(v) = n /\ \A i \in 1 .. n : v[i] = w[i]
        /\ Len(r) = Len(w) - n /\ \A i \in 1 .. Len(w) - n : r[i] = w[i + n]
        /\ Len(w) \in Nat /\ v \in Seq(WholeCell) /\ r \in Seq(WholeCell)
    BY <1>2, <1>4, SuffixFacts, LenProperties
  <2>2. (b \o v) \o r = b \o w
    BY <1>2, <1>4, StreamMoves, ZenonT(60)
  <2> HIDE DEF v, r
  <2>3. \A i \in 1 .. n : i \in 1 .. Len(w)
    BY <1>4, <2>1
  <2>4. \A i \in 1 .. Len(w) - n : i + n \in 1 .. Len(w)
    BY <1>4, <2>1
  <2>5. QED
    BY <1>2, <2>1, <2>2, <2>3, <2>4, SMTT(30)
<1> HIDE DEF v, r
<1>6. /\ b \o v \in Seq(WholeCell) /\ Len(b \o v) = Len(b) + Len(v) /\ Len(b) \in Nat /\ Len(v) \in Nat
      /\ \A i \in 1 .. Len(b) + Len(v) : (b \o v)[i] = IF i <= Len(b) THEN b[i] ELSE v[i - Len(b)]
  <2>1. b \in Seq(WholeCell) /\ v \in Seq(WholeCell)
    BY <1>2, <1>5
  <2>2. QED
    BY <2>1, ConcatProperties, LenProperties
<1>7. /\ buf'[s] = b \o v /\ \A t \in Slots \ {s} : buf'[t] = buf[t]
      /\ wire'[c] = r /\ \A d \in Clients \ {c} : wire'[d] = wire[d]
  BY <1>2, <1>4
<1>8. \A i \in 1 .. Len(b \o v) : \/ i \in 1 .. Len(b) /\ (b \o v)[i] = b[i]
                                  \/ i > Len(b) /\ (b \o v)[i].c = c
  <2> SUFFICES ASSUME NEW i \in 1 .. Len(b \o v), ~ (i <= Len(b)) PROVE i > Len(b) /\ (b \o v)[i].c = c
    BY <1>6
  <2>1. i \in 1 .. Len(b) + Len(v) /\ i - Len(b) \in 1 .. Len(v) /\ i > Len(b)
    BY <1>6
  <2>2. QED
    BY <1>5, <1>6, <2>1
<1>9. Types'
  <2>1. buf' \in [Slots -> Seq(WholeCell)] /\ wire' \in [Clients -> Seq(WholeCell)]
    BY <1>2, <1>4, <1>5, <1>6
  <2>2. QED
    BY <1>1, <1>4, <2>1 DEF Inv, Types
<1>10. Connected'
  <2>1. \A d \in Clients : \A i \in 1 .. Len(wire'[d]) : wire'[d][i].c = d
    BY <1>5, <1>7 DEF Inv, Connected
  <2>2. \A d \in Clients : phase[d] \in {"new", "gone"} => wire'[d] = <<>>
    BY <1>2, <1>7 DEF Inv, Connected
  <2>3. QED
    BY <1>1, <2>1, <2>2 DEF Inv, Connected
<1>11. Fresh'
  <2> SUFFICES ASSUME NEW d \in Clients, phase[d] = "new"
               PROVE  \A t \in Slots : \A i \in 1 .. Len(buf'[t]) : buf'[t][i].c # d
    BY <1>1 DEF Inv, Fresh
  <2>1. d # c
    BY <1>2
  <2>2. \A t \in Slots : \A i \in 1 .. Len(buf[t]) : buf[t][i].c # d
    BY DEF Inv, Fresh
  <2>3. \A i \in 1 .. Len(buf'[s]) : buf'[s][i].c # d
    BY <1>4, <1>7, <1>8, <2>1, <2>2
  <2>4. QED
    BY <1>7, <2>2, <2>3
<1>12. Streams'
  <2> SUFFICES ASSUME NEW t \in Slots, conn[t] # None PROVE InStep(t)'
    BY <1>1 DEF Streams, InStep
  <2>1. CASE t = s
    <3>1. Stream(s)' = Stream(s)
      <4>1. Stream(s) = b \o w /\ Stream(s)' = (b \o v) \o r
        BY <1>1, <1>4, <1>7 DEF Stream
      <4>2. QED
        BY <1>5, <4>1
    <3>2. Fits(Stream(s), conn[s], sentCount[conn[s]], handled[conn[s]], phase[conn[s]] = "up",
               conn[s] \notin tainted)
      BY <2>1 DEF Inv, Streams, InStep
    <3>3. QED
      BY <1>1, <2>1, <3>1, <3>2 DEF InStep
  <2>2. CASE t # s
    <3>1. conn[t] \in Clients /\ conn[t] # c
      BY <1>2, <2>2, SlotTypes DEF Inv
    <3>2. QED
      BY <1>1, <1>7, <2>2, <3>1, StaysInStep DEF Inv
  <2>3. QED
    BY <2>1, <2>2
<1>13. Heads'
  <2>1. \A t \in Slots : Inspect(buf[t]) # "NoError"
    BY <1>1 DEF Inv, Heads, Slots
  <2>2. ASSUME Inspect(b \o v) = "NoError", (b \o v)[1].c # c PROVE FALSE
    <3> DEFINE B == b \o v
               L == TotalLength(B)
    <3>1. WholeHead(B, L)
      BY <1>6, <2>2, ValidHead
    <3>2. L \in {5, 6} /\ L <= Len(B) /\ \A i \in 1 .. L : B[i] = [c |-> B[1].c, n |-> B[1].n, len |-> L, k |-> i]
      BY <3>1 DEF WholeHead, PackageLengths
    <3> HIDE DEF L, B
    <3>3. B[L].c # c
      <4>1. \A x, i : [c |-> x, n |-> B[1].n, len |-> L, k |-> i].c = x
        OBVIOUS
      <4>2. L \in 1 .. L
        BY <3>2
      <4>3. B[L] = [c |-> B[1].c, n |-> B[1].n, len |-> L, k |-> L]
        BY <3>2, <4>2
      <4>4. B[L].c = B[1].c
        BY <4>1, <4>3
      <4>5. QED
        BY <2>2, <4>4 DEF B
    <3>4. L <= Len(b)
      <4>1. L \in 1 .. Len(b \o v)
        BY <1>6, <3>2 DEF B
      <4>2. QED
        BY <1>6, <1>8, <3>3, <4>1 DEF B
    <3>5. \A i \in 1 .. L : i \in 1 .. Len(b) /\ B[i] = b[i]
      <4>1. \A i \in 1 .. L : i \in 1 .. Len(b) /\ i \in 1 .. Len(b) + Len(v) /\ i <= Len(b)
        BY <1>6, <3>2, <3>4
      <4>2. QED
        BY <1>6, <4>1 DEF B
    <3>6. WholeHead(b, L)
      <4>1. B[1] = b[1]
        BY <3>2, <3>5
      <4>2. QED
        BY <3>2, <3>4, <3>5, <4>1 DEF WholeHead, PackageLengths
    <3>7. Inspect(b) = "NoError"
      BY <1>2, <3>6, HeadValid
    <3>8. QED
      BY <1>4, <2>1, <3>7
  <2>3. QED
    BY <1>1, <1>4, <1>7, <2>1, <2>2 DEF Heads
<1>14. Counted' /\ NothingForged'
  BY <1>1 DEF Inv, Counted, NothingForged
<1>15. QED
  BY <1>9, <1>10, <1>11, <1>12, <1>13, <1>14 DEF Inv

\* What a slot at work holds: the stream of its client, and others' slots are not of it.
LEMMA AtWork ==
    ASSUME Inv, busy \in Slots
    PROVE  /\ conn[busy] \in Clients /\ phase[conn[busy]] \in {"up", "closed"}
           /\ \A t \in Slots \ {busy} : conn[t] # conn[busy]
           /\ Fits(Stream(busy), conn[busy], sentCount[conn[busy]], handled[conn[busy]],
                   phase[conn[busy]] = "up", conn[busy] \notin tainted)
           /\ buf[busy] \in Seq(WholeCell) /\ wire[conn[busy]] \in Seq(WholeCell)
           /\ handled[conn[busy]] \in Seq(Taken)
           /\ Stream(busy) = buf[busy] \o wire[conn[busy]]
<1>1. busy # None /\ conn[busy] # None
  BY DEF Inv, Types, Slots
<1>2. QED
  BY <1>1 DEF Inv, Types, Connected, Streams, InStep, Stream

\* Nothing is taken off an empty buffer.
LEMMA EmptyBuffer == Inspect(<<>>) = "lengthIsNotLongEnough"
<1>1. Len(<<>>) = 0
  OBVIOUS
<1>2. QED
  BY <1>1 DEF Inspect, VersionCells

\* One round of handlePackage takes a whole package off the buffer.
LEMMA TakeStep ==
    ASSUME Inv, handlePackage, takePackage(buf[busy])
    PROVE  Inv'
<1> DEFINE s == busy
           c == conn[busy]
           b == buf[busy]
           w == wire[conn[busy]]
           done == handled[conn[busy]]
           T == b \o w
           L == TotalLength(b)
           r == SubSeq(b, L + 1, Len(b))
           e == [c |-> c, n |-> T[1].n]
<1>1. /\ alive /\ s \in Slots /\ Inspect(b) = "NoError"
      /\ handled' = [handled EXCEPT ![c] = Append(@, Package(b))]
      /\ buf' = [buf EXCEPT ![s] = r]
      /\ UNCHANGED <<phase, sentCount, wire, conn, busy, broken, tainted, alive>>
  BY DEF handlePackage, takePackage, client, Rest, Inv, Types
<1>2. /\ c \in Clients /\ phase[c] \in {"up", "closed"} /\ \A t \in Slots \ {s} : conn[t] # c
      /\ Fits(T, c, sentCount[c], done, phase[c] = "up", c \notin tainted)
      /\ b \in Seq(WholeCell) /\ w \in Seq(WholeCell) /\ done \in Seq(Taken)
      /\ handled \in [Clients -> Seq(Taken)] /\ buf \in [Slots -> Seq(WholeCell)]
      /\ buf[s] = b /\ wire[c] = w /\ handled[c] = done /\ conn[s] = c
      /\ b[1].c = c
  <2>1. b[1].c = c
    BY <1>1 DEF Inv, Heads
  <2>2. handled \in [Clients -> Seq(Taken)] /\ buf \in [Slots -> Seq(WholeCell)]
    BY DEF Inv, Types
  <2>3. /\ c \in Clients /\ phase[c] \in {"up", "closed"} /\ \A t \in Slots \ {s} : conn[t] # c
        /\ b \in Seq(WholeCell) /\ w \in Seq(WholeCell) /\ done \in Seq(Taken)
    BY <1>1, AtWork
  <2>4. Fits(T, c, sentCount[c], done, phase[c] = "up", c \notin tainted)
    <3>1. /\ Fits(Stream(s), c, sentCount[c], handled[c], phase[c] = "up", c \notin tainted)
          /\ Stream(s) = b \o w
      BY <1>1, AtWork
    <3>2. QED
      BY <3>1
  <2>5. QED
    BY <2>1, <2>2, <2>3, <2>4
<1>3. /\ WholeHead(b, L) /\ L \in 1 .. Len(b) /\ L \in 0 .. Len(b) /\ Len(b) \in Nat /\ 1 \in 1 .. Len(b)
  <2>1. WholeHead(b, L)
    BY <1>1, <1>2, ValidHead
  <2>2. Len(b) \in Nat
    BY <1>2, LenProperties
  <2>3. QED
    BY <2>1, <2>2 DEF WholeHead, PackageLengths
<1>4. Package(b) = [c |-> b[1].c, n |-> b[1].n]
  BY DEF Package
<1> HIDE DEF s, c, b, w, done, L
<1>5. /\ T \in Seq(WholeCell) /\ Len(T) = Len(b) + Len(w) /\ Len(w) \in Nat
      /\ \A i \in 1 .. Len(b) : T[i] = b[i]
  <2>1. /\ T \in Seq(WholeCell) /\ Len(T) = Len(b) + Len(w) /\ Len(w) \in Nat
        /\ \A i \in 1 .. Len(b) + Len(w) : T[i] = IF i <= Len(b) THEN b[i] ELSE w[i - Len(b)]
    BY <1>2, ConcatProperties, LenProperties
  <2>2. \A i \in 1 .. Len(b) : i \in 1 .. Len(b) + Len(w) /\ i <= Len(b)
    BY <1>3, <2>1
  <2> HIDE DEF T
  <2>3. QED
    BY <2>1, <2>2
<1>6. r \o w = SubSeq(T, L + 1, Len(T))
  BY <1>2, <1>3, StreamDrops
<1>7. r \in Seq(WholeCell) /\ Len(r) = Len(b) - L /\ \A i \in 1 .. Len(b) - L : r[i] = b[i + L]
  BY <1>2, <1>3, SuffixFacts
<1> HIDE DEF T, r
<1>8. WholeHead(T, L) /\ T[1] = b[1] /\ T[1].c = c
  <2>1. T[1] = b[1]
    BY <1>3, <1>5
  <2>2. L <= Len(T) /\ \A i \in 1 .. L : T[i] = b[i]
    BY <1>3, <1>5
  <2>3. QED
    BY <1>2, <1>3, <2>1, <2>2 DEF WholeHead
<1>9. /\ e \in Taken
      /\ Fits(SubSeq(T, L + 1, Len(T)), c, sentCount[c], Append(done, e), phase[c] = "up", c \notin tainted)
      /\ \A m \in 1 .. Len(done) : done[m].n < T[1].n
      /\ T[1].n <= sentCount[c]
      /\ c \notin tainted => T[1].n = Len(done) + 1
  <2> DEFINE sent == sentCount[c]
             open == phase[c] = "up"
             clean == c \notin tainted
  <2>1. Fits(T, c, sent, done, open, clean)
    BY <1>2
  <2> HIDE DEF sent, open, clean
  <2>2. /\ [c |-> c, n |-> T[1].n] \in Taken
        /\ Fits(SubSeq(T, L + 1, Len(T)), c, sent, Append(done, [c |-> c, n |-> T[1].n]), open, clean)
        /\ \A m \in 1 .. Len(done) : done[m].n < T[1].n
        /\ T[1].n <= sent
        /\ clean => T[1].n = Len(done) + 1
    <3>1. /\ T \in Seq(WholeCell) /\ WholeHead(T, L) /\ c \in Clients /\ T[1].c = c
          /\ done \in Seq(Taken)
      BY <1>2, <1>5, <1>8
    <3>2. QED
      BY <2>1, <3>1, FitsTake
  <2>3. QED
    BY <2>2 DEF sent, open, clean
<1>10. Package(b) = e /\ e.c = c /\ e.n = T[1].n
  BY <1>2, <1>4, <1>8
<1> HIDE DEF e
<1>11. /\ Append(done, e) \in Seq(Taken) /\ Len(Append(done, e)) = Len(done) + 1 /\ Len(done) \in Nat
       /\ \A m \in 1 .. Len(done) : Append(done, e)[m] = done[m]
       /\ Append(done, e)[Len(done) + 1] = e
  BY <1>2, <1>9, AppendContents, LenProperties
<1>12. /\ handled'[c] = Append(done, e) /\ \A d \in Clients \ {c} : handled'[d] = handled[d]
       /\ buf'[s] = r /\ \A t \in Slots \ {s} : buf'[t] = buf[t]
  BY <1>1, <1>2, <1>10
<1>13. \A i \in 1 .. Len(r) : i + L \in 1 .. Len(b) /\ r[i] = b[i + L]
  BY <1>3, <1>7
<1>14. Types'
  <2>1. handled' \in [Clients -> Seq(Taken)] /\ buf' \in [Slots -> Seq(WholeCell)]
    BY <1>1, <1>2, <1>7, <1>10, <1>11
  <2>2. QED
    BY <1>1, <2>1 DEF Inv, Types
<1>15. Connected'
  BY <1>1 DEF Inv, Connected
<1>16. Fresh'
  <2> SUFFICES ASSUME NEW d \in Clients, phase[d] = "new"
               PROVE  /\ sentCount[d] = 0 /\ handled'[d] = <<>>
                      /\ \A t \in Slots : \A i \in 1 .. Len(buf'[t]) : buf'[t][i].c # d
    BY <1>1 DEF Fresh
  <2>1. d # c /\ sentCount[d] = 0 /\ handled[d] = <<>>
    BY <1>2 DEF Inv, Fresh
  <2>2. \A t \in Slots : \A i \in 1 .. Len(buf[t]) : buf[t][i].c # d
    BY DEF Inv, Fresh
  <2>3. \A i \in 1 .. Len(r) : r[i].c # d
    BY <1>1, <1>2, <1>13, <2>2
  <2>4. QED
    BY <1>12, <2>1, <2>2, <2>3
<1>17. Streams'
  <2> SUFFICES ASSUME NEW t \in Slots, conn[t] # None PROVE InStep(t)'
    BY <1>1 DEF Streams, InStep
  <2>1. CASE t = s
    <3>1. Stream(t)' = SubSeq(T, L + 1, Len(T)) /\ conn'[t] = c /\ wire'[c] = w
      <4>1. conn'[t] = c /\ wire'[c] = w /\ buf'[t] = r
        BY <1>1, <1>2, <1>12, <2>1
      <4>2. QED
        BY <1>6, <4>1 DEF Stream
    <3>2. QED
      BY <1>1, <1>9, <1>12, <3>1 DEF InStep
  <2>2. CASE t # s
    <3>1. conn[t] \in Clients /\ conn[t] # c
      BY <1>2, <2>2, SlotTypes DEF Inv
    <3>2. QED
      BY <1>1, <1>12, <2>2, <3>1, StaysInStep DEF Inv
  <2>3. QED
    BY <2>1, <2>2
<1>18. Heads'
  <2>1. ASSUME NEW t \in Slots \ {s} PROVE Inspect(buf'[t]) # "NoError"
    <3>1. t # busy /\ buf'[t] = buf[t]
      BY <1>12 DEF s
    <3>2. QED
      BY <1>1, <3>1 DEF Inv, Heads
  <2>2. ASSUME Inspect(r) = "NoError" PROVE r[1].c = c
    <3>1. r # <<>>
      BY <2>2, EmptyBuffer
    <3>2. Len(r) # 0
      BY <1>7, <3>1, EmptySeq
    <3>3. 1 \in 1 .. Len(r) /\ 1 + L \in 1 .. Len(T) /\ 1 \in 1 .. Len(T) /\ 1 < 1 + L
      BY <1>3, <1>5, <1>7, <3>2
    <3>4. r[1] = T[1 + L]
      BY <1>5, <1>13, <3>3
    <3>5. T[1 + L].c = c
      BY <1>2, <1>8, <3>3 DEF Fits, Chain
    <3>6. QED
      BY <3>4, <3>5
  <2>3. ASSUME NEW t \in Slots, Inspect(buf'[t]) = "NoError" PROVE t = busy' /\ buf'[t][1].c = conn'[t]
    <3>1. t = s
      BY <2>1, <2>3
    <3>2. QED
      BY <1>1, <1>2, <1>12, <2>2, <2>3, <3>1 DEF s
  <2>4. QED
    BY <2>3 DEF Heads
<1>19. \A m \in 1 .. Len(done) + 1 : m \in 1 .. Len(done) \/ m = Len(done) + 1
  BY <1>11
<1>20. Counted'
  <2>1. ASSUME c \notin tainted
        PROVE  /\ Len(handled'[c]) <= sentCount[c]
               /\ \A m \in 1 .. Len(handled'[c]) : handled'[c][m].n = m
    <3>1. \A m \in 1 .. Len(done) : done[m].n = m
      BY <1>2, <2>1 DEF Inv, Counted
    <3>2. QED
      BY <1>9, <1>10, <1>11, <1>12, <1>19, <2>1, <3>1
  <2>2. \A d \in Clients \ tainted : d # c =>
            Len(handled'[d]) <= sentCount[d] /\ \A m \in 1 .. Len(handled'[d]) : handled'[d][m].n = m
    BY <1>12 DEF Inv, Counted
  <2>3. QED
    BY <1>1, <2>1, <2>2 DEF Counted
<1>21. NothingForged'
  <2>1. /\ DOMAIN handled'[c] = 1 .. Len(done) + 1 /\ DOMAIN done = 1 .. Len(done)
    BY <1>2, <1>11, <1>12, LenProperties
  <2>2. \A i \in 1 .. Len(done) + 1 : handled'[c][i].c = c
    BY <1>2, <1>10, <1>11, <1>12, <1>19, <2>1 DEF Inv, NothingForged
  <2>3. \A i, j \in 1 .. Len(done) + 1 : i < j => handled'[c][i].n < handled'[c][j].n
    <3> SUFFICES ASSUME NEW i \in 1 .. Len(done) + 1, NEW j \in 1 .. Len(done) + 1, i < j
                 PROVE  handled'[c][i].n < handled'[c][j].n
      OBVIOUS
    <3>1. i \in 1 .. Len(done)
      BY <1>11
    <3>2. CASE j \in 1 .. Len(done)
      <4>1. handled[c][i].n < handled[c][j].n
        BY <1>2, <2>1, <3>1, <3>2 DEF Inv, NothingForged
      <4>2. handled'[c][i] = done[i] /\ handled'[c][j] = done[j]
        BY <1>11, <1>12, <3>1, <3>2
      <4>3. QED
        BY <1>2, <4>1, <4>2
    <3>3. CASE j = Len(done) + 1
      BY <1>9, <1>10, <1>11, <1>12, <3>1, <3>3
    <3>4. QED
      BY <1>19, <3>2, <3>3
  <2>4. QED
    BY <1>12, <2>1, <2>2, <2>3 DEF Inv, NothingForged
<1>22. QED
  BY <1>14, <1>15, <1>16, <1>17, <1>18, <1>20, <1>21 DEF Inv

\* A data error: only a slot with cells of an earlier connection meets one, and its
\* buffer is cleared.
LEMMA ClearStep ==
    ASSUME Inv, handlePackage, clearBuffer(buf[busy])
    PROVE  Inv'
<1> DEFINE s == busy
           c == conn[busy]
           b == buf[busy]
           w == wire[conn[busy]]
           T == b \o w
<1>1. /\ alive /\ s \in Slots /\ Inspect(b) \in DataErrors
      /\ buf' = [buf EXCEPT ![s] = <<>>] /\ busy' = None
      /\ UNCHANGED <<phase, sentCount, wire, conn, broken, handled, tainted, alive>>
  BY DEF handlePackage, clearBuffer, client, Inv, Types
<1>2. /\ c \in Clients /\ \A t \in Slots \ {s} : conn[t] # c
      /\ Fits(T, c, sentCount[c], handled[c], phase[c] = "up", c \notin tainted)
      /\ b \in Seq(WholeCell) /\ w \in Seq(WholeCell)
      /\ buf \in [Slots -> Seq(WholeCell)] /\ wire[c] = w /\ conn[s] = c
  <2>1. buf \in [Slots -> Seq(WholeCell)]
    BY DEF Inv, Types
  <2>2. /\ Fits(Stream(s), c, sentCount[c], handled[c], phase[c] = "up", c \notin tainted)
        /\ Stream(s) = b \o w
    BY <1>1, AtWork
  <2>3. /\ c \in Clients /\ \A t \in Slots \ {s} : conn[t] # c
        /\ b \in Seq(WholeCell) /\ w \in Seq(WholeCell)
    BY <1>1, AtWork
  <2>4. QED
    BY <2>1, <2>2, <2>3
<1>3. /\ buf'[s] = <<>> /\ \A t \in Slots \ {s} : buf'[t] = buf[t]
  BY <1>1, <1>2
<1> HIDE DEF c, b, w
<1>4. /\ T \in Seq(WholeCell) /\ Len(T) = Len(b) + Len(w) /\ Len(w) \in Nat /\ Len(b) \in Nat
      /\ \A i \in 1 .. Len(b) : T[i] = b[i]
  <2>1. /\ T \in Seq(WholeCell) /\ Len(T) = Len(b) + Len(w) /\ Len(w) \in Nat /\ Len(b) \in Nat
        /\ \A i \in 1 .. Len(b) + Len(w) : T[i] = IF i <= Len(b) THEN b[i] ELSE w[i - Len(b)]
    BY <1>2, ConcatProperties, LenProperties
  <2>2. \A i \in 1 .. Len(b) : i \in 1 .. Len(b) + Len(w) /\ i <= Len(b)
    BY <2>1
  <2> HIDE DEF T
  <2>3. QED
    BY <2>1, <2>2
<1>5. Len(b) \in 0 .. Len(T) /\ w = SubSeq(T, Len(b) + 1, Len(T))
  <2> DEFINE d == Len(b)
             r == SubSeq(b, d + 1, Len(b))
  <2>1. d \in 0 .. Len(b) /\ d = Len(b)
    BY <1>4
  <2> HIDE DEF d
  <2>2. d \in 0 .. Len(T) /\ r \o w = SubSeq(T, d + 1, Len(T))
    BY <1>2, <2>1, StreamDrops
  <2>3. r \in Seq(WholeCell) /\ Len(r) = Len(b) - d
    BY <1>2, <2>1, SuffixFacts
  <2> HIDE DEF r, T
  <2>4. r = <<>>
    BY <1>4, <2>1, <2>3, EmptySeq
  <2>5. <<>> \o w = w
    BY <1>2, ConcatEmptySeq
  <2>6. QED
    BY <2>1, <2>2, <2>4, <2>5
<1> HIDE DEF T, s
<1>6. c \in tainted
  <2> SUFFICES ASSUME c \notin tainted PROVE FALSE
    OBVIOUS
  <2>1. Chain(b, c)
    <3> DEFINE d == 0
    <3>1. d \in Nat /\ d + Len(b) <= Len(T) /\ \A i \in 1 .. Len(b) : b[i] = T[i + d]
      BY <1>4
    <3> HIDE DEF d
    <3>2. Chain(T, c) /\ Len(T) \in Nat /\ Len(b) \in Nat
      BY <1>2, <1>4 DEF Fits
    <3>3. QED
      BY <3>1, <3>2, PieceChain
  <2>2. b # <<>> => b[1].c = c /\ b[1].k = 1
    <3> SUFFICES ASSUME b # <<>> PROVE b[1].c = c /\ b[1].k = 1
      OBVIOUS
    <3>1. Len(b) # 0
      BY <1>2, EmptySeq
    <3>2. 1 \in 1 .. Len(b) /\ Len(T) # 0
      BY <1>4, <3>1
    <3>3. T # <<>> /\ T[1] = b[1]
      BY <1>4, <3>2, EmptySeq
    <3>4. QED
      BY <1>2, <3>3 DEF Fits
  <2>3. Inspect(b) \notin DataErrors
    BY <1>2, <2>1, <2>2, CleanHead
  <2>4. QED
    BY <1>1, <2>3 DEF b
<1>7. Fits(w, c, sentCount[c], handled[c], phase[c] = "up", FALSE)
  <2> DEFINE sent == sentCount[c]
             done == handled[c]
             open == phase[c] = "up"
             clean == c \notin tainted
             d == Len(b)
  <2>1. Fits(T, c, sent, done, open, clean) /\ d \in 0 .. Len(T) /\ w = SubSeq(T, d + 1, Len(T))
    BY <1>2, <1>5
  <2> HIDE DEF sent, done, open, clean, d
  <2>2. Fits(SubSeq(T, d + 1, Len(T)), c, sent, done, open, FALSE)
    BY <1>4, <2>1, FitsClear
  <2>3. Fits(w, c, sent, done, open, FALSE)
    BY <2>1, <2>2
  <2>4. QED
    BY <2>3 DEF sent, done, open
<1>8. Types'
  <2>1. buf' \in [Slots -> Seq(WholeCell)]
    <3>1. <<>> \in Seq(WholeCell)
      OBVIOUS
    <3>2. QED
      BY <1>1, <1>2, <3>1
  <2>2. QED
    BY <1>1, <2>1 DEF Inv, Types
<1>9. Connected' /\ Counted' /\ NothingForged'
  BY <1>1 DEF Inv, Connected, Counted, NothingForged
<1>10. Fresh'
  <2>1. Len(<<>>) = 0
    OBVIOUS
  <2>2. \A t \in Slots : buf'[t] = <<>> \/ buf'[t] = buf[t]
    BY <1>3
  <2>3. QED
    BY <1>1, <2>1, <2>2 DEF Inv, Fresh
<1>11. Streams'
  <2> SUFFICES ASSUME NEW t \in Slots, conn[t] # None PROVE InStep(t)'
    BY <1>1 DEF Streams, InStep
  <2>1. CASE t = s
    <3>1. Stream(t)' = <<>> \o w /\ conn'[t] = c
      BY <1>1, <1>2, <1>3, <2>1 DEF Stream
    <3>2. <<>> \o w = w
      BY <1>2, ConcatEmptySeq
    <3>3. (c \notin tainted) = FALSE
      BY <1>6
    <3>4. QED
      BY <1>1, <1>7, <3>1, <3>2, <3>3 DEF InStep
  <2>2. CASE t # s
    <3>1. conn[t] \in Clients /\ conn[t] # c
      BY <1>2, <2>2, SlotTypes DEF Inv
    <3>2. QED
      BY <1>1, <1>3, <2>2, <3>1, StaysInStep DEF Inv
  <2>3. QED
    BY <2>1, <2>2
<1>12. Heads'
  <2>1. ASSUME NEW t \in Slots PROVE Inspect(buf'[t]) # "NoError"
    <3>1. CASE t = s
      BY <1>3, <3>1, EmptyBuffer
    <3>2. CASE t # s
      BY <1>1, <1>3, <3>2 DEF Inv, Heads, s
    <3>3. QED
      BY <3>1, <3>2
  <2>2. QED
    BY <2>1 DEF Heads
<1>13. QED
  BY <1>8, <1>9, <1>10, <1>11, <1>12 DEF Inv

\* The end of an event: the buffer does not hold a whole package, or holds a header
\* that is none, which ends the process.
LEMMA EndStep ==
    ASSUME Inv, handlePackage, awaitMore(buf[busy]) \/ throwOut(buf[busy])
    PROVE  Inv'
<1>1. /\ busy \in Slots /\ alive
      /\ UNCHANGED <<phase, sentCount, wire, conn, buf, broken, handled, tainted>>
  BY DEF handlePackage, awaitMore, throwOut, client, Inv, Types
<1>2. \/ busy' = None /\ alive' = alive /\ Inspect(buf[busy]) # "NoError"
      \/ busy' = busy /\ alive' = FALSE
  BY DEF awaitMore, throwOut, NotCompleted
<1>3. Types'
  BY <1>1, <1>2 DEF Inv, Types
<1>4. Heads'
  BY <1>1, <1>2 DEF Inv, Heads
<1>5. Connected' /\ Fresh' /\ Counted' /\ NothingForged'
  BY <1>1 DEF Inv, Connected, Fresh, Counted, NothingForged
<1>6. Streams'
  <2> SUFFICES ASSUME NEW t \in Slots, conn[t] # None PROVE InStep(t)'
    BY <1>1 DEF Streams, InStep
  <2>1. QED
    BY <1>1, StaysInStep DEF Inv
<1>7. QED
  BY <1>3, <1>4, <1>5, <1>6 DEF Inv

LEMMA InitInv == Init => Inv
<1> SUFFICES ASSUME Init PROVE Inv
  OBVIOUS
<1>1. /\ <<>> \in Seq(WholeCell) /\ <<>> \in Seq(Taken) /\ Len(<<>>) = 0 /\ DOMAIN <<>> = {}
      /\ 0 \in 0 .. MaxPackages
  OBVIOUS
<1>2. Types
  BY <1>1 DEF Init, Types
<1>3. Connected /\ Streams
  BY <1>1 DEF Init, Connected, Streams, InStep
<1>4. Fresh /\ Counted /\ NothingForged
  BY <1>1 DEF Init, Fresh, Counted, NothingForged
<1>5. Heads
  BY EmptyBuffer DEF Init, Heads
<1>6. QED
  BY <1>2, <1>3, <1>4, <1>5 DEF Inv

LEMMA InvStep == Inv /\ [Next]_vars => Inv'
<1> SUFFICES ASSUME Inv, [Next]_vars PROVE Inv'
  OBVIOUS
<1>1. ASSUME NEW c \in Clients, NEW len \in PackageLengths, SendPackage(c, len) PROVE Inv'
  BY <1>1, SendStep
<1>2. ASSUME NEW c \in Clients, Close(c) \/ Break(c) PROVE Inv'
  BY <1>2, CloseStep
<1>3. ASSUME NEW c \in Clients, NewConnection(c) PROVE Inv'
  BY <1>3, NewConnectionStep
<1>4. ASSUME NEW s \in Slots, ReceivedData(s) PROVE Inv'
  BY <1>4, ReceivedDataStep
<1>5. ASSUME NEW s \in Slots, CutConnection(s) PROVE Inv'
  BY <1>5, CutConnectionStep
<1>6. CASE handlePackage
  <2>1. \/ takePackage(buf[busy]) \/ clearBuffer(buf[busy])
        \/ awaitMore(buf[busy]) \/ throwOut(buf[busy])
    BY <1>6 DEF handlePackage
  <2>2. QED
    BY <1>6, <2>1, TakeStep, ClearStep, EndStep
<1>7. CASE UNCHANGED vars
  <2>1. UNCHANGED <<phase, sentCount, wire, conn, buf, busy, broken, handled, tainted, alive>>
    BY <1>7 DEF vars, client, history
  <2>2. Types' /\ Connected' /\ Fresh' /\ Heads' /\ Counted' /\ NothingForged'
    BY <2>1 DEF Inv, Types, Connected, Fresh, Heads, Counted, NothingForged
  <2>3. Streams'
    BY <2>1, StaysInStep DEF Inv, Streams, InStep
  <2>4. QED
    BY <2>2, <2>3 DEF Inv
<1>8. QED
  BY <1>1, <1>2, <1>3, <1>4, <1>5, <1>6, <1>7 DEF Next

LEMMA WhatInvSays == Inv => HandledWasSent
<1> SUFFICES ASSUME Inv PROVE HandledWasSent
  OBVIOUS
<1>1. TypeOK
  <2>1. \A q \in Seq(WholeCell) : q \in Seq(Cell)
    <3>1. WholeCell \subseteq Cell
      BY DEF WholeCell
    <3> HIDE DEF WholeCell, Cell
    <3>2. QED
      BY <3>1, SeqMonotonic
  <2>2. wire \in [Clients -> Seq(Cell)] /\ buf \in [Slots -> Seq(Cell)]
    BY <2>1 DEF Inv, Types
  <2>3. QED
    BY <2>2 DEF Inv, Types, TypeOK, Taken
<1>2. InOrder
  <2> SUFFICES ASSUME NEW c \in Clients \ tainted PROVE IsPrefix(handled[c], Sent(c))
    BY DEF InOrder
  <2> DEFINE h == handled[c]
             n == Len(h)
             all == Sent(c)
  <2>1. /\ h \in Seq(Taken) /\ n \in Nat /\ DOMAIN h = 1 .. n /\ sentCount[c] \in Nat
        /\ sentCount[c] <= MaxPackages /\ n <= sentCount[c]
        /\ \A m \in 1 .. n : h[m].n = m /\ h[m].c = c
    <3>1. h \in Seq(Taken) /\ sentCount[c] \in 0 .. MaxPackages
      BY DEF Inv, Types
    <3>2. n \in Nat /\ DOMAIN h = 1 .. n
      BY <3>1, LenProperties
    <3>3. QED
      BY <3>1, <3>2 DEF Inv, Counted, NothingForged
  <2>2. all \in Seq(Taken) /\ Len(all) = sentCount[c] /\ \A m \in 1 .. sentCount[c] : all[m] = [c |-> c, n |-> m]
    <3>1. all \in [1 .. sentCount[c] -> Taken]
      BY <2>1 DEF Sent, Taken
    <3>2. \A m \in 1 .. sentCount[c] : all[m] = [c |-> c, n |-> m]
      BY DEF Sent
    <3>3. QED
      BY <2>1, <3>1, <3>2, FunctionIsSeq
  <2> HIDE DEF all, h
  <2>3. \A m \in 1 .. n : h[m] = all[m]
    <3> SUFFICES ASSUME NEW m \in 1 .. n PROVE h[m] = all[m]
      OBVIOUS
    <3>1. h[m] \in Taken /\ m \in 1 .. sentCount[c]
      BY <2>1, ElementOfSeq
    <3>2. h[m] = [c |-> h[m].c, n |-> h[m].n]
      BY <3>1 DEF Taken
    <3>3. QED
      BY <2>1, <2>2, <3>1, <3>2
  <2>4. h = SubSeq(all, 1, n)
    <3>1. /\ SubSeq(all, 1, n) \in Seq(Taken) /\ Len(SubSeq(all, 1, n)) = n
          /\ \A m \in 1 .. n : SubSeq(all, 1, n)[m] = all[m]
      <4>1. \A m \in 1 .. n : all[m] \in Taken
        BY <2>1, <2>2, ElementOfSeq
      <4>2. QED
        BY <2>1, <2>2, <4>1, SubSeqProperties
    <3>2. QED
      BY <2>1, <2>3, <3>1, SeqEqual
  <2>5. Len(h) <= Len(all)
    BY <2>1, <2>2
  <2>6. IsPrefix(h, all)
    BY <2>1, <2>4, <2>5 DEF IsPrefix
  <2>7. QED
    BY <2>6 DEF h, all
<1>3. QED
  BY <1>1, <1>2 DEF Inv, HandledWasSent

\* However TCP cuts the stream of a connection into pieces, and whatever connections used
\* its slot before, handlePackage takes packages off it that were sent over it, each once,
\* in their order; and if the buffer was empty when it came, none of them is passed over.
THEOREM HandledCorrect == Spec => []HandledWasSent
<1>1. Init => Inv
  BY InitInv
<1>2. Inv /\ [Next]_vars => Inv'
  BY InvStep
<1>3. Inv => HandledWasSent
  BY WhatInvSays
<1>4. QED
  BY <1>1, <1>2, <1>3, PTL DEF Spec
=============================================================================
