---------------------------- MODULE MemoryProofs -----------------------------
(***************************************************************************)
(* What the process frees, nobody uses any more: FreedRulesUnused of       *)
(* Lifecycle; and of the JSON library, that reference counts are exact     *)
(* (CountsExact of JsonHeap) and that objects are ordered maps             *)
(* (ObjectsAreMaps, by which JsonTable implements JsonObjects), under the  *)
(* names of JsonValues.                                                    *)
(***************************************************************************)
EXTENDS Lifecycle, JsonValues, SequenceLemmas, FiniteSetTheorems

(***************************************************************************)
(* FreedRulesUnused for every number of slots, brokers, devices, peers and *)
(* rules.  What carries it is the order in which main stops things: the    *)
(* ruler is gone before the first rule is deleted, and once the server is  *)
(* gone too nobody is left to read one.                                    *)
(***************************************************************************)

AfterRuler == {"free", "stop manager", "stop udp", "return", "ended"}
AfterServer == {"stop udp", "return", "ended"}

RunOK == run \in [Threads -> {"none", "running", "ended", "killed"}]
FreedLate == freed # {} => pc \in AfterRuler
RulerGone == pc \in AfterRuler => run["ruler"] # "running"
ServerGone == pc \in AfterServer => run["server"] # "running"

\* FreedRulesUnused alone is not inductive: that a rule was deleted has to say how
\* far main is, and how far main is which threads still run.
Inv == RunOK /\ FreedLate /\ RulerGone /\ ServerGone /\ FreedRulesUnused

\* Steps of the threads and of the programs outside that fault nothing: main, the
\* threads and what was deleted stay as they are.
LEMMA Untouched ==
    ASSUME Inv, pc' = pc, run' = run, freed' = freed, fault' = fault
    PROVE  Inv'
BY DEF Inv, RunOK, FreedLate, RulerGone, ServerGone, FreedRulesUnused

\* Steps of main that fault and delete nothing: what is left to show is that main does
\* not leave the last part of its course, and enters it with the threads stopped.
LEMMA MainStep ==
    ASSUME Inv, alive, RunOK', freed' = freed, fault' = fault,
           pc \in AfterRuler => pc' \in AfterRuler,
           RulerGone', ServerGone'
    PROVE  Inv'
BY DEF Inv, alive, FreedLate, FreedRulesUnused

\* Main: one step per action.
LEMMA MainKeepsInv == ASSUME Inv, Main \/ Key PROVE Inv'
<1> USE DEF AfterRuler, AfterServer, Threads
<1>1. RunOK /\ FreedLate /\ RulerGone /\ ServerGone
  BY DEF Inv
<1>2. ASSUME NEW t \in Threads, NEW from, NEW to, Start(t, from, to),
             from \in {"start udp", "start manager", "start ruler"},
             to \in {"start manager", "start ruler", "sleep"}
      PROVE  Inv'
  <2>1. alive /\ pc = from /\ pc' = to /\ freed' = freed /\ fault' = fault
    BY <1>2 DEF Start, Goto, manager, ruleVars
  <2>2. RunOK'
    BY <1>1, <1>2 DEF Start, RunOK
  <2> QED
    BY <1>2, <2>1, <2>2, MainStep DEF RulerGone, ServerGone
<1>3. ASSUME alive, run' = run, freed' = freed, fault' = fault,
             pc \notin AfterRuler, pc' \notin AfterRuler
      PROVE  Inv'
  BY <1>1, <1>3, MainStep DEF RunOK, RulerGone, ServerGone
<1>4. CASE Sleep
  BY <1>3, <1>4 DEF Sleep, Goto, process, manager, ruleVars
<1>5. CASE ConnectBroker
  BY <1>3, <1>5 DEF ConnectBroker, Goto, NextBroker, process, manager, ruleVars
<1>6. CASE OpenPort
  BY <1>3, <1>6 DEF OpenPort, NextBroker, process, manager, ruleVars
<1>7. CASE AskIoTIp
  BY <1>3, <1>7 DEF AskIoTIp, Goto, process, manager, ruleVars
<1>8. CASE GotIoTIp
  BY <1>3, <1>8 DEF GotIoTIp, Goto, process, manager, ruleVars
<1>9. CASE Register
  BY <1>3, <1>9 DEF Register, NextBroker, process, manager, ruleVars
<1>10. CASE Key
  BY <1>3, <1>10 DEF Key, process, manager, ruleVars
<1>11. CASE StopBroker
  BY <1>3, <1>11 DEF StopBroker, NextBroker, process, manager, ruleVars
<1>12. CASE StopRuler
  <2>1. /\ alive /\ pc = "stop ruler" /\ pc' = "free" /\ freed' = freed /\ fault' = fault
        /\ run' = [run EXCEPT !["ruler"] = IF @ = "running" THEN "killed" ELSE @]
    BY <1>12 DEF StopRuler, Kill, manager, ruleVars
  <2>2. RunOK' /\ run'["ruler"] # "running"
    BY <1>1, <2>1 DEF RunOK
  <2> QED
    BY <2>1, <2>2, MainStep DEF RulerGone, ServerGone
<1>13. CASE FreeRule
  <2>1. alive /\ pc = "free" /\ pc' = pc /\ run' = run
    BY <1>13 DEF FreeRule, process
  <2>2. fault' = fault \/ fault' = <<"main", "range">>
    BY <1>13 DEF FreeRule
  <2>3. FreedRulesUnused'
    BY <2>1, <2>2 DEF FreedRulesUnused, alive
  <2> QED
    BY <1>1, <2>1, <2>3 DEF Inv, RunOK, FreedLate, RulerGone, ServerGone
<1>14. CASE RulesFreed
  <2>1. /\ alive /\ pc = "free" /\ pc' = "stop manager"
        /\ run' = run /\ freed' = freed /\ fault' = fault
    BY <1>14 DEF RulesFreed, process, manager, ruleVars
  <2> QED
    BY <1>1, <2>1, MainStep DEF RunOK, RulerGone, ServerGone
<1>15. ASSUME NEW t \in {"server", "udp"}, NEW from, NEW to, StopServer(t, from, to),
              from \in {"stop manager", "stop udp"}, to \in {"stop udp", "return"},
              t = "server" \/ from = "stop udp"
       PROVE  Inv'
  <2>1. /\ alive /\ pc = from /\ pc' = to /\ freed' = freed /\ fault' = fault
        /\ run' = [run EXCEPT ![t] = IF @ = "running" THEN "killed" ELSE @]
    BY <1>15 DEF StopServer, Goto, Kill, manager, ruleVars
  <2>2. RunOK' /\ run'["ruler"] = run["ruler"]
    BY <1>1, <1>15, <2>1 DEF RunOK
  <2>3. RulerGone'
    BY <1>1, <1>15, <2>1, <2>2 DEF RulerGone
  <2>4. run'["server"] # "running"
    BY <1>1, <1>15, <2>1 DEF RunOK, ServerGone
  <2> QED
    BY <1>15, <2>1, <2>2, <2>3, <2>4, MainStep DEF ServerGone
<1>16. CASE Return
  <2>1. /\ alive /\ pc = "return" /\ pc' = "ended"
        /\ run' = run /\ freed' = freed /\ fault' = fault
    BY <1>16 DEF Return, Goto, process, manager, ruleVars
  <2> QED
    BY <1>1, <2>1, MainStep DEF RunOK, RulerGone, ServerGone
<1> QED
  BY <1>2, <1>4, <1>5, <1>6, <1>7, <1>8, <1>9, <1>10, <1>11, <1>12, <1>13, <1>14, <1>15,
     <1>16 DEF Main

\* The threads: only noticeReloadDeviceList and scanRules read rules.
LEMMA ThreadsKeepInv ==
    ASSUME Inv, UdpThread \/ ServerThread \/ RulerThread PROVE Inv'
<1> USE DEF AfterRuler, AfterServer, Threads
<1>1. RunOK /\ FreedLate /\ RulerGone /\ ServerGone
  BY DEF Inv
<1>2. ASSUME NEW t \in {"udp", "server"}, Bind(t) PROVE Inv'
  <2>1. pc' = pc /\ freed' = freed /\ fault' = fault
    BY <1>2 DEF Bind, main, manager, ruleVars
  <2>2. run' = run \/ run' = [run EXCEPT ![t] = "ended"]
    BY <1>2 DEF Bind
  <2>3. RunOK' /\ RulerGone' /\ ServerGone'
    BY <1>1, <2>1, <2>2 DEF RunOK, RulerGone, ServerGone
  <2> QED
    BY <1>2, <2>1, <2>3, MainStep DEF Bind, Runs
<1>3. ASSUME NEW t \in Threads, Release(t) PROVE Inv'
  BY <1>3, Untouched DEF Release, main, manager, ruleVars
<1>4. ASSUME NEW p, AnswerBroadcast(p) PROVE Inv'
  BY <1>4, Untouched DEF AnswerBroadcast, main, manager, ruleVars
<1>5. CASE Select
  BY <1>5, Untouched DEF Select, main, process, ruleVars
<1>6. ASSUME NEW s, HandlePackage(s) PROVE Inv'
  BY <1>6, Untouched DEF HandlePackage, main
<1>7. ASSUME NEW s, CutConnection(s) PROVE Inv'
  BY <1>7, Untouched DEF CutConnection, main, ruleVars
<1>8. CASE noticeReloadDeviceList
  <2>1. alive /\ run["server"] = "running" /\ pc' = pc /\ run' = run /\ freed' = freed
    BY <1>8 DEF noticeReloadDeviceList, ServerRuns, Runs, main, process
  <2>2. fault' = fault \/ (fault' = <<"server", "freed">> /\ freed # {})
    BY <1>8 DEF noticeReloadDeviceList
  <2>3. CASE fault' = fault
    BY <2>1, <2>3, Untouched
  <2>4. CASE fault' = <<"server", "freed">> /\ freed # {}
    <3>1. pc \in {"free", "stop manager"}
      BY <1>1, <2>1, <2>4 DEF FreedLate, ServerGone, alive
    <3> QED
      BY <1>1, <2>1, <2>4, <3>1
      DEF Inv, RunOK, FreedLate, RulerGone, ServerGone, FreedRulesUnused
  <2> QED
    BY <2>2, <2>3, <2>4
<1>9. CASE beginScan
  BY <1>9, Untouched DEF beginScan, main, process, manager, ruleVars
<1>10. CASE scanRules
  <2>1. /\ alive /\ run["ruler"] = "running"
        /\ pc' = pc /\ run' = run /\ freed' = freed
    BY <1>10 DEF scanRules, Runs, main, manager, ruleVars
  <2>2. freed = {}
    BY <1>1, <2>1 DEF FreedLate, RulerGone
  <2>3. fault' = fault \/ fault' = <<"ruler", "range">>
    BY <1>10, <2>2 DEF scanRules
  <2>4. fault = None
    BY <2>1 DEF alive
  <2>5. fault' = None \/ fault'[2] = "range"
    BY <2>3, <2>4
  <2>6. FreedRulesUnused'
    BY <2>5 DEF FreedRulesUnused
  <2> QED
    BY <1>1, <2>1, <2>6 DEF Inv, RunOK, FreedLate, RulerGone, ServerGone
<1> QED
  BY <1>2, <1>3, <1>4, <1>5, <1>6, <1>7, <1>8, <1>9, <1>10
  DEF UdpThread, ServerThread, RulerThread

\* The programs outside change nothing of the process.
LEMMA OutsideKeepsInv == ASSUME Inv, Outside \/ Over PROVE Inv'
<1>1. ASSUME NEW p, Broadcast(p) \/ PeerConnects(p) \/ PeerLeaves(p) PROVE Inv'
  BY <1>1, Untouched
  DEF Broadcast, PeerConnects, PeerLeaves, main, process, manager, ruleVars
<1>2. ASSUME NEW p, NEW d, PeerInstalls(p, d) PROVE Inv'
  BY <1>2, Untouched DEF PeerInstalls, main, process, manager, ruleVars
<1>3. CASE Over
  BY <1>3, Untouched DEF Over, vars, main, process, manager, ruleVars
<1> QED
  BY <1>1, <1>2, <1>3 DEF Outside

\* No rule is read after StopRuler deleted it, except by the server thread while main
\* is between StopRuler and the end of StopManager (Ruler.cpp:22-31, main.cpp:344-349).
THEOREM FreedRulesNeverRead == Spec => []FreedRulesUnused
<1>1. Init => Inv
  BY DEF Init, Inv, RunOK, FreedLate, RulerGone, ServerGone, FreedRulesUnused, Threads,
         AfterRuler, AfterServer
<1>2. Inv /\ [Next]_vars => Inv'
  <2> SUFFICES ASSUME Inv, [Next]_vars PROVE Inv'
    OBVIOUS
  <2>1. CASE UNCHANGED vars
    BY <2>1, Untouched DEF vars, main, process, manager, ruleVars
  <2> QED
    BY <2>1, MainKeepsInv, ThreadsKeepInv, OutsideKeepsInv DEF Next
<1>3. Inv => FreedRulesUnused
  BY DEF Inv
<1> QED
  BY <1>1, <1>2, <1>3, PTL DEF Spec

(***************************************************************************)
(* CountsExact for every heap, whatever its values contain and hold of     *)
(* each other.  It is inductive together with the types: a step changes    *)
(* what at most one container holds, and what it gives to one side of the  *)
(* equation it takes from another.                                         *)
(***************************************************************************)

-----------------------------------------------------------------------------
(* How often a sequence or an object holds a value.                        *)

Held(s, n) == {i \in DOMAIN s : s[i] = n}
One(v, n) == IF v = n THEN 1 ELSE 0

LEMMA TimesIs == ASSUME NEW s, NEW n PROVE Heap!Times(s, n) = Cardinality(Held(s, n))
<1>1. Heap!Cardinality(Held(s, n)) = Cardinality(Held(s, n))
  BY DEF Heap!Cardinality, Cardinality
<1> QED
  BY <1>1 DEF Held, Heap!Times

LEMMA TimesIsNat ==
    ASSUME NEW s, IsFiniteSet(DOMAIN s), NEW n
    PROVE  /\ Heap!Times(s, n) \in Nat
           /\ IsFiniteSet(Held(s, n))
           /\ Heap!Times(s, n) = Cardinality(Held(s, n))
<1>1. IsFiniteSet(Held(s, n))
  BY FS_Subset DEF Held
<1>2. Cardinality(Held(s, n)) \in Nat
  BY <1>1, FS_CardinalityType
<1> QED
  BY <1>1, <1>2, TimesIs

LEMMA TimesNone == ASSUME NEW s, DOMAIN s = {}, NEW n PROVE Heap!Times(s, n) = 0
<1>1. Held(s, n) = {}
  BY DEF Held
<1> QED
  BY <1>1, TimesIs, FS_EmptySet

\* Two sets that have nothing in common.
LEMMA Disjoint ==
    ASSUME NEW A, NEW B, IsFiniteSet(A), IsFiniteSet(B), A \cap B = {}
    PROVE  /\ IsFiniteSet(A \cup B)
           /\ Cardinality(A \cup B) = Cardinality(A) + Cardinality(B)
<1>1. Cardinality(A \cap B) = 0
  BY FS_EmptySet
<1>2. Cardinality(A) \in Nat /\ Cardinality(B) \in Nat
  BY FS_CardinalityType
<1>3. /\ IsFiniteSet(A \cup B)
      /\ Cardinality(A \cup B) = Cardinality(A) + Cardinality(B) - Cardinality(A \cap B)
  BY FS_Union
<1> QED
  BY <1>1, <1>2, <1>3

\* A container put together from two parts.
Joins(f, p, q) ==
    /\ DOMAIN p \cap DOMAIN q = {} /\ DOMAIN f = DOMAIN p \cup DOMAIN q
    /\ \A i \in DOMAIN p : f[i] = p[i]
    /\ \A i \in DOMAIN q : f[i] = q[i]

LEMMA TimesParts ==
    ASSUME NEW f, NEW p, NEW q, NEW n,
           IsFiniteSet(DOMAIN p), IsFiniteSet(DOMAIN q), Joins(f, p, q)
    PROVE  Heap!Times(f, n) = Heap!Times(p, n) + Heap!Times(q, n)
<1>1. IsFiniteSet(Held(p, n)) /\ IsFiniteSet(Held(q, n))
  BY TimesIsNat
<1>2. Held(f, n) = Held(p, n) \cup Held(q, n) /\ Held(p, n) \cap Held(q, n) = {}
  BY DEF Held, Joins
<1>3. IsFiniteSet(DOMAIN f)
  BY FS_Union DEF Joins
<1> QED
  BY <1>1, <1>2, <1>3, Disjoint, TimesIsNat

\* The same items in other places.
LEMMA TimesMoved ==
    ASSUME NEW s, NEW t, IsFiniteSet(DOMAIN s), NEW f \in [DOMAIN s -> DOMAIN t],
           \A i, j \in DOMAIN s : f[i] = f[j] => i = j,
           \A j \in DOMAIN t : \E i \in DOMAIN s : f[i] = j,
           \A i \in DOMAIN s : t[f[i]] = s[i],
           NEW n
    PROVE  Heap!Times(t, n) = Heap!Times(s, n)
<1> DEFINE g == [i \in Held(s, n) |-> f[i]]
<1>1. g \in [Held(s, n) -> Held(t, n)]
  BY DEF Held
<1>2. \A i, j \in Held(s, n) : g[i] = g[j] => i = j
  BY DEF Held
<1>3. \A j \in Held(t, n) : \E i \in Held(s, n) : g[i] = j
  BY DEF Held
<1>4. ExistsBijection(Held(s, n), Held(t, n))
  <2> HIDE DEF g
  <2>1. g \in Bijection(Held(s, n), Held(t, n))
    BY <1>1, <1>2, <1>3, Zenon DEF Bijection, Injection, Surjection, IsInjective
  <2> QED
    BY <2>1 DEF ExistsBijection
<1>5. IsFiniteSet(Held(s, n)) /\ Heap!Times(s, n) = Cardinality(Held(s, n))
  BY TimesIsNat
<1>6. Cardinality(Held(t, n)) = Cardinality(Held(s, n))
  BY <1>4, <1>5, FS_Bijection
<1> QED
  BY <1>5, <1>6, TimesIs

\* Sequences are put together from sequences.
LEMMA TimesConcat ==
    ASSUME NEW S, NEW s \in Seq(S), NEW t \in Seq(S), NEW n
    PROVE  Heap!Times(s \o t, n) = Heap!Times(s, n) + Heap!Times(t, n)
<1> DEFINE q == [j \in Len(s) + 1 .. Len(s) + Len(t) |-> t[j - Len(s)]]
           f == [i \in 1 .. Len(t) |-> i + Len(s)]
<1>1. /\ Len(s) \in Nat /\ DOMAIN s = 1 .. Len(s)
      /\ Len(t) \in Nat /\ DOMAIN t = 1 .. Len(t)
  BY LenProperties
<1>2. /\ DOMAIN (s \o t) = 1 .. Len(s) + Len(t)
      /\ \A i \in 1 .. Len(s) + Len(t) :
            (s \o t)[i] = IF i <= Len(s) THEN s[i] ELSE t[i - Len(s)]
  <2>1. /\ s \o t \in Seq(S)
        /\ Len(s \o t) = Len(s) + Len(t)
        /\ \A i \in 1 .. Len(s) + Len(t) :
              (s \o t)[i] = IF i <= Len(s) THEN s[i] ELSE t[i - Len(s)]
    BY ConcatProperties
  <2>2. DOMAIN (s \o t) = 1 .. Len(s \o t)
    BY <2>1, LenProperties
  <2> QED
    BY <2>1, <2>2
<1>3. IsFiniteSet(DOMAIN s) /\ IsFiniteSet(DOMAIN t) /\ IsFiniteSet(DOMAIN q)
  BY <1>1, FS_Interval
<1>4. Heap!Times(q, n) = Heap!Times(t, n)
  <2>1. f \in [DOMAIN t -> DOMAIN q]
    BY <1>1
  <2>2. \A i, j \in DOMAIN t : f[i] = f[j] => i = j
    BY <1>1
  <2>3. \A j \in DOMAIN q : \E i \in DOMAIN t : f[i] = j
    <3>1. ASSUME NEW j \in DOMAIN q PROVE j - Len(s) \in DOMAIN t /\ f[j - Len(s)] = j
      BY <1>1
    <3> QED
      BY <3>1
  <2>4. \A i \in DOMAIN t : q[f[i]] = t[i]
    BY <1>1
  <2> HIDE DEF q, f
  <2> QED
    BY <1>3, <2>1, <2>2, <2>3, <2>4, TimesMoved
<1>5. DOMAIN s \cap DOMAIN q = {} /\ DOMAIN (s \o t) = DOMAIN s \cup DOMAIN q
  BY <1>1, <1>2
<1>6. Joins(s \o t, s, q)
  BY <1>1, <1>2, <1>5 DEF Joins
<1> HIDE DEF q
<1>7. Heap!Times(s \o t, n) = Heap!Times(s, n) + Heap!Times(q, n)
  BY <1>3, <1>6, TimesParts
<1> QED
  BY <1>4, <1>7

LEMMA TimesSeqIsNat ==
    ASSUME NEW S, NEW s \in Seq(S), NEW n
    PROVE  Heap!Times(s, n) \in Nat /\ IsFiniteSet(DOMAIN s)
<1>1. Len(s) \in Nat /\ DOMAIN s = 1 .. Len(s)
  BY LenProperties
<1>2. IsFiniteSet(DOMAIN s)
  BY <1>1, FS_Interval
<1> QED
  BY <1>2, TimesIsNat

LEMMA TimesOne == ASSUME NEW v, NEW n PROVE Heap!Times(<<v>>, n) = One(v, n)
<1>1. Held(<<v>>, n) = IF v = n THEN {1} ELSE {}
  BY DEF Held
<1> QED
  BY <1>1, TimesIs, FS_EmptySet, FS_Singleton DEF One

LEMMA TimesAppend ==
    ASSUME NEW S, NEW s \in Seq(S), NEW v \in S, NEW n
    PROVE  Heap!Times(Append(s, v), n) = Heap!Times(s, n) + One(v, n)
<1>1. <<v>> \in Seq(S) /\ Append(s, v) = s \o <<v>>
  BY AppendIsConcat
<1>2. Heap!Times(s \o <<v>>, n) = Heap!Times(s, n) + Heap!Times(<<v>>, n)
  BY <1>1, TimesConcat
<1> QED
  BY <1>1, <1>2, TimesOne

\* The next reference to be dropped, and the rest.
LEMMA TimesTail ==
    ASSUME NEW S, NEW s \in Seq(S), s # <<>>, NEW n
    PROVE  Heap!Times(s, n) = One(Head(s), n) + Heap!Times(Tail(s), n)
<1>1. Head(s) = s[1] /\ Head(s) \in S /\ Tail(s) \in Seq(S) /\ Len(s) \in Nat \ {0}
  BY HeadAndTail
<1>2. SubSeq(s, 1, Len(s)) = <<s[1]>> \o SubSeq(s, 1 + 1, Len(s))
  BY <1>1, SubSeqRecursiveFirst
<1>3. s = <<Head(s)>> \o Tail(s)
  BY <1>1, <1>2, SubSeqFull, TailIsSubSeq
<1>4. <<Head(s)>> \in Seq(S)
  BY <1>1
<1>5. Heap!Times(<<Head(s)>> \o Tail(s), n)
        = Heap!Times(<<Head(s)>>, n) + Heap!Times(Tail(s), n)
  BY <1>1, <1>4, TimesConcat
<1> QED
  BY <1>3, <1>5, TimesOne

\* insert and erase, at a place of the sequence.
LEMMA TimesCut ==
    ASSUME NEW S, NEW s \in Seq(S), NEW i \in 0 .. Len(s), NEW n
    PROVE  /\ SubSeq(s, 1, i) \in Seq(S) /\ SubSeq(s, i + 1, Len(s)) \in Seq(S)
           /\ Heap!Times(s, n) =
                 Heap!Times(SubSeq(s, 1, i), n) + Heap!Times(SubSeq(s, i + 1, Len(s)), n)
<1>1. Len(s) \in Nat /\ \A j \in 1 .. Len(s) : s[j] \in S
  BY LenProperties, ElementOfSeq
<1>2. SubSeq(s, 1, i) \in Seq(S)
  <2>1. \A j \in 1 .. i : s[j] \in S
    BY <1>1
  <2> QED
    BY <1>1, <2>1, SubSeqProperties
<1>3. SubSeq(s, i + 1, Len(s)) \in Seq(S)
  <2>1. \A j \in i + 1 .. Len(s) : s[j] \in S
    BY <1>1
  <2> QED
    BY <1>1, <2>1, SubSeqProperties
<1>4. SubSeq(s, 1, i) \o SubSeq(s, i + 1, Len(s)) = SubSeq(s, 1, Len(s))
  <2>1. 1 \in 1 .. Len(s) + 1 /\ i \in 1 - 1 .. Len(s) /\ Len(s) \in i .. Len(s)
    BY <1>1
  <2> QED
    BY <2>1, ConcatAdjacentSubSeq
<1>5. SubSeq(s, 1, Len(s)) = s
  BY SubSeqFull
<1> DEFINE l == SubSeq(s, 1, i)
           r == SubSeq(s, i + 1, Len(s))
<1>6. s = l \o r
  BY <1>4, <1>5
<1>7. l \in Seq(S) /\ r \in Seq(S)
  BY <1>2, <1>3
<1> HIDE DEF l, r
<1>8. Heap!Times(l \o r, n) = Heap!Times(l, n) + Heap!Times(r, n)
  BY <1>7, TimesConcat
<1>9. Heap!Times(s, n) = Heap!Times(l, n) + Heap!Times(r, n)
  BY <1>6, <1>8
<1> QED
  BY <1>7, <1>9 DEF l, r

LEMMA TimesInsert ==
    ASSUME NEW S, NEW s \in Seq(S), NEW i \in 1 .. Len(s) + 1, NEW v \in S, NEW n
    PROVE  /\ Heap!InsertAt(s, i, v) \in Seq(S)
           /\ Heap!Times(Heap!InsertAt(s, i, v), n) = Heap!Times(s, n) + One(v, n)
<1> DEFINE l == SubSeq(s, 1, i - 1)
           r == SubSeq(s, i, Len(s))
<1>1. Len(s) \in Nat
  BY LenProperties
<1>2. i - 1 \in 0 .. Len(s) /\ i - 1 + 1 = i
  BY <1>1
<1>3. l \in Seq(S) /\ r \in Seq(S) /\ Heap!Times(s, n) = Heap!Times(l, n) + Heap!Times(r, n)
  BY <1>2, TimesCut
<1>4. Heap!InsertAt(s, i, v) = l \o <<v>> \o r
  BY DEF Heap!InsertAt
<1> HIDE DEF l, r
<1>5. <<v>> \in Seq(S)
  OBVIOUS
<1> DEFINE w == <<v>>
           p == l \o w
<1>6. w \in Seq(S) /\ Heap!Times(w, n) = One(v, n)
  BY <1>5, TimesOne
<1> HIDE DEF w
<1>7. p \in Seq(S) /\ Heap!Times(p, n) = Heap!Times(l, n) + Heap!Times(w, n)
  <2>1. p \in Seq(S)
    BY <1>3, <1>6, ConcatProperties
  <2>2. Heap!Times(l \o w, n) = Heap!Times(l, n) + Heap!Times(w, n)
    BY <1>3, <1>6, TimesConcat
  <2> QED
    BY <2>1, <2>2
<1>8. Heap!InsertAt(s, i, v) = p \o r
  BY <1>4 DEF w
<1> HIDE DEF p
<1>9. p \o r \in Seq(S) /\ Heap!Times(p \o r, n) = Heap!Times(p, n) + Heap!Times(r, n)
  <2>1. p \o r \in Seq(S)
    BY <1>3, <1>7, ConcatProperties
  <2>2. Heap!Times(p \o r, n) = Heap!Times(p, n) + Heap!Times(r, n)
    BY <1>3, <1>7, TimesConcat
  <2> QED
    BY <2>1, <2>2
<1>10. Heap!Times(l, n) \in Nat /\ Heap!Times(r, n) \in Nat /\ One(v, n) \in Nat
  BY <1>3, TimesSeqIsNat DEF One
<1> QED
  BY <1>3, <1>6, <1>7, <1>8, <1>9, <1>10

LEMMA TimesRemove ==
    ASSUME NEW S, NEW s \in Seq(S), NEW i \in 1 .. Len(s), NEW n
    PROVE  /\ Heap!RemoveAt(s, i) \in Seq(S)
           /\ Heap!Times(s, n) = Heap!Times(Heap!RemoveAt(s, i), n) + One(s[i], n)
<1> DEFINE l == SubSeq(s, 1, i - 1)
           m == SubSeq(s, 1, i)
           r == SubSeq(s, i + 1, Len(s))
<1>1. Len(s) \in Nat /\ \A j \in 1 .. Len(s) : s[j] \in S
  BY LenProperties, ElementOfSeq
<1>2. i \in 0 .. Len(s)
  BY <1>1
<1>3. m \in Seq(S) /\ r \in Seq(S) /\ Heap!Times(s, n) = Heap!Times(m, n) + Heap!Times(r, n)
  BY <1>2, TimesCut
<1>4. l \in Seq(S) /\ m = l \o <<s[i]>>
  <2>1. l \in Seq(S)
    <3>1. \A j \in 1 .. i - 1 : s[j] \in S
      BY <1>1
    <3> QED
      BY <1>1, <3>1, SubSeqProperties
  <2>2. m = l \o <<s[i]>>
    BY <1>1, SubSeqRecursiveSecond
  <2> QED
    BY <2>1, <2>2
<1>5. Heap!RemoveAt(s, i) = l \o r
  BY DEF Heap!RemoveAt
<1> HIDE DEF l, m, r
<1>6. l \o r \in Seq(S) /\ Heap!Times(l \o r, n) = Heap!Times(l, n) + Heap!Times(r, n)
  BY <1>3, <1>4, ConcatProperties, TimesConcat
<1>7. <<s[i]>> \in Seq(S)
  BY <1>1
<1>8. Heap!Times(m, n) = Heap!Times(l, n) + One(s[i], n)
  <2>1. Heap!Times(l \o <<s[i]>>, n) = Heap!Times(l, n) + Heap!Times(<<s[i]>>, n)
    BY <1>4, <1>7, TimesConcat
  <2> QED
    BY <1>4, <2>1, TimesOne
<1>9. Heap!Times(l, n) \in Nat /\ Heap!Times(r, n) \in Nat /\ One(s[i], n) \in Nat
  BY <1>3, <1>4, TimesSeqIsNat DEF One
<1> QED
  BY <1>3, <1>5, <1>6, <1>8, <1>9

\* Another value at a place of an array or under a key of an object.
LEMMA TimesExcept ==
    ASSUME NEW f, IsFiniteSet(DOMAIN f), NEW k \in DOMAIN f, NEW v, NEW n,
           NEW g, DOMAIN g = DOMAIN f, g[k] = v, \A i \in DOMAIN f \ {k} : g[i] = f[i]
    PROVE  Heap!Times(g, n) + One(f[k], n) = Heap!Times(f, n) + One(v, n)
<1> DEFINE rest == Held(f, n) \ {k}
<1>1. IsFiniteSet(Held(f, n)) /\ Heap!Times(f, n) = Cardinality(Held(f, n))
  BY TimesIsNat
<1>2. /\ IsFiniteSet(rest)
      /\ Cardinality(rest) = IF k \in Held(f, n) THEN Cardinality(Held(f, n)) - 1
                             ELSE Cardinality(Held(f, n))
  BY <1>1, FS_RemoveElement
<1>3. Held(g, n) = IF v = n THEN rest \cup {k} ELSE rest
  BY DEF Held
<1>4. k \notin rest /\ (k \in Held(f, n) <=> f[k] = n)
  BY DEF Held
<1> HIDE DEF rest
<1>5. Cardinality(rest \cup {k}) = Cardinality(rest) + 1
  BY <1>2, <1>4, FS_AddElement
<1>6. Heap!Times(g, n) = Cardinality(rest) + One(v, n)
  <2>1. Cardinality(rest) \in Nat
    BY <1>2, FS_CardinalityType
  <2>2. CASE v = n
    BY <1>3, <1>5, <2>1, <2>2, TimesIs DEF One
  <2>3. CASE v # n
    BY <1>3, <2>1, <2>3, TimesIs DEF One
  <2> QED
    BY <2>2, <2>3
<1>7. Heap!Times(f, n) = Cardinality(rest) + One(f[k], n)
  <2>1. Cardinality(rest) \in Nat /\ Cardinality(Held(f, n)) \in Nat
    BY <1>1, <1>2, FS_CardinalityType
  <2> QED
    BY <1>1, <1>2, <1>4, <2>1 DEF One
<1>8. Cardinality(rest) \in Nat /\ One(v, n) \in Nat /\ One(f[k], n) \in Nat
  BY <1>2, FS_CardinalityType DEF One
<1> QED
  BY <1>6, <1>7, <1>8

\* The items of an object one after another: a sequence that holds each as often.
LEMMA SetToSeqIs ==
    ASSUME NEW K, IsFiniteSet(K)
    PROVE  /\ Heap!SetToSeq(K) \in [1 .. Cardinality(K) -> K]
           /\ \A i, j \in 1 .. Cardinality(K) :
                 Heap!SetToSeq(K)[i] = Heap!SetToSeq(K)[j] => i = j
           /\ \A k \in K : \E i \in 1 .. Cardinality(K) : Heap!SetToSeq(K)[i] = k
<1> DEFINE N == 1 .. Cardinality(K)
           q == Heap!SetToSeq(K)
<1>1. Heap!Cardinality(K) = Cardinality(K)
  BY DEF Heap!Cardinality, Cardinality
<1>2. ExistsBijection(N, K) /\ Cardinality(K) \in Nat
  BY FS_CardinalityType
<1>3. IsFiniteSet(N) /\ Cardinality(N) = Cardinality(K)
  BY <1>2, FS_Interval
<1>4. q = CHOOSE f \in [N -> K] : Heap!IsInjective(f)
  BY <1>1 DEF Heap!SetToSeq
<1> HIDE DEF N
<1>5. \E f \in [N -> K] : Heap!IsInjective(f)
  <2>1. PICK f \in Bijection(N, K) : TRUE
    BY <1>2 DEF ExistsBijection
  <2> QED
    BY <2>1 DEF Bijection, Injection, Surjection, IsInjective, Heap!IsInjective
<1>6. q \in [N -> K] /\ Heap!IsInjective(q)
  BY <1>4, <1>5
<1> HIDE DEF q
<1>7. \A i, j \in N : q[i] = q[j] => i = j
  BY <1>6 DEF Heap!IsInjective
<1>8. q \in Injection(N, K)
  BY <1>6, <1>7 DEF Injection, IsInjective
<1>9. q \in Surjection(N, K)
  BY <1>3, <1>8, FS_Injection
<1> QED
  BY <1>6, <1>7, <1>9 DEF N, q, Surjection

LEMMA TimesListed ==
    ASSUME NEW S, NEW K, IsFiniteSet(K), NEW f \in [K -> S], NEW n
    PROVE  /\ Heap!Listed(f) \in Seq(S)
           /\ Heap!Times(Heap!Listed(f), n) = Heap!Times(f, n)
<1> DEFINE q == Heap!SetToSeq(K)
           N == 1 .. Cardinality(K)
           l == [i \in N |-> f[q[i]]]
<1>1. /\ q \in [N -> K]
      /\ \A i, j \in N : q[i] = q[j] => i = j
      /\ \A k \in K : \E i \in N : q[i] = k
  BY SetToSeqIs
<1>2. Cardinality(K) \in Nat /\ IsFiniteSet(N)
  BY FS_CardinalityType, FS_Interval
<1> HIDE DEF q
<1>3. q \in Seq(K) /\ Len(q) = Cardinality(K)
  BY <1>1, <1>2, FunctionIsSeq
<1>4. Heap!Listed(f) = l
  BY <1>3 DEF Heap!Listed, q
<1>5. l \in Seq(S)
  <2>1. l \in [N -> S]
    BY <1>1
  <2> QED
    BY <1>2, <2>1, FunctionIsSeq
<1>6. Heap!Times(f, n) = Heap!Times(l, n)
  <2>1. DOMAIN l = N /\ DOMAIN f = K /\ \A i \in N : f[q[i]] = l[i]
    OBVIOUS
  <2> HIDE DEF l, N
  <2> QED
    BY <1>1, <1>2, <2>1, TimesMoved
<1> QED
  BY <1>4, <1>5, <1>6

-----------------------------------------------------------------------------
(* What the live containers hold.                                          *)

Heaps == [HeapCells -> Heap!Objects \cup Heap!Arrays \cup {Free}]
Rows(h, m, n) == IF h[m] # Free THEN Held(h[m].items, n) ELSE {}
In(h, m, n) == IF h[m] # Free THEN Heap!Times(h[m].items, n) ELSE 0
All(h, n) == Cardinality(UNION { {m} \X Rows(h, m, n) : m \in HeapCells })

LEMMA Finite ==
    /\ IsFiniteSet(HeapCells) /\ IsFiniteSet(HeapKeys)
    /\ Free \notin Heap!Objects \cup Heap!Arrays
BY ValuesAssumption DEF Heap!HeapAssumption, Heap!IsFiniteSet, IsFiniteSet

LEMMA OccurrencesIs == \A n : Heap!Occurrences(n) = All(heap, n)
<1> SUFFICES ASSUME NEW n PROVE Heap!Occurrences(n) = All(heap, n)
  OBVIOUS
<1>1. \A m : Heap!Places(m, n) = Rows(heap, m, n)
  BY DEF Heap!Places, Heap!Live, Rows, Held
<1>2. UNION { {m} \X Heap!Places(m, n) : m \in HeapCells }
        = UNION { {m} \X Rows(heap, m, n) : m \in HeapCells }
  BY <1>1
<1> QED
  BY <1>2 DEF All, Heap!Occurrences, Heap!Cardinality, Cardinality

\* The items of a container are finitely many.
LEMMA ItemsFinite ==
    ASSUME NEW h \in Heaps, NEW m \in HeapCells, h[m] # Free
    PROVE  /\ h[m] \in Heap!Objects \/ h[m] \in Heap!Arrays
           /\ IsFiniteSet(DOMAIN h[m].items)
           /\ \A i \in DOMAIN h[m].items : h[m].items[i] \in HeapCells
<1>1. h[m] \in Heap!Objects \/ h[m] \in Heap!Arrays
  BY DEF Heaps
<1>2. CASE h[m] \in Heap!Objects
  <2>1. PICK ks \in SUBSET HeapKeys : h[m].items \in [ks -> HeapCells]
    BY <1>2 DEF Heap!Objects
  <2>2. IsFiniteSet(ks)
    BY Finite, FS_Subset
  <2> QED
    BY <1>1, <2>1, <2>2
<1>3. CASE h[m] \in Heap!Arrays
  <2>1. h[m].items \in Seq(HeapCells)
    BY <1>3 DEF Heap!Arrays
  <2> DEFINE s == h[m].items
  <2> HIDE DEF s
  <2>2. s \in Seq(HeapCells)
    BY <2>1 DEF s
  <2>3. Len(s) \in Nat /\ DOMAIN s = 1 .. Len(s) /\ \A i \in 1 .. Len(s) : s[i] \in HeapCells
    BY <2>2, LenProperties, ElementOfSeq
  <2>4. IsFiniteSet(1 .. Len(s))
    <3>1. 1 \in Int /\ Len(s) \in Int
      BY <2>3
    <3> QED
      BY <3>1, FS_Interval
  <2>5. IsFiniteSet(DOMAIN s)
    BY <2>3, <2>4
  <2> QED
    BY <1>1, <2>3, <2>5 DEF s
<1> QED
  BY <1>1, <1>2, <1>3

LEMMA RowsFinite ==
    ASSUME NEW h \in Heaps, NEW m \in HeapCells, NEW n
    PROVE  IsFiniteSet(Rows(h, m, n)) /\ In(h, m, n) = Cardinality(Rows(h, m, n))
           /\ In(h, m, n) \in Nat
<1>1. CASE h[m] = Free
  BY <1>1, FS_EmptySet DEF Rows, In
<1>2. CASE h[m] # Free
  BY <1>2, ItemsFinite, TimesIsNat DEF Rows, In
<1> QED
  BY <1>1, <1>2

\* A container apart from the others.
LEMMA OneApart ==
    ASSUME NEW h \in Heaps, NEW a \in HeapCells, NEW n
    PROVE  LET others == UNION { {m} \X Rows(h, m, n) : m \in HeapCells \ {a} }
           IN  /\ Cardinality(others) \in Nat
               /\ All(h, n) = Cardinality(others) + In(h, a, n)
<1> DEFINE f == [m \in HeapCells \ {a} |-> {m} \X Rows(h, m, n)]
           T == { {m} \X Rows(h, m, n) : m \in HeapCells \ {a} }
           mine == {a} \X Rows(h, a, n)
<1>1. IsFiniteSet(T)
  <2>1. f \in Surjection(HeapCells \ {a}, T)
    <3>1. f \in [HeapCells \ {a} -> T]
      OBVIOUS
    <3>2. \A t \in T : \E m \in HeapCells \ {a} : f[m] = t
      OBVIOUS
    <3> QED
      BY <3>1, <3>2 DEF Surjection
  <2>2. IsFiniteSet(HeapCells \ {a})
    BY Finite, FS_RemoveElement
  <2> HIDE DEF f, T
  <2> QED
    BY <2>1, <2>2, FS_Surjection
<1>2. \A t \in T : IsFiniteSet(t)
  <2>1. \A m \in HeapCells : IsFiniteSet({m} \X Rows(h, m, n))
    BY RowsFinite, FS_Singleton, FS_Product
  <2> QED
    BY <2>1
<1>3. IsFiniteSet(UNION T)
  BY <1>1, <1>2, FS_UNION
<1>4. IsFiniteSet(mine) /\ Cardinality(mine) = In(h, a, n)
  <2>1. IsFiniteSet({a}) /\ Cardinality({a}) = 1
    BY FS_Singleton
  <2>2. /\ IsFiniteSet(Rows(h, a, n)) /\ In(h, a, n) = Cardinality(Rows(h, a, n))
        /\ In(h, a, n) \in Nat
    BY RowsFinite
  <2> DEFINE R == Rows(h, a, n)
             A == {a}
  <2> HIDE DEF R, A
  <2>3. IsFiniteSet(A \X R) /\ Cardinality(A \X R) = Cardinality(A) * Cardinality(R)
    BY <2>1, <2>2, FS_Product DEF R, A
  <2> QED
    BY <2>1, <2>2, <2>3 DEF R, A
<1>5. (UNION T) \cap mine = {}
  <2>1. ASSUME NEW x \in (UNION T), x \in mine PROVE FALSE
    <3>1. PICK m \in HeapCells \ {a} : x \in {m} \X Rows(h, m, n)
      BY <2>1
    <3>2. x[1] = m /\ x[1] = a
      BY <2>1, <3>1
    <3> QED
      BY <3>1, <3>2
  <2> HIDE DEF T, mine
  <2> QED
    BY <2>1
<1>6. UNION { {m} \X Rows(h, m, n) : m \in HeapCells } = (UNION T) \cup mine
  <2> DEFINE row(m) == {m} \X Rows(h, m, n)
  <2>1. T = { row(m) : m \in HeapCells \ {a} } /\ mine = row(a)
    OBVIOUS
  <2> HIDE DEF row, T, mine
  <2>2. { row(m) : m \in HeapCells } = T \cup {mine}
    BY <2>1
  <2>3. UNION (T \cup {mine}) = (UNION T) \cup mine
    OBVIOUS
  <2> QED
    BY <2>2, <2>3 DEF row
<1>7. All(h, n) = Cardinality((UNION T) \cup mine)
  BY <1>6 DEF All
<1> HIDE DEF T, mine
<1> DEFINE U == UNION T
<1> HIDE DEF U
<1>8. Cardinality(U \cup mine) = Cardinality(U) + Cardinality(mine)
  BY <1>3, <1>4, <1>5, Disjoint DEF U
<1>9. Cardinality(U) \in Nat
  BY <1>3, FS_CardinalityType DEF U
<1> QED
  <2>1. All(h, n) = Cardinality(UNION T) + In(h, a, n) /\ Cardinality(UNION T) \in Nat
    BY <1>4, <1>7, <1>8, <1>9 DEF U
  <2> QED
    BY <2>1 DEF T

\* What one container has more, all have more.
LEMMA RowChange ==
    ASSUME NEW h \in Heaps, NEW g \in Heaps, NEW a \in HeapCells,
           \A m \in HeapCells \ {a} : \A n : Rows(g, m, n) = Rows(h, m, n),
           NEW n
    PROVE  /\ All(h, n) \in Nat /\ All(g, n) \in Nat
           /\ All(g, n) + In(h, a, n) = All(h, n) + In(g, a, n)
<1> DEFINE others(k) == UNION { {m} \X Rows(k, m, n) : m \in HeapCells \ {a} }
<1>1. others(g) = others(h)
  OBVIOUS
<1>2. Cardinality(others(h)) \in Nat /\ All(h, n) = Cardinality(others(h)) + In(h, a, n)
  BY OneApart
<1>3. Cardinality(others(g)) \in Nat /\ All(g, n) = Cardinality(others(g)) + In(g, a, n)
  BY OneApart
<1>4. In(h, a, n) \in Nat /\ In(g, a, n) \in Nat
  BY RowsFinite
<1> HIDE DEF others
<1> QED
  BY <1>1, <1>2, <1>3, <1>4

-----------------------------------------------------------------------------
(* The equation of a step.                                                 *)

Count(h, n) == IF h[n] # Free THEN h[n].refcount ELSE 0

Typed(h, c, l, t) ==
    /\ h \in Heaps
    /\ c \in [HeapCells -> Nat] /\ l \in [HeapCells -> Nat] /\ t \in Seq(HeapCells)
Balanced(h, c, l, t) ==
    \A n \in HeapCells : c[n] + l[n] + All(h, n) + Heap!Times(t, n) = Count(h, n)

LEMMA Before ==
    Heap!CountsExact <=> Typed(heap, held, lost, todo) /\ Balanced(heap, held, lost, todo)
BY OccurrencesIs
DEF Heap!CountsExact, Heap!TypeOK, Heap!Live, Typed, Balanced, Count, Heaps

LEMMA After ==
    Heap!CountsExact'
      <=> Typed(heap', held', lost', todo') /\ Balanced(heap', held', lost', todo')
<1>1. \A n : Heap!Occurrences(n)' = All(heap', n)
  <2> SUFFICES ASSUME NEW n PROVE Heap!Occurrences(n)' = All(heap', n)
    OBVIOUS
  <2>1. \A m : Heap!Places(m, n)' = Rows(heap', m, n)
    BY DEF Heap!Places, Heap!Live, Rows, Held
  <2>2. UNION { {m} \X Heap!Places(m, n)' : m \in HeapCells }
          = UNION { {m} \X Rows(heap', m, n) : m \in HeapCells }
    BY <2>1
  <2> QED
    BY <2>2 DEF All, Heap!Occurrences, Heap!Cardinality, Cardinality
<1> QED
  BY <1>1 DEF Heap!CountsExact, Heap!TypeOK, Heap!Live, Typed, Balanced, Count, Heaps

\* A value of the same type and with the same items in both heaps.
Same(h, g, m) ==
    /\ h[m] = Free <=> g[m] = Free
    /\ h[m] # Free => g[m].items = h[m].items /\ g[m].type = h[m].type

LEMMA Balance ==
    ASSUME NEW c \in Nat, NEW l \in Nat, NEW all \in Nat, NEW t \in Nat, NEW r \in Nat,
           NEW i \in Nat, NEW cc \in Nat, NEW ll \in Nat, NEW allall \in Nat,
           NEW tt \in Nat, NEW rr \in Nat, NEW ii \in Nat,
           c + l + all + t = r, allall + i = all + ii,
           cc + ll + ii + tt + r = c + l + i + t + rr
    PROVE  cc + ll + allall + tt = rr
OBVIOUS

\* Only a may hold something else, and what it holds more, somebody else has less.
LEMMA StepBalances ==
    ASSUME Heap!CountsExact, NEW a \in HeapCells, Typed(heap', held', lost', todo'),
           \A m \in HeapCells \ {a} : Same(heap, heap', m),
           \A n \in HeapCells :
             held'[n] + lost'[n] + In(heap', a, n) + Heap!Times(todo', n) + Count(heap, n)
               = held[n] + lost[n] + In(heap, a, n) + Heap!Times(todo, n) + Count(heap', n)
    PROVE  Heap!CountsExact'
<1>1. Typed(heap, held, lost, todo) /\ Balanced(heap, held, lost, todo)
  BY Before
<1>2. \A m \in HeapCells \ {a} : \A n : Rows(heap', m, n) = Rows(heap, m, n)
  BY DEF Same, Rows
<1>3. ASSUME NEW n \in HeapCells
      PROVE  held'[n] + lost'[n] + All(heap', n) + Heap!Times(todo', n) = Count(heap', n)
  <2> DEFINE h == heap
             g == heap'
  <2>1. /\ h \in Heaps /\ g \in Heaps
        /\ \A m \in HeapCells \ {a} : \A k : Rows(g, m, k) = Rows(h, m, k)
    BY <1>1, <1>2 DEF Typed
  <2> HIDE DEF h, g
  <2>2. /\ All(h, n) \in Nat /\ All(g, n) \in Nat
        /\ All(g, n) + In(h, a, n) = All(h, n) + In(g, a, n)
    BY <2>1, RowChange
  <2>3. In(h, a, n) \in Nat /\ In(g, a, n) \in Nat
    BY <2>1, RowsFinite
  <2>4. Heap!Times(todo, n) \in Nat
    BY <1>1, TimesSeqIsNat DEF Typed
  <2>5. Heap!Times(todo', n) \in Nat
    <3> DEFINE t == todo'
    <3>1. t \in Seq(HeapCells)
      BY DEF Typed
    <3> HIDE DEF t
    <3>2. Heap!Times(t, n) \in Nat
      BY <3>1, TimesSeqIsNat
    <3> QED
      BY <3>2 DEF t
  <2>6. held[n] \in Nat /\ lost[n] \in Nat /\ held'[n] \in Nat /\ lost'[n] \in Nat
    BY <1>1 DEF Typed
  <2>7. Count(h, n) \in Nat /\ Count(g, n) \in Nat
    <3>1. \A k \in Heaps : Count(k, n) \in Nat
      BY DEF Heaps, Count, Heap!Objects, Heap!Arrays
    <3> QED
      BY <2>1, <3>1
  <2>8. held[n] + lost[n] + All(h, n) + Heap!Times(todo, n) = Count(h, n)
    BY <1>1 DEF Balanced, h
  <2>9. held'[n] + lost'[n] + In(g, a, n) + Heap!Times(todo', n) + Count(h, n)
          = held[n] + lost[n] + In(h, a, n) + Heap!Times(todo, n) + Count(g, n)
    BY DEF h, g
  <2> DEFINE hn == held[n]
             hp == held'[n]
             ln == lost[n]
             lp == lost'[n]
             tn == Heap!Times(todo, n)
             tp == Heap!Times(todo', n)
  <2>10. /\ hn \in Nat /\ hp \in Nat /\ ln \in Nat /\ lp \in Nat
         /\ tn \in Nat /\ tp \in Nat
    BY <2>4, <2>5, <2>6
  <2>11. hn + ln + All(h, n) + tn = Count(h, n)
    BY <2>8
  <2>12. hp + lp + In(g, a, n) + tp + Count(h, n)
           = hn + ln + In(h, a, n) + tn + Count(g, n)
    BY <2>9
  <2> HIDE DEF hn, hp, ln, lp, tn, tp
  <2>13. hp + lp + All(g, n) + tp = Count(g, n)
    BY <2>2, <2>3, <2>7, <2>10, <2>11, <2>12, Balance
  <2> QED
    BY <2>13 DEF g, hp, lp, tp
<1>4. Balanced(heap', held', lost', todo')
  BY <1>3 DEF Balanced
<1> QED
  BY <1>4, After

\* What is held, lost, contained or about to be dropped is live, and counted.
LEMMA Counts ==
    ASSUME Heap!CountsExact, NEW m \in HeapCells, NEW n \in HeapCells
    PROVE  /\ held[n] \in Nat /\ lost[n] \in Nat /\ In(heap, m, n) \in Nat
           /\ Heap!Times(todo, n) \in Nat /\ Count(heap, n) \in Nat
           /\ held[n] + lost[n] + In(heap, m, n) + Heap!Times(todo, n) <= Count(heap, n)
           /\ heap[n] # Free => /\ heap[n].refcount \in Nat \ {0}
                                /\ Count(heap, n) = heap[n].refcount
           /\ heap[n] = Free => Count(heap, n) = 0
<1>1. Typed(heap, held, lost, todo) /\ Balanced(heap, held, lost, todo)
  BY Before
<1>2. /\ heap \in Heaps /\ held[n] \in Nat /\ lost[n] \in Nat
      /\ held[n] + lost[n] + All(heap, n) + Heap!Times(todo, n) = Count(heap, n)
  BY <1>1 DEF Typed, Balanced
<1>3. In(heap, m, n) \in Nat
  BY <1>2, RowsFinite
<1>4. In(heap, m, n) <= All(heap, n) /\ All(heap, n) \in Nat
  <2> DEFINE C == Cardinality(UNION { {k} \X Rows(heap, k, n) : k \in HeapCells \ {m} })
  <2>1. C \in Nat /\ All(heap, n) = C + In(heap, m, n)
    BY <1>2, OneApart
  <2> HIDE DEF C
  <2> QED
    BY <1>3, <2>1
<1>5. Heap!Times(todo, n) \in Nat
  BY <1>1, TimesSeqIsNat DEF Typed
<1>6. heap[n] # Free => heap[n].refcount \in Nat \ {0}
  BY <1>2 DEF Heaps, Heap!Objects, Heap!Arrays
<1>7. /\ heap[n] # Free => Count(heap, n) = heap[n].refcount
      /\ heap[n] = Free => Count(heap, n) = 0
  BY DEF Count
<1>8. Count(heap, n) \in Nat
  BY <1>6, <1>7
<1> QED
  BY <1>2, <1>3, <1>4, <1>5, <1>6, <1>7, <1>8

-----------------------------------------------------------------------------
(* What a call does to the cells.                                          *)

Members == UNION { [ks -> HeapCells] : ks \in SUBSET HeapKeys }

\* Items of the right kind for a container.
Fits(type, items) ==
    /\ type = "object" => items \in Members
    /\ type \in {"array", "string"} => items \in Seq(HeapCells)

LEMMA LiveCell ==
    ASSUME NEW h \in Heaps, NEW n \in HeapCells, h[n] # Free
    PROVE  /\ h[n].type \in Heap!Types /\ h[n].refcount \in Nat \ {0}
           /\ Fits(h[n].type, h[n].items)
           /\ h[n] = [type |-> h[n].type, refcount |-> h[n].refcount, items |-> h[n].items]
BY DEF Heaps, Heap!Objects, Heap!Arrays, Heap!Types, Fits, Members

\* A cell is written: made, counted anew, or given other items.
Positive == Nat \ {0}

Written(h, n, type, refcount, items) ==
    [h EXCEPT ![n] = [type |-> type, refcount |-> refcount, items |-> items]]

\* g holds what h holds, but for the items and the count of n.
Wrote(h, g, n, type, refcount, items) ==
    /\ g \in Heaps /\ g[n] # Free /\ g[n].type = type
    /\ g[n].items = items /\ Count(g, n) = refcount
    /\ \A x : In(g, n, x) = Heap!Times(items, x)
    /\ \A m \in HeapCells \ {n} : g[m] = h[m] /\ Count(g, m) = Count(h, m)

LEMMA WriteCell ==
    ASSUME NEW h, h \in Heaps, NEW n, n \in HeapCells, NEW type, type \in Heap!Types,
           NEW refcount, refcount \in Positive, NEW items, Fits(type, items)
    PROVE  Wrote(h, Written(h, n, type, refcount, items), n, type, refcount, items)
<1> DEFINE cell == [type |-> type, refcount |-> refcount, items |-> items]
           g == Written(h, n, type, refcount, items)
<1>1. cell \in Heap!Objects \cup Heap!Arrays
  BY DEF Heap!Objects, Heap!Arrays, Heap!Types, Fits, Members, Positive
<1>2. cell.type = type /\ cell.items = items /\ cell.refcount = refcount
  OBVIOUS
<1>3. g = [h EXCEPT ![n] = cell]
  BY DEF Written
<1> HIDE DEF cell, g
<1>4. /\ g \in Heaps /\ g[n] = cell /\ \A m \in HeapCells \ {n} : g[m] = h[m]
  BY <1>1, <1>3 DEF Heaps
<1>5. cell # Free
  BY <1>1, Finite
<1>6. Wrote(h, g, n, type, refcount, items)
  BY <1>2, <1>4, <1>5 DEF In, Count, Wrote
<1> QED
  BY <1>6 DEF g

\* The cell is free, the others are as they were.
Emptied(h, g, n) ==
    /\ g \in Heaps /\ Count(g, n) = 0 /\ \A x : In(g, n, x) = 0
    /\ \A m \in HeapCells \ {n} : Same(h, g, m) /\ Count(g, m) = Count(h, m)

LEMMA FreeCell ==
    ASSUME NEW h, h \in Heaps, NEW n, n \in HeapCells
    PROVE  Emptied(h, [h EXCEPT ![n] = Free], n)
<1> DEFINE g == [h EXCEPT ![n] = Free]
<1>1. g \in Heaps /\ g[n] = Free /\ \A m \in HeapCells \ {n} : g[m] = h[m]
  BY DEF Heaps
<1> HIDE DEF g
<1>2. Emptied(h, g, n)
  BY <1>1 DEF In, Count, Same, Emptied
<1> QED
  BY <1>2 DEF g

\* Other items, or another count, for a live container.
LEMMA CellIs ==
    ASSUME NEW h \in Heaps, NEW n \in HeapCells, h[n] # Free
    PROVE  \E ty, rc, its : h[n] = [type |-> ty, refcount |-> rc, items |-> its]
<1>1. h[n] = [type |-> h[n].type, refcount |-> h[n].refcount, items |-> h[n].items]
  BY LiveCell
<1> QED
  BY <1>1, Zenon

LEMMA RewrittenItems ==
    ASSUME NEW h \in Heaps, NEW n \in HeapCells, h[n] # Free, NEW items
    PROVE  [h EXCEPT ![n].items = items]
             = Written(h, n, h[n].type, h[n].refcount, items)
<1>1. PICK ty, rc, its : h[n] = [type |-> ty, refcount |-> rc, items |-> its]
  BY CellIs
<1>2. [h[n] EXCEPT !.items = items] = [type |-> ty, refcount |-> rc, items |-> items]
  BY <1>1
<1>3. [h EXCEPT ![n].items = items] = [h EXCEPT ![n] = [h[n] EXCEPT !.items = items]]
  OBVIOUS
<1>4. h[n].type = ty /\ h[n].refcount = rc
  BY <1>1
<1> QED
  BY <1>2, <1>3, <1>4 DEF Written

LEMMA RewrittenCount ==
    ASSUME NEW h \in Heaps, NEW n \in HeapCells, h[n] # Free, NEW refcount
    PROVE  [h EXCEPT ![n].refcount = refcount]
             = Written(h, n, h[n].type, refcount, h[n].items)
<1>1. PICK ty, rc, its : h[n] = [type |-> ty, refcount |-> rc, items |-> its]
  BY CellIs
<1>2. [h[n] EXCEPT !.refcount = refcount] = [type |-> ty, refcount |-> refcount, items |-> its]
  BY <1>1
<1>3. [h EXCEPT ![n].refcount = refcount]
        = [h EXCEPT ![n] = [h[n] EXCEPT !.refcount = refcount]]
  OBVIOUS
<1>4. h[n].type = ty /\ h[n].items = its
  BY <1>1
<1> QED
  BY <1>2, <1>3, <1>4 DEF Written

\* Other items, the same counts.
Refilled(h, g, n, items) ==
    /\ g \in Heaps /\ \A x : In(g, n, x) = Heap!Times(items, x)
    /\ \A m \in HeapCells : Count(g, m) = Count(h, m)
    /\ \A m \in HeapCells \ {n} : Same(h, g, m)

LEMMA WriteItems ==
    ASSUME NEW h, h \in Heaps, NEW n, n \in HeapCells, h[n] # Free,
           NEW items, Fits(h[n].type, items)
    PROVE  Refilled(h, [h EXCEPT ![n].items = items], n, items)
<1> DEFINE ty == h[n].type
           rc == h[n].refcount
           g == [h EXCEPT ![n].items = items]
<1>1. ty \in Heap!Types /\ rc \in Positive /\ Fits(ty, items)
  BY LiveCell DEF Positive
<1>2. g = Written(h, n, ty, rc, items)
  BY RewrittenItems
<1>3. Count(h, n) = rc
  BY DEF Count
<1> HIDE DEF ty, rc, g
<1>4. Wrote(h, Written(h, n, ty, rc, items), n, ty, rc, items)
  BY <1>1, WriteCell
<1>5. Wrote(h, g, n, ty, rc, items)
  BY <1>2, <1>4
<1>6. Refilled(h, g, n, items)
  BY <1>3, <1>5 DEF Wrote, Refilled, Same
<1> QED
  BY <1>6 DEF g

\* Another count, the same items.
Recounted(h, g, n, refcount) ==
    /\ g \in Heaps /\ Count(g, n) = refcount
    /\ \A m \in HeapCells : Same(h, g, m)
    /\ \A m \in HeapCells \ {n} : Count(g, m) = Count(h, m)

LEMMA WriteCount ==
    ASSUME NEW h, h \in Heaps, NEW n, n \in HeapCells, h[n] # Free,
           NEW refcount, refcount \in Positive
    PROVE  Recounted(h, [h EXCEPT ![n].refcount = refcount], n, refcount)
<1> DEFINE ty == h[n].type
           its == h[n].items
           g == [h EXCEPT ![n].refcount = refcount]
<1>1. ty \in Heap!Types /\ Fits(ty, its)
  BY LiveCell DEF Positive
<1>2. g = Written(h, n, ty, refcount, its)
  BY RewrittenCount
<1> HIDE DEF ty, its, g
<1>3. Wrote(h, Written(h, n, ty, refcount, its), n, ty, refcount, its)
  BY <1>1, WriteCell
<1>4. Wrote(h, g, n, ty, refcount, its)
  BY <1>2, <1>3
<1>5. Same(h, g, n)
  BY <1>4 DEF Same, Wrote, ty, its
<1>6. Recounted(h, g, n, refcount)
  BY <1>4, <1>5 DEF Same, Wrote, Recounted
<1> QED
  BY <1>6 DEF g

LEMMA Incref ==
    ASSUME NEW h, h \in Heaps, NEW n, n \in HeapCells, h[n] # Free
    PROVE  LET g == Heap!json_incref(h, n)
           IN  /\ g \in Heaps
               /\ \A m \in HeapCells :
                     Same(h, g, m) /\ Count(g, m) = Count(h, m) + One(n, m)
<1> DEFINE g == Heap!json_incref(h, n)
           rc == h[n].refcount + 1
<1>1. h[n].refcount \in Nat
  BY LiveCell
<1>2. rc \in Positive
  BY <1>1 DEF Positive
<1>3. g = [h EXCEPT ![n].refcount = rc]
  BY DEF Heap!json_incref
<1>4. Count(h, n) + 1 = rc
  BY DEF Count
<1> HIDE DEF rc, g
<1>5. Recounted(h, [h EXCEPT ![n].refcount = rc], n, rc)
  BY <1>2, WriteCount
<1>6. Recounted(h, g, n, rc)
  BY <1>3, <1>5
<1>7. \A m \in HeapCells : Count(h, m) \in Nat
  BY DEF Heaps, Count, Heap!Objects, Heap!Arrays
<1>8. /\ g \in Heaps
      /\ \A m \in HeapCells : Same(h, g, m) /\ Count(g, m) = Count(h, m) + One(n, m)
  BY <1>4, <1>6, <1>7 DEF One, Recounted
<1> QED
  BY <1>8 DEF g

\* What a call finds: nothing to be dropped, and live what the caller holds.
LEMMA Idling ==
    ASSUME Heap!CountsExact, Heap!Idle
    PROVE  /\ heap \in Heaps /\ held \in [HeapCells -> Nat] /\ lost \in [HeapCells -> Nat]
           /\ todo = <<>> /\ \A n : Heap!Times(todo, n) = 0
           /\ \A n \in HeapCells : Heap!Holds(n) => heap[n] # Free /\ held[n] > 0
<1>1. Typed(heap, held, lost, todo) /\ todo = <<>>
  BY Before DEF Heap!Idle
<1>2. \A n : Heap!Times(<<>>, n) = 0
  BY TimesNone
<1>3. ASSUME NEW n \in HeapCells, Heap!Holds(n) PROVE heap[n] # Free /\ held[n] > 0
  <2>1. /\ held[n] \in Nat /\ lost[n] \in Nat /\ In(heap, n, n) \in Nat
        /\ Heap!Times(todo, n) \in Nat
        /\ held[n] + lost[n] + In(heap, n, n) + Heap!Times(todo, n) <= Count(heap, n)
        /\ heap[n] = Free => Count(heap, n) = 0
    BY Counts
  <2>2. held[n] > 0
    BY <1>3 DEF Heap!Holds
  <2> QED
    BY <2>1, <2>2
<1> QED
  BY <1>1, <1>2, <1>3 DEF Typed

-----------------------------------------------------------------------------
(* Every step keeps every count exact.                                     *)

LEMMA CountIsNat == \A h \in Heaps : \A m \in HeapCells : Count(h, m) \in Nat
BY DEF Heaps, Count, Heap!Objects, Heap!Arrays

LEMMA ContainedIs ==
    ASSUME NEW n \in HeapCells, heap \in Heaps, heap[n] # Free
    PROVE  /\ Heap!Contained(n) \in Seq(HeapCells)
           /\ \A m : Heap!Times(Heap!Contained(n), m) = In(heap, n, m)
<1> DEFINE items == heap[n].items
<1>1. /\ heap[n].type \in Heap!Types
      /\ heap[n].type = "object" => items \in Members
      /\ heap[n].type # "object" => items \in Seq(HeapCells)
  BY LiveCell DEF Fits, Heap!Types
<1>2. \A m : In(heap, n, m) = Heap!Times(items, m)
  BY DEF In
<1>3. Heap!Contained(n) = IF heap[n].type = "object" THEN Heap!Listed(items) ELSE items
  BY DEF Heap!Contained, Heap!json_is_object
<1> HIDE DEF items
<1>4. CASE heap[n].type = "object"
  <2>1. PICK ks \in SUBSET HeapKeys : items \in [ks -> HeapCells]
    BY <1>1, <1>4 DEF Members
  <2>2. IsFiniteSet(ks)
    BY Finite, FS_Subset
  <2>3. /\ Heap!Listed(items) \in Seq(HeapCells)
        /\ \A m : Heap!Times(Heap!Listed(items), m) = Heap!Times(items, m)
    BY <2>1, <2>2, TimesListed
  <2> QED
    BY <1>2, <1>3, <1>4, <2>3
<1>5. CASE heap[n].type # "object"
  BY <1>1, <1>2, <1>3, <1>5
<1> QED
  BY <1>4, <1>5

\* The next reference to be dropped is to a live value.
LEMMA HeadIsLive ==
    ASSUME Heap!CountsExact, ~ Heap!Idle
    PROVE  /\ Head(todo) \in HeapCells /\ Tail(todo) \in Seq(HeapCells)
           /\ heap[Head(todo)] # Free
           /\ \A m : Heap!Times(todo, m) = One(Head(todo), m) + Heap!Times(Tail(todo), m)
<1>1. todo \in Seq(HeapCells) /\ todo # <<>>
  BY Before DEF Typed, Heap!Idle
<1>2. Head(todo) \in HeapCells /\ Tail(todo) \in Seq(HeapCells)
  BY <1>1, HeadAndTail
<1>3. \A m : Heap!Times(todo, m) = One(Head(todo), m) + Heap!Times(Tail(todo), m)
  BY <1>1, TimesTail
<1> DEFINE n == Head(todo)
           t == Tail(todo)
<1>4. Heap!Times(t, n) \in Nat
  BY <1>2, TimesSeqIsNat
<1>5. Heap!Times(todo, n) = 1 + Heap!Times(t, n)
  BY <1>3 DEF One
<1> HIDE DEF n, t
<1>6. /\ held[n] \in Nat /\ lost[n] \in Nat /\ In(heap, n, n) \in Nat
      /\ held[n] + lost[n] + In(heap, n, n) + Heap!Times(todo, n) <= Count(heap, n)
      /\ heap[n] = Free => Count(heap, n) = 0
  BY <1>2, Counts DEF n
<1>7. heap[n] # Free
  BY <1>4, <1>5, <1>6
<1> QED
  BY <1>2, <1>3, <1>7 DEF n

LEMMA DeleteCounts ==
    ASSUME Heap!CountsExact, ~ Heap!Idle, Heap!json_delete(Head(todo)),
           heap[Head(todo)].refcount = 1, UNCHANGED <<held, lost>>
    PROVE  Heap!CountsExact'
<1> DEFINE n == Head(todo)
           t == Tail(todo)
           c == Heap!Contained(n)
           g == heap'
<1>1. /\ n \in HeapCells /\ t \in Seq(HeapCells) /\ heap[n] # Free
      /\ \A m : Heap!Times(todo, m) = One(n, m) + Heap!Times(t, m)
  BY HeadIsLive
<1>2. /\ heap \in Heaps /\ held' \in [HeapCells -> Nat] /\ lost' \in [HeapCells -> Nat]
      /\ held' = held /\ lost' = lost
  BY Before DEF Typed
<1>3. g = [heap EXCEPT ![n] = Free] /\ todo' = c \o t
  BY DEF Heap!json_delete
<1>4. Count(heap, n) = 1
  BY <1>1 DEF Count
<1> HIDE DEF n, t, g
<1>5. c \in Seq(HeapCells) /\ \A m : Heap!Times(c, m) = In(heap, n, m)
  BY <1>1, <1>2, ContainedIs
<1>6. /\ g \in Heaps /\ Count(g, n) = 0 /\ \A m : In(g, n, m) = 0
      /\ \A m \in HeapCells \ {n} : Same(heap, g, m) /\ Count(g, m) = Count(heap, m)
  <2>1. Emptied(heap, [heap EXCEPT ![n] = Free], n)
    BY <1>1, <1>2, FreeCell
  <2> QED
    BY <1>3, <2>1 DEF Emptied
<1> HIDE DEF c
<1>7. /\ c \o t \in Seq(HeapCells)
      /\ \A m : Heap!Times(c \o t, m) = Heap!Times(c, m) + Heap!Times(t, m)
  BY <1>1, <1>5, ConcatProperties, TimesConcat
<1>8. Typed(heap', held', lost', todo')
  BY <1>2, <1>3, <1>6, <1>7 DEF Typed, g
<1>9. \A m \in HeapCells \ {n} : Same(heap, heap', m)
  BY <1>6 DEF g
<1>10. \A m \in HeapCells : Count(heap, m) = Count(g, m) + One(n, m)
  BY <1>2, <1>4, <1>6, CountIsNat DEF One
<1>11. ASSUME NEW m \in HeapCells
       PROVE  held'[m] + lost'[m] + In(heap', n, m) + Heap!Times(todo', m) + Count(heap, m)
                = held[m] + lost[m] + In(heap, n, m) + Heap!Times(todo, m) + Count(heap', m)
  <2> DEFINE x == Heap!Times(t, m)
  <2>1. x \in Nat /\ In(heap, n, m) \in Nat /\ One(n, m) \in Nat
        /\ Count(g, m) \in Nat /\ held[m] \in Nat /\ lost[m] \in Nat
    BY <1>1, <1>2, <1>6, TimesSeqIsNat, RowsFinite, CountIsNat DEF One
  <2>2. Heap!Times(todo', m) = In(heap, n, m) + x
    BY <1>3, <1>5, <1>7
  <2>3. Heap!Times(todo, m) = One(n, m) + x
    BY <1>1
  <2>4. In(heap', n, m) = 0 /\ Count(heap, m) = Count(heap', m) + One(n, m)
    BY <1>6, <1>10 DEF g
  <2>5. held'[m] = held[m] /\ lost'[m] = lost[m]
    BY <1>2
  <2> HIDE DEF x
  <2> QED
    BY <2>1, <2>2, <2>3, <2>4, <2>5 DEF g
<1> QED
  BY <1>1, <1>8, <1>9, <1>11, StepBalances

LEMMA DecrefCounts ==
    ASSUME Heap!CountsExact, Heap!json_decref
    PROVE  Heap!CountsExact'
<1> DEFINE n == Head(todo)
           t == Tail(todo)
           g == heap'
           rc == heap[n].refcount - 1
<1>1. /\ n \in HeapCells /\ t \in Seq(HeapCells) /\ heap[n] # Free
      /\ \A m : Heap!Times(todo, m) = One(n, m) + Heap!Times(t, m)
  BY HeadIsLive DEF Heap!json_decref
<1>2. /\ heap \in Heaps /\ held' \in [HeapCells -> Nat] /\ lost' \in [HeapCells -> Nat]
      /\ held' = held /\ lost' = lost
  BY Before DEF Typed, Heap!json_decref
<1>3. CASE heap[n].refcount = 1
  BY <1>3, DeleteCounts DEF Heap!json_decref
<1>4. CASE heap[n].refcount # 1
  <2>1. todo' = t /\ g = [heap EXCEPT ![n].refcount = rc]
    BY <1>4 DEF Heap!json_decref
  <2>2. rc \in Positive /\ Count(heap, n) = rc + 1
    <3>1. heap[n].refcount \in Nat \ {0}
      BY <1>1, <1>2, LiveCell
    <3> QED
      BY <1>1, <1>4, <3>1 DEF Positive, Count
  <2> HIDE DEF n, t, g, rc
  <2>3. Recounted(heap, g, n, rc)
    <3>1. Recounted(heap, [heap EXCEPT ![n].refcount = rc], n, rc)
      BY <1>1, <1>2, <2>2, WriteCount
    <3> QED
      BY <2>1, <3>1
  <2>4. Typed(heap', held', lost', todo')
    BY <1>1, <1>2, <2>1, <2>3 DEF Typed, Recounted, g
  <2>5. \A m \in HeapCells : Same(heap, heap', m)
    BY <2>3 DEF Recounted, g
  <2>6. \A m \in HeapCells : Count(heap, m) = Count(g, m) + One(n, m)
    BY <1>2, <2>2, <2>3, CountIsNat DEF Recounted, One
  <2>7. ASSUME NEW m \in HeapCells
        PROVE  held'[m] + lost'[m] + In(heap', n, m) + Heap!Times(todo', m) + Count(heap, m)
                 = held[m] + lost[m] + In(heap, n, m) + Heap!Times(todo, m) + Count(heap', m)
    <3> DEFINE x == Heap!Times(t, m)
    <3>1. /\ x \in Nat /\ In(heap, n, m) \in Nat /\ One(n, m) \in Nat
          /\ Count(g, m) \in Nat /\ held[m] \in Nat /\ lost[m] \in Nat
      BY <1>1, <1>2, <2>3, TimesSeqIsNat, RowsFinite, CountIsNat DEF One, Recounted
    <3>2. Heap!Times(todo', m) = x /\ Heap!Times(todo, m) = One(n, m) + x
      BY <1>1, <2>1
    <3>3. In(heap', n, m) = In(heap, n, m)
      BY <1>1, <2>5 DEF Same, In
    <3>4. Count(heap, m) = Count(heap', m) + One(n, m)
      BY <2>6 DEF g
    <3>5. held'[m] = held[m] /\ lost'[m] = lost[m]
      BY <1>2
    <3> HIDE DEF x
    <3> QED
      BY <3>1, <3>2, <3>3, <3>4, <3>5 DEF g
  <2> QED
    BY <1>1, <2>4, <2>5, <2>7, StepBalances
<1> QED
  BY <1>3, <1>4

\* A call of the program finds nothing to be dropped.
LEMMA CallBalances ==
    ASSUME Heap!CountsExact, Heap!Idle, NEW a \in HeapCells,
           Typed(heap', held', lost', todo'),
           \A m \in HeapCells \ {a} : Same(heap, heap', m),
           \A n \in HeapCells :
             held'[n] + lost'[n] + In(heap', a, n) + Heap!Times(todo', n) + Count(heap, n)
               = held[n] + lost[n] + In(heap, a, n) + Count(heap', n)
    PROVE  Heap!CountsExact'
<1>1. \A n : Heap!Times(todo, n) = 0
  BY Idling
<1>2. \A n \in HeapCells : held[n] + lost[n] + In(heap, a, n) \in Nat
  <2>1. /\ heap \in Heaps /\ held \in [HeapCells -> Nat] /\ lost \in [HeapCells -> Nat]
    BY Idling
  <2>2. \A n : In(heap, a, n) \in Nat
    BY <2>1, RowsFinite
  <2> QED
    BY <2>1, <2>2
<1>3. \A n \in HeapCells : held[n] + lost[n] + In(heap, a, n) + Heap!Times(todo, n)
                             = held[n] + lost[n] + In(heap, a, n)
  BY <1>1, <1>2
<1>4. ASSUME NEW n \in HeapCells
      PROVE  held'[n] + lost'[n] + In(heap', a, n) + Heap!Times(todo', n) + Count(heap, n)
               = held[n] + lost[n] + In(heap, a, n) + Heap!Times(todo, n) + Count(heap', n)
  BY <1>3
<1> QED
  BY <1>4, StepBalances

LEMMA EmptyIs ==
    ASSUME NEW type, type \in Heap!Types
    PROVE  Fits(type, Heap!Empty(type)) /\ \A m : Heap!Times(Heap!Empty(type), m) = 0
<1>1. CASE type = "object"
  <2> DEFINE e == [k \in {} |-> 0]
  <2>1. e \in [{} -> HeapCells] /\ {} \in SUBSET HeapKeys /\ DOMAIN e = {}
    OBVIOUS
  <2>2. Heap!Empty(type) = e
    BY <1>1 DEF Heap!Empty
  <2> HIDE DEF e
  <2>3. \A m : Heap!Times(e, m) = 0
    BY <2>1, TimesNone
  <2>4. Fits(type, e)
    BY <1>1, <2>1 DEF Fits, Members
  <2> QED
    BY <2>2, <2>3, <2>4
<1>2. CASE type # "object"
  <2>1. Heap!Empty(type) = <<>> /\ <<>> \in Seq(HeapCells) /\ DOMAIN <<>> = {}
    BY <1>2 DEF Heap!Empty
  <2>2. \A m : Heap!Times(<<>>, m) = 0
    BY <2>1, TimesNone
  <2> QED
    BY <1>2, <2>1, <2>2 DEF Fits
<1> QED
  BY <1>1, <1>2

\* Nobody has a reference to a free cell.
LEMMA FreeIsNowhere ==
    ASSUME Heap!CountsExact, NEW n \in HeapCells, heap[n] = Free
    PROVE  held[n] = 0 /\ Count(heap, n) = 0 /\ \A m \in HeapCells : In(heap, m, n) = 0
<1>1. ASSUME NEW m \in HeapCells
      PROVE  held[n] = 0 /\ Count(heap, n) = 0 /\ In(heap, m, n) = 0
  <2>1. /\ held[n] \in Nat /\ lost[n] \in Nat /\ In(heap, m, n) \in Nat
        /\ Heap!Times(todo, n) \in Nat
        /\ held[n] + lost[n] + In(heap, m, n) + Heap!Times(todo, n) <= Count(heap, n)
        /\ heap[n] = Free => Count(heap, n) = 0
    BY Counts
  <2> QED
    BY <2>1
<1> QED
  BY <1>1

LEMMA CreateCounts ==
    ASSUME Heap!CountsExact, NEW type, type \in Heap!Types, Heap!create(type)
    PROVE  Heap!CountsExact'
<1>1. Heap!Idle /\ lost' = lost /\ todo' = todo
  BY DEF Heap!create
<1>2. PICK n \in HeapCells :
         /\ heap[n] = Free
         /\ heap' = [heap EXCEPT ![n] = [type |-> type, refcount |-> 1,
                                         items |-> Heap!Empty(type)]]
         /\ held' = [held EXCEPT ![n] = 1]
  BY DEF Heap!create, Heap!Live
<1> DEFINE g == heap'
           e == Heap!Empty(type)
<1>3. /\ heap \in Heaps /\ held \in [HeapCells -> Nat] /\ lost \in [HeapCells -> Nat]
      /\ todo = <<>>
  BY <1>1, Idling
<1>4. held[n] = 0 /\ Count(heap, n) = 0
  BY <1>2, FreeIsNowhere
<1>5. g = Written(heap, n, type, 1, e)
  BY <1>2 DEF Written
<1>6. Fits(type, e) /\ \A m : Heap!Times(e, m) = 0
  BY EmptyIs
<1> HIDE DEF g, e
<1>7. Wrote(heap, g, n, type, 1, e)
  <2>1. 1 \in Positive
    BY DEF Positive
  <2>2. Wrote(heap, Written(heap, n, type, 1, e), n, type, 1, e)
    BY <1>3, <1>6, <2>1, WriteCell
  <2> QED
    BY <1>5, <2>2
<1>8. held' \in [HeapCells -> Nat] /\ \A m \in HeapCells : held'[m] = held[m] + One(n, m)
  BY <1>2, <1>3, <1>4 DEF One
<1>9. Typed(heap', held', lost', todo')
  BY <1>1, <1>3, <1>7, <1>8 DEF Typed, Wrote, g
<1>10. \A m \in HeapCells \ {n} : Same(heap, heap', m)
  BY <1>7 DEF Wrote, Same, g
<1>11. \A m \in HeapCells : Count(g, m) = Count(heap, m) + One(n, m)
  BY <1>3, <1>4, <1>7, CountIsNat DEF One, Wrote
<1>12. ASSUME NEW m \in HeapCells
       PROVE  held'[m] + lost'[m] + In(heap', n, m) + Heap!Times(todo', m) + Count(heap, m)
                = held[m] + lost[m] + In(heap, n, m) + Count(heap', m)
  <2>1. /\ held[m] \in Nat /\ lost[m] \in Nat /\ One(n, m) \in Nat /\ Count(heap, m) \in Nat
    BY <1>3, CountIsNat DEF One
  <2>2. Heap!Times(todo', m) = 0 /\ In(heap, n, m) = 0
    BY <1>1, <1>2, Idling DEF In
  <2>3. In(heap', n, m) = 0
    BY <1>6, <1>7 DEF Wrote, g
  <2>4. held'[m] = held[m] + One(n, m) /\ lost'[m] = lost[m]
    BY <1>1, <1>8
  <2>5. Count(heap', m) = Count(heap, m) + One(n, m)
    BY <1>11 DEF g
  <2> QED
    BY <2>1, <2>2, <2>3, <2>4, <2>5
<1> QED
  BY <1>1, <1>9, <1>10, <1>12, CallBalances

LEMMA TakeCounts ==
    ASSUME Heap!CountsExact, NEW n \in HeapCells, Heap!takeReference(n)
    PROVE  Heap!CountsExact'
<1> DEFINE g == heap'
<1>1. /\ Heap!Idle /\ Heap!Holds(n) /\ lost' = lost /\ todo' = todo
      /\ g = Heap!json_incref(heap, n) /\ held' = [held EXCEPT ![n] = @ + 1]
  BY DEF Heap!takeReference
<1>2. /\ heap \in Heaps /\ held \in [HeapCells -> Nat] /\ lost \in [HeapCells -> Nat]
      /\ todo = <<>> /\ heap[n] # Free
  BY <1>1, Idling
<1> HIDE DEF g
<1>3. /\ g \in Heaps
      /\ \A m \in HeapCells : Same(heap, g, m) /\ Count(g, m) = Count(heap, m) + One(n, m)
  BY <1>1, <1>2, Incref
<1>4. held' \in [HeapCells -> Nat] /\ \A m \in HeapCells : held'[m] = held[m] + One(n, m)
  BY <1>1, <1>2 DEF One
<1>5. Typed(heap', held', lost', todo')
  BY <1>1, <1>2, <1>3, <1>4 DEF Typed, g
<1>6. ASSUME NEW m \in HeapCells
      PROVE  held'[m] + lost'[m] + In(heap', n, m) + Heap!Times(todo', m) + Count(heap, m)
               = held[m] + lost[m] + In(heap, n, m) + Count(heap', m)
  <2>1. /\ held[m] \in Nat /\ lost[m] \in Nat /\ One(n, m) \in Nat /\ Count(heap, m) \in Nat
        /\ In(heap, n, m) \in Nat
    BY <1>2, CountIsNat, RowsFinite DEF One
  <2>2. Heap!Times(todo', m) = 0
    BY <1>1, Idling
  <2>3. In(heap', n, m) = In(heap, n, m)
    BY <1>2, <1>3 DEF Same, In, g
  <2>4. Count(heap', m) = Count(heap, m) + One(n, m)
    BY <1>3 DEF g
  <2> QED
    BY <1>1, <1>4, <2>1, <2>2, <2>3, <2>4
<1> QED
  BY <1>1, <1>3, <1>5, <1>6, CallBalances DEF g

LEMMA DropCounts ==
    ASSUME Heap!CountsExact, NEW n \in HeapCells, Heap!dropReference(n)
    PROVE  Heap!CountsExact'
<1>1. /\ Heap!Idle /\ Heap!Holds(n) /\ heap' = heap /\ lost' = lost /\ todo' = <<n>>
      /\ held' = [held EXCEPT ![n] = @ - 1]
  BY DEF Heap!dropReference
<1>2. /\ heap \in Heaps /\ held \in [HeapCells -> Nat] /\ lost \in [HeapCells -> Nat]
      /\ held[n] > 0
  BY <1>1, Idling
<1>3. held' \in [HeapCells -> Nat] /\ \A m \in HeapCells : held'[m] + One(n, m) = held[m]
  BY <1>1, <1>2 DEF One
<1>4. Typed(heap', held', lost', todo')
  BY <1>1, <1>2, <1>3 DEF Typed
<1>5. \A m \in HeapCells : Same(heap, heap', m)
  BY <1>1 DEF Same
<1>6. ASSUME NEW m \in HeapCells
      PROVE  held'[m] + lost'[m] + In(heap', n, m) + Heap!Times(todo', m) + Count(heap, m)
               = held[m] + lost[m] + In(heap, n, m) + Count(heap', m)
  <2>1. /\ held'[m] \in Nat /\ lost[m] \in Nat /\ One(n, m) \in Nat /\ Count(heap, m) \in Nat
        /\ In(heap, n, m) \in Nat
    BY <1>2, <1>3, CountIsNat, RowsFinite DEF One
  <2>2. Heap!Times(todo', m) = One(n, m)
    BY <1>1, TimesOne
  <2>3. In(heap', n, m) = In(heap, n, m) /\ Count(heap', m) = Count(heap, m)
    BY <1>1
  <2> QED
    BY <1>1, <1>3, <2>1, <2>2, <2>3
<1> QED
  BY <1>1, <1>4, <1>5, <1>6, CallBalances

LEMMA ForgetCounts ==
    ASSUME Heap!CountsExact, NEW n \in HeapCells, Heap!forgetReference(n)
    PROVE  Heap!CountsExact'
<1>1. /\ Heap!Idle /\ Heap!Holds(n) /\ heap' = heap /\ todo' = todo
      /\ held' = [held EXCEPT ![n] = @ - 1] /\ lost' = [lost EXCEPT ![n] = @ + 1]
  BY DEF Heap!forgetReference
<1>2. /\ heap \in Heaps /\ held \in [HeapCells -> Nat] /\ lost \in [HeapCells -> Nat]
      /\ held[n] > 0 /\ todo = <<>>
  BY <1>1, Idling
<1>3. held' \in [HeapCells -> Nat] /\ \A m \in HeapCells : held'[m] + One(n, m) = held[m]
  BY <1>1, <1>2 DEF One
<1>4. lost' \in [HeapCells -> Nat] /\ \A m \in HeapCells : lost'[m] = lost[m] + One(n, m)
  BY <1>1, <1>2 DEF One
<1>5. Typed(heap', held', lost', todo')
  BY <1>1, <1>2, <1>3, <1>4 DEF Typed
<1>6. \A m \in HeapCells : Same(heap, heap', m)
  BY <1>1 DEF Same
<1>7. ASSUME NEW m \in HeapCells
      PROVE  held'[m] + lost'[m] + In(heap', n, m) + Heap!Times(todo', m) + Count(heap, m)
               = held[m] + lost[m] + In(heap, n, m) + Count(heap', m)
  <2>1. /\ held'[m] \in Nat /\ lost[m] \in Nat /\ One(n, m) \in Nat /\ Count(heap, m) \in Nat
        /\ In(heap, n, m) \in Nat
    BY <1>2, <1>3, CountIsNat, RowsFinite DEF One
  <2>2. Heap!Times(todo', m) = 0
    BY <1>1, Idling
  <2>3. In(heap', n, m) = In(heap, n, m) /\ Count(heap', m) = Count(heap, m)
    BY <1>1
  <2> QED
    BY <1>3, <1>4, <2>1, <2>2, <2>3
<1> QED
  BY <1>1, <1>5, <1>6, <1>7, CallBalances

LEMMA DeleteRootCounts ==
    ASSUME Heap!CountsExact, NEW n \in HeapCells, Heap!deleteRoot(n)
    PROVE  Heap!CountsExact'
<1> DEFINE g == heap'
           items == heap[n].items
<1>1. /\ Heap!Idle /\ held[n] = 1 /\ heap[n].refcount = 1
      /\ g = [heap EXCEPT ![n] = Free] /\ held' = [held EXCEPT ![n] = 0] /\ todo' = todo
      /\ lost' = [m \in HeapCells |-> lost[m] + Heap!Times(items, m)]
  BY DEF Heap!deleteRoot
<1>2. /\ heap \in Heaps /\ held \in [HeapCells -> Nat] /\ lost \in [HeapCells -> Nat]
      /\ todo = <<>> /\ heap[n] # Free
  BY <1>1, Idling DEF Heap!Holds
<1>3. \A m : In(heap, n, m) = Heap!Times(items, m)
  BY <1>2 DEF In
<1>4. Count(heap, n) = 1
  BY <1>1, <1>2 DEF Count
<1> HIDE DEF g, items
<1>5. /\ g \in Heaps /\ Count(g, n) = 0 /\ \A m : In(g, n, m) = 0
      /\ \A m \in HeapCells \ {n} : Same(heap, g, m) /\ Count(g, m) = Count(heap, m)
  <2>1. Emptied(heap, [heap EXCEPT ![n] = Free], n)
    BY <1>2, FreeCell
  <2> QED
    BY <1>1, <2>1 DEF Emptied
<1>6. \A m \in HeapCells : Heap!Times(items, m) \in Nat
  BY <1>2, <1>3, RowsFinite
<1>7. lost' \in [HeapCells -> Nat]
  BY <1>1, <1>2, <1>6
<1>8. held' \in [HeapCells -> Nat] /\ \A m \in HeapCells : held'[m] + One(n, m) = held[m]
  BY <1>1, <1>2 DEF One
<1>9. Typed(heap', held', lost', todo')
  BY <1>1, <1>2, <1>5, <1>7, <1>8 DEF Typed, g
<1>10. \A m \in HeapCells : Count(heap, m) = Count(g, m) + One(n, m)
  BY <1>2, <1>4, <1>5, CountIsNat DEF One
<1>11. ASSUME NEW m \in HeapCells
       PROVE  held'[m] + lost'[m] + In(heap', n, m) + Heap!Times(todo', m) + Count(heap, m)
                = held[m] + lost[m] + In(heap, n, m) + Count(heap', m)
  <2> DEFINE x == Heap!Times(items, m)
  <2>1. /\ held'[m] \in Nat /\ lost[m] \in Nat /\ One(n, m) \in Nat /\ Count(g, m) \in Nat
        /\ x \in Nat
    BY <1>2, <1>5, <1>6, <1>8, CountIsNat DEF One
  <2>2. Heap!Times(todo', m) = 0
    BY <1>1, Idling
  <2>3. In(heap', n, m) = 0 /\ In(heap, n, m) = x
    BY <1>3, <1>5 DEF g
  <2>4. Count(heap, m) = Count(heap', m) + One(n, m)
    BY <1>10 DEF g
  <2>5. lost'[m] = lost[m] + x /\ held[m] = held'[m] + One(n, m)
    BY <1>1, <1>8
  <2> HIDE DEF x
  <2> QED
    BY <2>1, <2>2, <2>3, <2>4, <2>5 DEF g
<1> QED
  BY <1>1, <1>5, <1>9, <1>11, CallBalances DEF g

-----------------------------------------------------------------------------
(* A reference is passed: c is the heap in which it is counted.            *)

Handed(c, v) ==
    /\ c \in Heaps /\ held' \in [HeapCells -> Nat] /\ lost' = lost
    /\ \A m \in HeapCells :
          /\ Same(heap, c, m)
          /\ Count(c, m) + held[m] = Count(heap, m) + held'[m] + One(v, m)

LEMMA Passed ==
    ASSUME Heap!CountsExact, NEW v \in HeapCells, NEW own \in BOOLEAN, Heap!Pass(v, own)
    PROVE  Handed(Heap!Counted(v, own), v)
<1>1. /\ Heap!Idle /\ Heap!Holds(v) /\ lost' = lost
      /\ held' = IF own THEN [held EXCEPT ![v] = @ - 1] ELSE held
  BY DEF Heap!Pass
<1>2. /\ heap \in Heaps /\ held \in [HeapCells -> Nat] /\ heap[v] # Free /\ held[v] > 0
  BY <1>1, Idling
<1>3. \A m \in HeapCells : Count(heap, m) \in Nat /\ held[m] \in Nat /\ One(v, m) \in Nat
  BY <1>2, CountIsNat DEF One
<1>4. CASE own
  <2>1. held' \in [HeapCells -> Nat] /\ \A m \in HeapCells : held'[m] + One(v, m) = held[m]
    BY <1>1, <1>2, <1>4 DEF One
  <2>2. Heap!Counted(v, own) = heap /\ \A m \in HeapCells : Same(heap, heap, m)
    BY <1>4 DEF Heap!Counted, Same
  <2> QED
    BY <1>1, <1>2, <1>3, <2>1, <2>2 DEF Handed
<1>5. CASE ~ own
  <2> DEFINE c == Heap!json_incref(heap, v)
  <2>1. Heap!Counted(v, own) = c /\ held' = held
    BY <1>1, <1>5 DEF Heap!Counted
  <2>2. /\ c \in Heaps
        /\ \A m \in HeapCells : Same(heap, c, m) /\ Count(c, m) = Count(heap, m) + One(v, m)
    BY <1>2, Incref
  <2> HIDE DEF c
  <2> QED
    BY <1>1, <1>2, <1>3, <2>1, <2>2 DEF Handed
<1> QED
  BY <1>4, <1>5

LEMMA RefuseCounts ==
    ASSUME Heap!CountsExact, NEW v \in HeapCells, NEW own \in BOOLEAN,
           Heap!Pass(v, own), Heap!Refuse(v, own)
    PROVE  Heap!CountsExact'
<1> DEFINE c == Heap!Counted(v, own)
<1>1. Handed(c, v) /\ Heap!Idle
  BY Passed DEF Heap!Pass
<1>2. heap' = c /\ todo' = <<v>>
  BY DEF Heap!Refuse
<1> HIDE DEF c
<1>3. /\ heap \in Heaps /\ held \in [HeapCells -> Nat] /\ lost \in [HeapCells -> Nat]
  BY <1>1, Idling
<1>4. Typed(heap', held', lost', todo')
  BY <1>1, <1>2, <1>3 DEF Typed, Handed
<1>5. \A m \in HeapCells : Same(heap, heap', m)
  BY <1>1, <1>2 DEF Handed
<1>6. ASSUME NEW m \in HeapCells
      PROVE  held'[m] + lost'[m] + In(heap', v, m) + Heap!Times(todo', m) + Count(heap, m)
               = held[m] + lost[m] + In(heap, v, m) + Count(heap', m)
  <2>1. /\ held[m] \in Nat /\ held'[m] \in Nat /\ lost[m] \in Nat /\ One(v, m) \in Nat
        /\ Count(heap, m) \in Nat /\ Count(c, m) \in Nat /\ In(heap, v, m) \in Nat
    BY <1>1, <1>3, CountIsNat, RowsFinite DEF One, Handed
  <2>2. Heap!Times(todo', m) = One(v, m)
    BY <1>2, TimesOne
  <2>3. In(heap', v, m) = In(heap, v, m)
    BY <1>3, <1>5 DEF Same, In
  <2>4. Count(c, m) + held[m] = Count(heap, m) + held'[m] + One(v, m) /\ lost' = lost
    BY <1>1 DEF Handed
  <2> QED
    BY <1>2, <2>1, <2>2, <2>3, <2>4
<1> QED
  BY <1>1, <1>4, <1>5, <1>6, CallBalances

LEMMA Exchange ==
    ASSUME NEW c \in Nat, NEW cc \in Nat, NEW l \in Nat, NEW i \in Nat, NEW d \in Nat,
           NEW r \in Nat, NEW rr \in Nat, NEW x \in Nat, NEW o \in Nat,
           rr + c = r + cc + o, i + d = x + o
    PROVE  cc + l + i + d + r = c + l + x + rr
OBVIOUS

\* What the container holds more, and what is to be dropped, is what it held before
\* and the value.
Exchanges(a, v, items, dropped) ==
    /\ Fits(heap[a].type, items) /\ dropped \in Seq(HeapCells)
    /\ \A m \in HeapCells :
          Heap!Times(items, m) + Heap!Times(dropped, m) = In(heap, a, m) + One(v, m)

LEMMA StoreCounts ==
    ASSUME Heap!CountsExact, NEW a \in HeapCells, NEW v \in HeapCells, NEW own \in BOOLEAN,
           heap[a] # Free, Heap!Pass(v, own), NEW items, NEW dropped,
           Exchanges(a, v, items, dropped), Heap!Store(a, v, own, items, dropped)
    PROVE  Heap!CountsExact'
<1> DEFINE c == Heap!Counted(v, own)
           g == heap'
<1>1. Handed(c, v) /\ Heap!Idle
  BY Passed DEF Heap!Pass
<1>2. g = [c EXCEPT ![a].items = items] /\ todo' = dropped
  BY DEF Heap!Store
<1> HIDE DEF c, g
<1>3. /\ heap \in Heaps /\ held \in [HeapCells -> Nat] /\ lost \in [HeapCells -> Nat]
  BY <1>1, Idling
<1>4. Refilled(c, g, a, items)
  <2>1. c \in Heaps /\ c[a] # Free /\ Fits(c[a].type, items)
    BY <1>1 DEF Handed, Same, Exchanges
  <2>2. Refilled(c, [c EXCEPT ![a].items = items], a, items)
    BY <2>1, WriteItems
  <2> QED
    BY <1>2, <2>2
<1>5. Typed(heap', held', lost', todo')
  BY <1>1, <1>2, <1>3, <1>4 DEF Typed, Handed, Refilled, Exchanges, g
<1>6. \A m \in HeapCells \ {a} : Same(heap, heap', m)
  BY <1>1, <1>4 DEF Handed, Refilled, Same, g
<1>7. ASSUME NEW m \in HeapCells
      PROVE  held'[m] + lost'[m] + In(heap', a, m) + Heap!Times(todo', m) + Count(heap, m)
               = held[m] + lost[m] + In(heap, a, m) + Count(heap', m)
  <2> DEFINE d == Heap!Times(dropped, m)
             i == Heap!Times(items, m)
  <2>1. /\ held[m] \in Nat /\ held'[m] \in Nat /\ lost[m] \in Nat /\ One(v, m) \in Nat
        /\ Count(heap, m) \in Nat /\ Count(c, m) \in Nat /\ In(heap, a, m) \in Nat
    BY <1>1, <1>3, CountIsNat, RowsFinite DEF One, Handed
  <2>2. d \in Nat
    BY TimesSeqIsNat DEF Exchanges
  <2>3. i \in Nat
    <3>1. In(g, a, m) = i /\ g \in Heaps
      BY <1>4 DEF Refilled
    <3> HIDE DEF i
    <3> QED
      BY <3>1, RowsFinite
  <2>4. In(heap', a, m) = i /\ Count(heap', m) = Count(c, m)
    BY <1>4 DEF Refilled, g
  <2>5. i + d = In(heap, a, m) + One(v, m)
    BY DEF Exchanges
  <2>6. Heap!Times(todo', m) = d
    BY <1>2
  <2>7. Count(c, m) + held[m] = Count(heap, m) + held'[m] + One(v, m) /\ lost' = lost
    BY <1>1 DEF Handed
  <2> DEFINE hn == held[m]
             hp == held'[m]
             ln == lost[m]
             x == In(heap, a, m)
             o == One(v, m)
  <2>8. hn \in Nat /\ hp \in Nat /\ ln \in Nat /\ x \in Nat /\ o \in Nat
    BY <2>1
  <2>9. i + d = x + o /\ Count(c, m) + hn = Count(heap, m) + hp + o
    BY <2>5, <2>7
  <2> HIDE DEF d, i, hn, hp, ln, x, o
  <2>10. hp + ln + i + d + Count(heap, m) = hn + ln + x + Count(c, m)
    BY <2>1, <2>2, <2>3, <2>8, <2>9, Exchange
  <2> QED
    BY <2>4, <2>6, <2>7, <2>10 DEF hn, hp, ln, x
<1> QED
  BY <1>1, <1>5, <1>6, <1>7, CallBalances

-----------------------------------------------------------------------------
(* Arrays.                                                                 *)

LEMMA ArrayIs ==
    ASSUME Heap!CountsExact, Heap!Idle, NEW a \in HeapCells, Heap!Holds(a),
           Heap!json_is_array(a)
    PROVE  /\ heap[a] # Free /\ heap[a].items \in Seq(HeapCells)
           /\ \A m : In(heap, a, m) = Heap!Times(heap[a].items, m)
           /\ \A items \in Seq(HeapCells) : Fits(heap[a].type, items)
<1>1. heap \in Heaps /\ heap[a] # Free
  BY Idling
<1>2. heap[a].type = "array"
  BY DEF Heap!json_is_array
<1>3. Fits(heap[a].type, heap[a].items)
  BY <1>1, LiveCell
<1> QED
  BY <1>1, <1>2, <1>3 DEF Fits, In

LEMMA AppendCounts ==
    ASSUME Heap!CountsExact, NEW a \in HeapCells, NEW v \in HeapCells, NEW own \in BOOLEAN,
           Heap!json_array_append_new(a, v, own)
    PROVE  Heap!CountsExact'
<1>1. Heap!Pass(v, own) /\ Heap!Idle /\ Heap!Holds(a)
  BY DEF Heap!json_array_append_new, Heap!Pass
<1>2. CASE Heap!Refuse(v, own)
  BY <1>1, <1>2, RefuseCounts
<1>3. CASE ~ Heap!Refuse(v, own)
  <2> DEFINE old == heap[a].items
             items == Append(old, v)
  <2>1. Heap!json_is_array(a) /\ Heap!Store(a, v, own, items, <<>>)
    BY <1>3 DEF Heap!json_array_append_new
  <2>2. /\ heap[a] # Free /\ old \in Seq(HeapCells)
        /\ \A m : In(heap, a, m) = Heap!Times(old, m)
        /\ \A its \in Seq(HeapCells) : Fits(heap[a].type, its)
    BY <1>1, <2>1, ArrayIs
  <2> HIDE DEF old
  <2>3. items \in Seq(HeapCells)
    BY <2>2, AppendProperties
  <2>4. \A m : Heap!Times(items, m) = Heap!Times(old, m) + One(v, m)
    BY <2>2, TimesAppend
  <2> HIDE DEF items
  <2>5. Exchanges(a, v, items, <<>>)
    <3>1. \A m : Heap!Times(<<>>, m) = 0
      BY TimesNone
    <3>2. \A m : Heap!Times(old, m) \in Nat
      BY <2>2, TimesSeqIsNat
    <3>3. Fits(heap[a].type, items) /\ <<>> \in Seq(HeapCells)
      BY <2>2, <2>3
    <3>4. \A m : Heap!Times(items, m) + Heap!Times(<<>>, m) = In(heap, a, m) + One(v, m)
      BY <2>2, <2>4, <3>1, <3>2 DEF One
    <3> QED
      BY <3>3, <3>4 DEF Exchanges
  <2> QED
    BY <1>1, <2>1, <2>2, <2>5, StoreCounts
<1> QED
  BY <1>2, <1>3

LEMMA InsertCounts ==
    ASSUME Heap!CountsExact, NEW a \in HeapCells, NEW i \in Heap!Positions,
           NEW v \in HeapCells, NEW own \in BOOLEAN,
           Heap!json_array_insert_new(a, i, v, own)
    PROVE  Heap!CountsExact'
<1>1. Heap!Pass(v, own) /\ Heap!Idle /\ Heap!Holds(a)
  BY DEF Heap!json_array_insert_new, Heap!Pass
<1>2. CASE Heap!Refuse(v, own)
  BY <1>1, <1>2, RefuseCounts
<1>3. CASE ~ Heap!Refuse(v, own)
  <2> DEFINE old == heap[a].items
             items == Heap!InsertAt(old, i, v)
  <2>1. /\ Heap!json_is_array(a) /\ i <= Len(old) + 1
        /\ Heap!Store(a, v, own, items, <<>>)
    BY <1>3 DEF Heap!json_array_insert_new
  <2>2. /\ heap[a] # Free /\ old \in Seq(HeapCells)
        /\ \A m : In(heap, a, m) = Heap!Times(old, m)
        /\ \A its \in Seq(HeapCells) : Fits(heap[a].type, its)
    BY <1>1, <2>1, ArrayIs
  <2> HIDE DEF old
  <2>3. i \in 1 .. Len(old) + 1
    <3>1. Len(old) \in Nat
      BY <2>2, LenProperties
    <3> QED
      BY <2>1, <3>1 DEF Heap!Positions
  <2>4. /\ items \in Seq(HeapCells)
        /\ \A m : Heap!Times(items, m) = Heap!Times(old, m) + One(v, m)
    BY <2>2, <2>3, TimesInsert
  <2> HIDE DEF items
  <2>5. Exchanges(a, v, items, <<>>)
    <3>1. \A m : Heap!Times(<<>>, m) = 0
      BY TimesNone
    <3>2. \A m : Heap!Times(old, m) \in Nat
      BY <2>2, TimesSeqIsNat
    <3>3. Fits(heap[a].type, items) /\ <<>> \in Seq(HeapCells)
      BY <2>2, <2>4
    <3>4. \A m : Heap!Times(items, m) + Heap!Times(<<>>, m) = In(heap, a, m) + One(v, m)
      BY <2>2, <2>4, <3>1, <3>2 DEF One
    <3> QED
      BY <3>3, <3>4 DEF Exchanges
  <2> QED
    BY <1>1, <2>1, <2>2, <2>5, StoreCounts
<1> QED
  BY <1>2, <1>3

LEMMA SetCounts ==
    ASSUME Heap!CountsExact, NEW a \in HeapCells, NEW i \in Heap!Positions,
           NEW v \in HeapCells, NEW own \in BOOLEAN,
           Heap!json_array_set_new(a, i, v, own)
    PROVE  Heap!CountsExact'
<1> DEFINE old == heap[a].items
           items == [old EXCEPT ![i] = v]
<1>1. Heap!Pass(v, own) /\ Heap!Idle /\ Heap!Holds(a)
  BY DEF Heap!json_array_set_new, Heap!Pass
<1>2. CASE ~ (Heap!json_is_array(a) /\ a # v /\ i <= Len(old))
  <2>1. Heap!Refuse(v, own)
    BY <1>2 DEF Heap!json_array_set_new
  <2> QED
    BY <1>1, <2>1, RefuseCounts
<1>3. CASE Heap!json_is_array(a) /\ a # v /\ i <= Len(old)
  <2>1. Heap!Store(a, v, own, items, <<old[i]>>)
    BY <1>3 DEF Heap!json_array_set_new
  <2>2. /\ heap[a] # Free /\ old \in Seq(HeapCells)
        /\ \A m : In(heap, a, m) = Heap!Times(old, m)
        /\ \A its \in Seq(HeapCells) : Fits(heap[a].type, its)
    BY <1>1, <1>3, ArrayIs
  <2> HIDE DEF old
  <2>3. i \in DOMAIN old /\ IsFiniteSet(DOMAIN old) /\ old[i] \in HeapCells
    <3>1. Len(old) \in Nat /\ DOMAIN old = 1 .. Len(old)
      BY <2>2, LenProperties
    <3>2. i \in 1 .. Len(old)
      BY <1>3, <3>1 DEF Heap!Positions
    <3>3. IsFiniteSet(DOMAIN old)
      BY <3>1, FS_Interval
    <3> QED
      BY <2>2, <3>1, <3>2, <3>3, ElementOfSeq
  <2>4. items \in Seq(HeapCells)
    BY <2>2, <2>3, ExceptSeq
  <2>5. /\ DOMAIN items = DOMAIN old /\ items[i] = v
        /\ \A j \in DOMAIN old \ {i} : items[j] = old[j]
    BY <2>3
  <2> HIDE DEF items
  <2>6. \A m : Heap!Times(items, m) + One(old[i], m) = Heap!Times(old, m) + One(v, m)
    BY <2>3, <2>5, TimesExcept
  <2>7. Exchanges(a, v, items, <<old[i]>>)
    <3>1. \A m : Heap!Times(<<old[i]>>, m) = One(old[i], m)
      BY TimesOne
    <3>2. Fits(heap[a].type, items) /\ <<old[i]>> \in Seq(HeapCells)
      BY <2>2, <2>3, <2>4
    <3>3. \A m : Heap!Times(items, m) + Heap!Times(<<old[i]>>, m)
                   = In(heap, a, m) + One(v, m)
      BY <2>2, <2>6, <3>1
    <3> QED
      BY <3>2, <3>3 DEF Exchanges
  <2> QED
    BY <1>1, <2>1, <2>2, <2>7, StoreCounts
<1> QED
  BY <1>2, <1>3

-----------------------------------------------------------------------------
(* Items go and come without a value being passed: c is the heap in which  *)
(* the new ones are counted.                                               *)

Raised(c, more) ==
    /\ c \in Heaps
    /\ \A m \in HeapCells : Same(heap, c, m) /\ Count(c, m) = Count(heap, m) + more[m]

Refills(c, a, items, dropped) ==
    /\ heap' = [c EXCEPT ![a].items = items] /\ todo' = dropped
    /\ held' = held /\ lost' = lost

Gives(a, more, items, dropped) ==
    /\ Fits(heap[a].type, items) /\ dropped \in Seq(HeapCells)
    /\ more \in [HeapCells -> Nat]
    /\ \A m \in HeapCells :
          Heap!Times(items, m) + Heap!Times(dropped, m) = In(heap, a, m) + more[m]

LEMMA RefillCounts ==
    ASSUME Heap!CountsExact, Heap!Idle, NEW a \in HeapCells, heap[a] # Free,
           NEW c, NEW more, Raised(c, more), NEW items, NEW dropped,
           Gives(a, more, items, dropped), Refills(c, a, items, dropped)
    PROVE  Heap!CountsExact'
<1> DEFINE g == heap'
<1>1. g = [c EXCEPT ![a].items = items] /\ todo' = dropped /\ held' = held /\ lost' = lost
  BY DEF Refills
<1> HIDE DEF g
<1>2. /\ heap \in Heaps /\ held \in [HeapCells -> Nat] /\ lost \in [HeapCells -> Nat]
  BY Idling
<1>3. Refilled(c, g, a, items)
  <2>1. c \in Heaps /\ c[a] # Free /\ Fits(c[a].type, items)
    BY DEF Raised, Same, Gives
  <2>2. Refilled(c, [c EXCEPT ![a].items = items], a, items)
    BY <2>1, WriteItems
  <2> QED
    BY <1>1, <2>2
<1>4. Typed(heap', held', lost', todo')
  BY <1>1, <1>2, <1>3 DEF Typed, Refilled, Gives, g
<1>5. \A m \in HeapCells \ {a} : Same(heap, heap', m)
  BY <1>3 DEF Raised, Refilled, Same, g
<1>6. ASSUME NEW m \in HeapCells
      PROVE  held'[m] + lost'[m] + In(heap', a, m) + Heap!Times(todo', m) + Count(heap, m)
               = held[m] + lost[m] + In(heap, a, m) + Count(heap', m)
  <2> DEFINE d == Heap!Times(dropped, m)
             i == Heap!Times(items, m)
  <2>1. /\ held[m] \in Nat /\ lost[m] \in Nat /\ more[m] \in Nat
        /\ Count(heap, m) \in Nat /\ In(heap, a, m) \in Nat
    BY <1>2, CountIsNat, RowsFinite DEF Gives
  <2>2. d \in Nat
    BY TimesSeqIsNat DEF Gives
  <2>3. i \in Nat
    <3>1. In(g, a, m) = i /\ g \in Heaps
      BY <1>3 DEF Refilled
    <3> HIDE DEF i
    <3> QED
      BY <3>1, RowsFinite
  <2>4. In(heap', a, m) = i /\ Count(heap', m) = Count(heap, m) + more[m]
    BY <1>3 DEF Refilled, Raised, g
  <2>5. i + d = In(heap, a, m) + more[m]
    BY DEF Gives
  <2>6. Heap!Times(todo', m) = d /\ held'[m] = held[m] /\ lost'[m] = lost[m]
    BY <1>1
  <2> HIDE DEF d, i
  <2> QED
    BY <2>1, <2>2, <2>3, <2>4, <2>5, <2>6
<1> QED
  BY <1>4, <1>5, <1>6, CallBalances

\* Nothing is counted anew.
LEMMA RaisedByNone ==
    ASSUME heap \in Heaps
    PROVE  /\ [m \in HeapCells |-> 0] \in [HeapCells -> Nat]
           /\ Raised(heap, [m \in HeapCells |-> 0])
<1>1. \A m \in HeapCells : Count(heap, m) \in Nat
  BY CountIsNat
<1> QED
  BY <1>1 DEF Raised, Same

LEMMA RemoveCounts ==
    ASSUME Heap!CountsExact, NEW a \in HeapCells, NEW i \in Heap!Positions,
           Heap!json_array_remove(a, i)
    PROVE  Heap!CountsExact'
<1> DEFINE old == heap[a].items
           items == Heap!RemoveAt(old, i)
           none == [m \in HeapCells |-> 0]
<1>1. /\ Heap!Idle /\ Heap!Holds(a) /\ Heap!json_is_array(a) /\ i <= Len(old)
      /\ heap' = [heap EXCEPT ![a].items = Heap!RemoveAt(@, i)]
      /\ todo' = <<old[i]>> /\ held' = held /\ lost' = lost
  BY DEF Heap!json_array_remove
<1>2. Refills(heap, a, items, <<old[i]>>)
  BY <1>1 DEF Refills
<1>3. /\ heap[a] # Free /\ old \in Seq(HeapCells)
      /\ \A m : In(heap, a, m) = Heap!Times(old, m)
      /\ \A its \in Seq(HeapCells) : Fits(heap[a].type, its)
  BY <1>1, ArrayIs
<1> HIDE DEF old
<1>4. i \in 1 .. Len(old) /\ old[i] \in HeapCells
  <2>1. Len(old) \in Nat
    BY <1>3, LenProperties
  <2>2. i \in 1 .. Len(old)
    BY <1>1, <2>1 DEF Heap!Positions
  <2> QED
    BY <1>3, <2>2, ElementOfSeq
<1>5. /\ items \in Seq(HeapCells)
      /\ \A m : Heap!Times(old, m) = Heap!Times(items, m) + One(old[i], m)
  BY <1>3, <1>4, TimesRemove
<1> HIDE DEF items
<1>6. none \in [HeapCells -> Nat] /\ Raised(heap, none)
  BY <1>1, Idling, RaisedByNone
<1>7. Gives(a, none, items, <<old[i]>>)
  <2>1. \A m : Heap!Times(<<old[i]>>, m) = One(old[i], m)
    BY TimesOne
  <2>2. \A m : Heap!Times(items, m) \in Nat /\ One(old[i], m) \in Nat
    BY <1>5, TimesSeqIsNat DEF One
  <2>3. Fits(heap[a].type, items) /\ <<old[i]>> \in Seq(HeapCells)
    BY <1>3, <1>4, <1>5
  <2>4. \A m \in HeapCells : Heap!Times(items, m) + Heap!Times(<<old[i]>>, m)
                               = In(heap, a, m) + none[m]
    BY <1>3, <1>5, <2>1, <2>2
  <2> QED
    BY <1>6, <2>3, <2>4 DEF Gives
<1> HIDE DEF none
<1> QED
  BY <1>1, <1>2, <1>3, <1>6, <1>7, RefillCounts

LEMMA ClearCounts ==
    ASSUME Heap!CountsExact, NEW a \in HeapCells, Heap!clear(a)
    PROVE  Heap!CountsExact'
<1> DEFINE items == Heap!Empty(heap[a].type)
           dropped == Heap!Contained(a)
           none == [m \in HeapCells |-> 0]
<1>1. /\ Heap!Idle /\ Heap!Holds(a) /\ Refills(heap, a, items, dropped)
  BY DEF Heap!clear, Refills
<1>2. heap \in Heaps /\ heap[a] # Free
  BY <1>1, Idling
<1>3. dropped \in Seq(HeapCells) /\ \A m : Heap!Times(dropped, m) = In(heap, a, m)
  BY <1>2, ContainedIs
<1>4. Fits(heap[a].type, items) /\ \A m : Heap!Times(items, m) = 0
  <2>1. heap[a].type \in Heap!Types
    BY <1>2, LiveCell
  <2> DEFINE type == heap[a].type
  <2> HIDE DEF type
  <2> QED
    BY <2>1, EmptyIs DEF type
<1>5. none \in [HeapCells -> Nat] /\ Raised(heap, none)
  BY <1>2, RaisedByNone
<1>6. Gives(a, none, items, dropped)
  <2>1. \A m : In(heap, a, m) \in Nat
    BY <1>2, RowsFinite
  <2> HIDE DEF items, dropped
  <2> QED
    BY <1>3, <1>4, <1>5, <2>1 DEF Gives
<1> HIDE DEF items, dropped, none
<1> QED
  BY <1>1, <1>2, <1>5, <1>6, RefillCounts

-----------------------------------------------------------------------------
(* Items that two containers share are counted one by one.                 *)

LEMMA CountAllIs ==
    ASSUME heap \in Heaps, NEW items,
           \A m \in HeapCells :
              /\ Heap!Times(items, m) \in Nat
              /\ heap[m] = Free => Heap!Times(items, m) = 0
    PROVE  LET more == [m \in HeapCells |-> Heap!Times(items, m)]
           IN  /\ more \in [HeapCells -> Nat]
               /\ Raised(Heap!CountAll(heap, items), more)
<1> DEFINE more == [m \in HeapCells |-> Heap!Times(items, m)]
           c == Heap!CountAll(heap, items)
<1>1. more \in [HeapCells -> Nat]
  OBVIOUS
<1>2. ASSUME NEW m \in HeapCells
      PROVE  /\ c[m] \in Heap!Objects \cup Heap!Arrays \cup {Free}
             /\ Same(heap, c, m) /\ Count(c, m) = Count(heap, m) + more[m]
  <2> DEFINE t == Heap!Times(items, m)
  <2>1. c[m] = IF heap[m] = Free THEN Free ELSE [heap[m] EXCEPT !.refcount = @ + t]
    BY DEF Heap!CountAll
  <2>2. t \in Nat /\ more[m] = t /\ (heap[m] = Free => t = 0)
    OBVIOUS
  <2> HIDE DEF t, c, more
  <2>3. CASE heap[m] = Free
    BY <2>1, <2>2, <2>3 DEF Same, Count
  <2>4. CASE heap[m] # Free
    <3>1. /\ heap[m].refcount \in Nat \ {0} /\ heap[m].type \in Heap!Types
          /\ Fits(heap[m].type, heap[m].items)
      BY <2>4, LiveCell
    <3>2. PICK ty, rc, its : heap[m] = [type |-> ty, refcount |-> rc, items |-> its]
      BY <2>4, CellIs
    <3>3. c[m] = [type |-> ty, refcount |-> rc + t, items |-> its]
      BY <2>1, <2>4, <3>2
    <3>4. /\ rc \in Nat \ {0} /\ ty \in Heap!Types /\ Fits(ty, its)
          /\ heap[m].items = its /\ heap[m].type = ty /\ heap[m].refcount = rc
      BY <3>1, <3>2
    <3>5. rc + t \in Nat \ {0}
      BY <2>2, <3>4
    <3>6. c[m] \in Heap!Objects \cup Heap!Arrays
      BY <3>3, <3>4, <3>5 DEF Heap!Objects, Heap!Arrays, Heap!Types, Fits, Members
    <3>7. c[m].items = its /\ c[m].type = ty /\ c[m].refcount = rc + t
      BY <3>3
    <3>8. c[m] # Free
      BY <3>6, Finite
    <3> QED
      BY <2>2, <2>4, <3>4, <3>6, <3>7, <3>8 DEF Same, Count
  <2> QED
    BY <2>3, <2>4
<1>3. c \in Heaps
  <2>1. c = [m \in HeapCells |-> c[m]]
    BY DEF Heap!CountAll
  <2> HIDE DEF c
  <2> QED
    BY <1>2, <2>1 DEF Heaps
<1> HIDE DEF c, more
<1>4. Raised(c, more)
  BY <1>2, <1>3 DEF Raised
<1> QED
  BY <1>1, <1>4 DEF c, more

\* What a live container holds can be counted.
LEMMA HeldItems ==
    ASSUME Heap!CountsExact, NEW a \in HeapCells, heap[a] # Free
    PROVE  \A m \in HeapCells :
              /\ Heap!Times(heap[a].items, m) = In(heap, a, m)
              /\ Heap!Times(heap[a].items, m) \in Nat
              /\ heap[m] = Free => Heap!Times(heap[a].items, m) = 0
<1>1. ASSUME NEW m \in HeapCells
      PROVE  In(heap, a, m) \in Nat /\ (heap[m] = Free => In(heap, a, m) = 0)
  <2>1. In(heap, a, m) \in Nat
    BY Counts
  <2> QED
    BY <2>1, FreeIsNowhere
<1>2. \A m : Heap!Times(heap[a].items, m) = In(heap, a, m)
  BY DEF In
<1> QED
  BY <1>1, <1>2

LEMMA ExtendCounts ==
    ASSUME Heap!CountsExact, NEW a \in HeapCells, NEW b \in HeapCells,
           Heap!json_array_extend(a, b)
    PROVE  Heap!CountsExact'
<1> DEFINE mine == heap[a].items
           yours == heap[b].items
           c == Heap!CountAll(heap, yours)
           more == [m \in HeapCells |-> Heap!Times(yours, m)]
<1>1. /\ Heap!Idle /\ Heap!Holds(a) /\ Heap!Holds(b)
      /\ Heap!json_is_array(a) /\ Heap!json_is_array(b)
      /\ heap' = [c EXCEPT ![a].items = @ \o yours]
      /\ todo' = todo /\ held' = held /\ lost' = lost
  BY DEF Heap!json_array_extend
<1>2. heap \in Heaps /\ todo = <<>>
  BY <1>1, Idling
<1>3. /\ heap[a] # Free /\ mine \in Seq(HeapCells)
      /\ \A m : In(heap, a, m) = Heap!Times(mine, m)
      /\ \A its \in Seq(HeapCells) : Fits(heap[a].type, its)
  BY <1>1, ArrayIs
<1>4. heap[b] # Free /\ yours \in Seq(HeapCells)
  BY <1>1, ArrayIs
<1>5. \A m \in HeapCells :
         Heap!Times(yours, m) \in Nat /\ (heap[m] = Free => Heap!Times(yours, m) = 0)
  BY <1>4, HeldItems
<1> HIDE DEF mine, yours
<1>6. more \in [HeapCells -> Nat] /\ Raised(c, more)
  BY <1>2, <1>5, CountAllIs
<1> HIDE DEF c
<1>7. c[a].items = mine
  BY <1>3, <1>6 DEF Raised, Same, mine
<1>8. Refills(c, a, mine \o yours, <<>>)
  BY <1>1, <1>2, <1>7 DEF Refills
<1>9. mine \o yours \in Seq(HeapCells)
  BY <1>3, <1>4, ConcatProperties
<1>10. \A m : Heap!Times(mine \o yours, m) = Heap!Times(mine, m) + Heap!Times(yours, m)
  BY <1>3, <1>4, TimesConcat
<1>11. Gives(a, more, mine \o yours, <<>>)
  <2>1. \A m : Heap!Times(<<>>, m) = 0
    BY TimesNone
  <2>2. \A m : Heap!Times(mine, m) \in Nat /\ Heap!Times(yours, m) \in Nat
    BY <1>3, <1>4, TimesSeqIsNat
  <2>3. Fits(heap[a].type, mine \o yours)
    BY <1>3, <1>9
  <2>4. <<>> \in Seq(HeapCells)
    OBVIOUS
  <2>5. \A m \in HeapCells : Heap!Times(mine \o yours, m) + Heap!Times(<<>>, m)
                               = In(heap, a, m) + more[m]
    BY <1>3, <1>10, <2>1, <2>2
  <2> QED
    BY <1>6, <2>3, <2>4, <2>5 DEF Gives
<1> HIDE DEF more
<1> QED
  BY <1>1, <1>3, <1>6, <1>8, <1>11, RefillCounts

-----------------------------------------------------------------------------
(* Objects.                                                                *)

LEMMA ObjectIs ==
    ASSUME Heap!CountsExact, Heap!Idle, NEW o \in HeapCells, Heap!Holds(o),
           Heap!json_is_object(o)
    PROVE  /\ heap[o] # Free /\ IsFiniteSet(DOMAIN heap[o].items)
           /\ DOMAIN heap[o].items \subseteq HeapKeys
           /\ heap[o].items \in [DOMAIN heap[o].items -> HeapCells]
           /\ \A m : In(heap, o, m) = Heap!Times(heap[o].items, m)
           /\ \A items \in Members : Fits(heap[o].type, items)
<1>1. heap \in Heaps /\ heap[o] # Free
  BY Idling
<1>2. heap[o].type = "object"
  BY DEF Heap!json_is_object
<1>3. heap[o].items \in Members
  BY <1>1, <1>2, LiveCell DEF Fits
<1> DEFINE items == heap[o].items
<1> HIDE DEF items
<1>4. items \in Members
  BY <1>3 DEF items
<1>5. PICK ks \in SUBSET HeapKeys : items \in [ks -> HeapCells]
  BY <1>4 DEF Members
<1>6. DOMAIN items = ks /\ IsFiniteSet(ks)
  BY <1>5, Finite, FS_Subset
<1>7. \A m : In(heap, o, m) = Heap!Times(heap[o].items, m)
  BY <1>1 DEF In
<1>8. \A its \in Members : Fits(heap[o].type, its)
  BY <1>2 DEF Fits
<1> QED
  BY <1>1, <1>5, <1>6, <1>7, <1>8 DEF items

\* A part of an object.
LEMMA TimesSplit ==
    ASSUME NEW f, IsFiniteSet(DOMAIN f), NEW ks \in SUBSET DOMAIN f, NEW n
    PROVE  Heap!Times(f, n) = Heap!Times([k \in ks |-> f[k]], n)
                                + Heap!Times([k \in DOMAIN f \ ks |-> f[k]], n)
<1> DEFINE p == [k \in ks |-> f[k]]
           q == [k \in DOMAIN f \ ks |-> f[k]]
<1>1. Joins(f, p, q)
  BY DEF Joins
<1>2. DOMAIN p = ks /\ DOMAIN q = DOMAIN f \ ks
  OBVIOUS
<1>3. IsFiniteSet(ks) /\ IsFiniteSet(DOMAIN f \ ks)
  BY FS_Subset
<1>4. IsFiniteSet(DOMAIN p) /\ IsFiniteSet(DOMAIN q)
  BY <1>2, <1>3
<1> HIDE DEF p, q
<1>5. Heap!Times(f, n) = Heap!Times(p, n) + Heap!Times(q, n)
  BY <1>1, <1>4, TimesParts
<1> QED
  BY <1>5 DEF p, q

LEMMA TimesSingle ==
    ASSUME NEW f, NEW k, DOMAIN f = {k}, NEW n
    PROVE  Heap!Times(f, n) = One(f[k], n)
<1>1. Held(f, n) = IF f[k] = n THEN {k} ELSE {}
  BY DEF Held
<1> QED
  BY <1>1, TimesIs, FS_EmptySet, FS_Singleton DEF One

\* Another key.
LEMMA TimesWith ==
    ASSUME NEW f, IsFiniteSet(DOMAIN f), NEW k, k \notin DOMAIN f, NEW v, NEW n
    PROVE  Heap!Times([j \in DOMAIN f \cup {k} |-> IF j = k THEN v ELSE f[j]], n)
             = Heap!Times(f, n) + One(v, n)
<1> DEFINE q == [j \in {k} |-> v]
           g == [j \in DOMAIN f \cup {k} |-> IF j = k THEN v ELSE f[j]]
<1>1. Joins(g, f, q)
  BY DEF Joins
<1>2. DOMAIN q = {k} /\ q[k] = v
  OBVIOUS
<1>3. IsFiniteSet(DOMAIN q)
  BY <1>2, FS_Singleton
<1> HIDE DEF g, q
<1>4. Heap!Times(g, n) = Heap!Times(f, n) + Heap!Times(q, n)
  BY <1>1, <1>3, TimesParts
<1>5. Heap!Times(q, n) = One(v, n)
  BY <1>2, TimesSingle
<1> QED
  BY <1>4, <1>5 DEF g

\* One key less.
LEMMA TimesWithout ==
    ASSUME NEW f, IsFiniteSet(DOMAIN f), NEW k \in DOMAIN f, NEW n
    PROVE  Heap!Times(f, n) = Heap!Times([j \in DOMAIN f \ {k} |-> f[j]], n) + One(f[k], n)
<1> DEFINE p == [j \in {k} |-> f[j]]
           g == [j \in DOMAIN f \ {k} |-> f[j]]
<1>1. Heap!Times(f, n) = Heap!Times(p, n) + Heap!Times(g, n)
  BY TimesSplit
<1>2. DOMAIN p = {k} /\ p[k] = f[k] /\ DOMAIN g = DOMAIN f \ {k}
  OBVIOUS
<1>3. IsFiniteSet(DOMAIN g)
  BY <1>2, FS_Subset
<1> HIDE DEF g, p
<1>4. Heap!Times(p, n) = One(f[k], n)
  BY <1>2, TimesSingle
<1>5. Heap!Times(g, n) \in Nat /\ One(f[k], n) \in Nat
  BY <1>3, TimesIsNat DEF One
<1>6. Heap!Times(f, n) = Heap!Times(g, n) + One(f[k], n)
  BY <1>1, <1>4, <1>5
<1> QED
  BY <1>6 DEF g

LEMMA ObjectSetCounts ==
    ASSUME Heap!CountsExact, NEW o \in HeapCells, NEW k \in HeapKeys, NEW v \in HeapCells,
           NEW own \in BOOLEAN, Heap!json_object_set_new(o, k, v, own)
    PROVE  Heap!CountsExact'
<1> DEFINE old == heap[o].items
           other == [old EXCEPT ![k] = v]
           added == [j \in DOMAIN old \cup {k} |-> IF j = k THEN v ELSE old[j]]
<1>1. Heap!Pass(v, own) /\ Heap!Idle /\ Heap!Holds(o)
  BY DEF Heap!json_object_set_new, Heap!Pass
<1>2. CASE Heap!Refuse(v, own)
  BY <1>1, <1>2, RefuseCounts
<1>3. CASE ~ Heap!Refuse(v, own)
  <2>1. /\ Heap!json_is_object(o)
        /\ k \in DOMAIN old => Heap!Store(o, v, own, other, <<old[k]>>)
        /\ k \notin DOMAIN old => Heap!Store(o, v, own, added, <<>>)
    BY <1>3 DEF Heap!json_object_set_new
  <2>2. /\ heap[o] # Free /\ IsFiniteSet(DOMAIN old) /\ DOMAIN old \subseteq HeapKeys
        /\ old \in [DOMAIN old -> HeapCells]
        /\ \A m : In(heap, o, m) = Heap!Times(old, m)
        /\ \A items \in Members : Fits(heap[o].type, items)
    BY <1>1, <2>1, ObjectIs
  <2> HIDE DEF old
  <2>3. CASE k \in DOMAIN old
    <3>1. other \in Members /\ old[k] \in HeapCells
      <4>1. other \in [DOMAIN old -> HeapCells] /\ DOMAIN old \in SUBSET HeapKeys
        BY <2>2
      <4> QED
        BY <2>2, <2>3, <4>1 DEF Members
    <3>2. /\ DOMAIN other = DOMAIN old /\ other[k] = v
          /\ \A j \in DOMAIN old \ {k} : other[j] = old[j]
      BY <2>2, <2>3
    <3> HIDE DEF other
    <3>3. \A m : Heap!Times(other, m) + One(old[k], m) = Heap!Times(old, m) + One(v, m)
      BY <2>2, <2>3, <3>2, TimesExcept
    <3>4. Exchanges(o, v, other, <<old[k]>>)
      <4>1. \A m : Heap!Times(<<old[k]>>, m) = One(old[k], m)
        BY TimesOne
      <4>2. Fits(heap[o].type, other) /\ <<old[k]>> \in Seq(HeapCells)
        BY <2>2, <3>1
      <4>3. \A m : Heap!Times(other, m) + Heap!Times(<<old[k]>>, m)
                     = In(heap, o, m) + One(v, m)
        BY <2>2, <3>3, <4>1
      <4> QED
        BY <4>2, <4>3 DEF Exchanges
    <3>5. Heap!Store(o, v, own, other, <<old[k]>>)
      BY <2>1, <2>3
    <3> QED
      BY <1>1, <2>2, <3>4, <3>5, StoreCounts
  <2>4. CASE k \notin DOMAIN old
    <3>1. added \in Members
      <4>1. added \in [DOMAIN old \cup {k} -> HeapCells]
        BY <2>2
      <4>2. DOMAIN old \cup {k} \in SUBSET HeapKeys
        BY <2>2
      <4> QED
        BY <4>1, <4>2 DEF Members
    <3>2. \A m : Heap!Times(added, m) = Heap!Times(old, m) + One(v, m)
      BY <2>2, <2>4, TimesWith
    <3> HIDE DEF added
    <3>3. Exchanges(o, v, added, <<>>)
      <4>1. \A m : Heap!Times(<<>>, m) = 0
        BY TimesNone
      <4>2. \A m : Heap!Times(old, m) \in Nat
        BY <2>2, TimesIsNat
      <4>3. Fits(heap[o].type, added) /\ <<>> \in Seq(HeapCells)
        BY <2>2, <3>1
      <4>4. \A m : Heap!Times(added, m) + Heap!Times(<<>>, m) = In(heap, o, m) + One(v, m)
        BY <2>2, <3>2, <4>1, <4>2 DEF One
      <4> QED
        BY <4>3, <4>4 DEF Exchanges
    <3>4. Heap!Store(o, v, own, added, <<>>)
      BY <2>1, <2>4
    <3> QED
      BY <1>1, <2>2, <3>3, <3>4, StoreCounts
  <2> QED
    BY <2>3, <2>4
<1> QED
  BY <1>2, <1>3

LEMMA ObjectDelCounts ==
    ASSUME Heap!CountsExact, NEW o \in HeapCells, NEW k \in HeapKeys,
           Heap!json_object_del(o, k)
    PROVE  Heap!CountsExact'
<1> DEFINE old == heap[o].items
           items == [j \in DOMAIN old \ {k} |-> old[j]]
           none == [m \in HeapCells |-> 0]
<1>1. /\ Heap!Idle /\ Heap!Holds(o) /\ Heap!json_is_object(o) /\ k \in DOMAIN old
      /\ heap' = [heap EXCEPT ![o].items = [j \in DOMAIN @ \ {k} |-> @[j]]]
      /\ todo' = <<old[k]>> /\ held' = held /\ lost' = lost
  BY DEF Heap!json_object_del
<1>2. Refills(heap, o, items, <<old[k]>>)
  BY <1>1 DEF Refills
<1>3. /\ heap[o] # Free /\ IsFiniteSet(DOMAIN old) /\ DOMAIN old \subseteq HeapKeys
      /\ old \in [DOMAIN old -> HeapCells]
      /\ \A m : In(heap, o, m) = Heap!Times(old, m)
      /\ \A its \in Members : Fits(heap[o].type, its)
  BY <1>1, ObjectIs
<1> HIDE DEF old
<1>4. items \in Members /\ old[k] \in HeapCells
  <2>1. items \in [DOMAIN old \ {k} -> HeapCells] /\ DOMAIN old \ {k} \in SUBSET HeapKeys
    BY <1>3
  <2> QED
    BY <1>1, <1>3, <2>1 DEF Members
<1>5. \A m : Heap!Times(old, m) = Heap!Times(items, m) + One(old[k], m)
  BY <1>1, <1>3, TimesWithout
<1>6. DOMAIN items = DOMAIN old \ {k} /\ IsFiniteSet(DOMAIN items)
  BY <1>3, FS_Subset
<1> HIDE DEF items
<1>7. none \in [HeapCells -> Nat] /\ Raised(heap, none)
  BY <1>1, Idling, RaisedByNone
<1>8. Gives(o, none, items, <<old[k]>>)
  <2>1. \A m : Heap!Times(<<old[k]>>, m) = One(old[k], m)
    BY TimesOne
  <2>2. \A m : Heap!Times(items, m) \in Nat /\ One(old[k], m) \in Nat
    BY <1>6, TimesIsNat DEF One
  <2>3. Fits(heap[o].type, items) /\ <<old[k]>> \in Seq(HeapCells)
    BY <1>3, <1>4
  <2>4. \A m \in HeapCells : Heap!Times(items, m) + Heap!Times(<<old[k]>>, m)
                               = In(heap, o, m) + none[m]
    BY <1>3, <1>5, <2>1, <2>2
  <2> QED
    BY <1>7, <2>3, <2>4 DEF Gives
<1> HIDE DEF none
<1> QED
  BY <1>1, <1>2, <1>3, <1>7, <1>8, RefillCounts

LEMMA UpdateCounts ==
    ASSUME Heap!CountsExact, NEW o \in HeapCells, NEW b \in HeapCells,
           NEW which \in {"all", "existing", "missing"}, Heap!json_object_update(o, b, which)
    PROVE  Heap!CountsExact'
<1> DEFINE mine == heap[o].items
           yours == heap[b].items
           given(ks) == [k \in ks |-> yours[k]]
           c(ks) == Heap!CountAll(heap, given(ks))
           items(ks) == [k \in DOMAIN mine \cup ks |-> IF k \in ks THEN yours[k] ELSE mine[k]]
           replaced(ks) == [k \in ks \cap DOMAIN mine |-> mine[k]]
<1>1. /\ Heap!Idle /\ Heap!Holds(o) /\ Heap!Holds(b)
      /\ Heap!json_is_object(o) /\ Heap!json_is_object(b)
      /\ held' = held /\ lost' = lost
  BY DEF Heap!json_object_update
<1>2. PICK ks \in SUBSET DOMAIN yours :
         /\ heap' = [c(ks) EXCEPT ![o].items = items(ks)]
         /\ todo' = Heap!Listed(replaced(ks))
  <2>1. Heap!Updated(o, b, which) \subseteq DOMAIN yours
    BY DEF Heap!Updated
  <2> QED
    BY <2>1 DEF Heap!json_object_update
<1> DEFINE new == items(ks)
           gift == given(ks)
           gone == replaced(ks)
           kept == [k \in DOMAIN mine \ ks |-> mine[k]]
           cc == c(ks)
           more == [m \in HeapCells |-> Heap!Times(gift, m)]
<1>3. Refills(cc, o, new, Heap!Listed(gone))
  BY <1>1, <1>2 DEF Refills
<1>4. /\ heap[o] # Free /\ IsFiniteSet(DOMAIN mine) /\ DOMAIN mine \subseteq HeapKeys
      /\ mine \in [DOMAIN mine -> HeapCells]
      /\ \A m : In(heap, o, m) = Heap!Times(mine, m)
      /\ \A its \in Members : Fits(heap[o].type, its)
  BY <1>1, ObjectIs
<1>5. /\ heap[b] # Free /\ IsFiniteSet(DOMAIN yours) /\ DOMAIN yours \subseteq HeapKeys
      /\ yours \in [DOMAIN yours -> HeapCells]
  BY <1>1, ObjectIs
<1>6. \A m \in HeapCells : heap[m] = Free => Heap!Times(yours, m) = 0
  BY <1>5, HeldItems
<1> HIDE DEF mine, yours
<1>7. /\ IsFiniteSet(ks) /\ IsFiniteSet(DOMAIN yours \ ks)
      /\ IsFiniteSet(DOMAIN mine \ ks) /\ IsFiniteSet(ks \cap DOMAIN mine)
  BY <1>4, <1>5, FS_Subset
<1>8. /\ DOMAIN gift = ks /\ DOMAIN kept = DOMAIN mine \ ks
      /\ DOMAIN gone = ks \cap DOMAIN mine
  OBVIOUS
<1>9. \A m : Heap!Times(gift, m) \in Nat /\ Heap!Times(kept, m) \in Nat
             /\ Heap!Times(gone, m) \in Nat
  <2>1. IsFiniteSet(DOMAIN gift) /\ IsFiniteSet(DOMAIN kept) /\ IsFiniteSet(DOMAIN gone)
    BY <1>7, <1>8
  <2> HIDE DEF gift, kept, gone
  <2> QED
    BY <2>1, TimesIsNat
<1>10. \A m \in HeapCells : heap[m] = Free => Heap!Times(gift, m) = 0
  <2> DEFINE rest == [k \in DOMAIN yours \ ks |-> yours[k]]
  <2>1. \A m : Heap!Times(yours, m) = Heap!Times(gift, m) + Heap!Times(rest, m)
    BY <1>5, TimesSplit
  <2>2. DOMAIN rest = DOMAIN yours \ ks
    OBVIOUS
  <2> HIDE DEF rest
  <2>3. \A m : Heap!Times(rest, m) \in Nat
    BY <1>7, <2>2, TimesIsNat
  <2>4. ASSUME NEW m \in HeapCells, heap[m] = Free PROVE Heap!Times(gift, m) = 0
    <3> DEFINE x == Heap!Times(gift, m)
               y == Heap!Times(rest, m)
    <3>1. x \in Nat /\ y \in Nat /\ 0 = x + y
      BY <1>6, <1>9, <2>1, <2>3, <2>4
    <3> HIDE DEF x, y
    <3>2. x = 0
      BY <3>1
    <3> QED
      BY <3>2 DEF x
  <2> QED
    BY <2>4
<1>11. more \in [HeapCells -> Nat] /\ Raised(cc, more)
  <2>1. heap \in Heaps
    BY <1>1, Idling
  <2>2. cc = Heap!CountAll(heap, gift)
    OBVIOUS
  <2> HIDE DEF gift, cc
  <2> QED
    BY <1>9, <1>10, <2>1, <2>2, CountAllIs
<1>12. new \in Members
  <2>1. new \in [DOMAIN mine \cup ks -> HeapCells] /\ DOMAIN mine \cup ks \in SUBSET HeapKeys
    BY <1>4, <1>5
  <2> QED
    BY <2>1 DEF Members
<1>13. Joins(new, kept, gift) /\ Joins(mine, kept, gone)
  BY DEF Joins
<1>14. \A m : Heap!Times(new, m) = Heap!Times(kept, m) + Heap!Times(gift, m)
  <2> HIDE DEF new, kept, gift, gone
  <2>1. IsFiniteSet(DOMAIN kept) /\ IsFiniteSet(DOMAIN gift)
    BY <1>7, <1>8
  <2> QED
    BY <1>13, <2>1, TimesParts
<1>15. \A m : Heap!Times(mine, m) = Heap!Times(kept, m) + Heap!Times(gone, m)
  <2> HIDE DEF new, kept, gift, gone
  <2>1. IsFiniteSet(DOMAIN kept) /\ IsFiniteSet(DOMAIN gone)
    BY <1>7, <1>8
  <2> QED
    BY <1>13, <2>1, TimesParts
<1>16. /\ Heap!Listed(gone) \in Seq(HeapCells)
       /\ \A m : Heap!Times(Heap!Listed(gone), m) = Heap!Times(gone, m)
  <2> DEFINE K == ks \cap DOMAIN mine
  <2>1. gone \in [K -> HeapCells] /\ IsFiniteSet(K)
    BY <1>4, <1>7
  <2> HIDE DEF gone, K
  <2> QED
    BY <2>1, TimesListed
<1>17. \A m \in HeapCells : more[m] = Heap!Times(gift, m)
  OBVIOUS
<1> HIDE DEF new, gift, gone, kept, cc, more
<1>18. Gives(o, more, new, Heap!Listed(gone))
  <2>1. \A m \in HeapCells : Heap!Times(new, m) + Heap!Times(Heap!Listed(gone), m)
                               = In(heap, o, m) + more[m]
    BY <1>4, <1>9, <1>14, <1>15, <1>16, <1>17
  <2> QED
    BY <1>4, <1>11, <1>12, <1>16, <2>1 DEF Gives
<1> QED
  BY <1>1, <1>3, <1>4, <1>11, <1>18, RefillCounts

LEMMA CopyCounts ==
    ASSUME Heap!CountsExact, NEW b \in HeapCells, Heap!json_copy(b)
    PROVE  Heap!CountsExact'
<1> DEFINE items == heap[b].items
           type == heap[b].type
           c == Heap!CountAll(heap, items)
           more == [m \in HeapCells |-> Heap!Times(items, m)]
           g == heap'
<1>1. Heap!Idle /\ Heap!Holds(b) /\ lost' = lost /\ todo' = todo
  BY DEF Heap!json_copy
<1>2. PICK n \in HeapCells :
         /\ heap[n] = Free
         /\ g = [c EXCEPT ![n] = [type |-> type, refcount |-> 1, items |-> items]]
         /\ held' = [held EXCEPT ![n] = 1]
  BY DEF Heap!json_copy, Heap!Live
<1>3. /\ heap \in Heaps /\ held \in [HeapCells -> Nat] /\ lost \in [HeapCells -> Nat]
      /\ todo = <<>> /\ heap[b] # Free
  BY <1>1, Idling
<1>4. type \in Heap!Types /\ Fits(type, items)
  BY <1>3, LiveCell
<1>5. \A m \in HeapCells :
         Heap!Times(items, m) \in Nat /\ (heap[m] = Free => Heap!Times(items, m) = 0)
  BY <1>3, HeldItems
<1> HIDE DEF items, type, g
<1>6. more \in [HeapCells -> Nat] /\ Raised(c, more)
  BY <1>3, <1>5, CountAllIs
<1> HIDE DEF c
<1>7. g = Written(c, n, type, 1, items)
  BY <1>2 DEF Written
<1>8. Wrote(c, g, n, type, 1, items)
  <2>1. 1 \in Positive /\ c \in Heaps
    BY <1>6 DEF Positive, Raised
  <2>2. Wrote(c, Written(c, n, type, 1, items), n, type, 1, items)
    BY <1>4, <2>1, WriteCell
  <2> QED
    BY <1>7, <2>2
<1>9. held[n] = 0 /\ Count(heap, n) = 0 /\ more[n] = 0
  BY <1>2, <1>5, FreeIsNowhere
<1>10. held' \in [HeapCells -> Nat] /\ \A m \in HeapCells : held'[m] = held[m] + One(n, m)
  BY <1>2, <1>3, <1>9 DEF One
<1>11. Typed(heap', held', lost', todo')
  BY <1>1, <1>3, <1>8, <1>10 DEF Typed, Wrote, g
<1>12. \A m \in HeapCells \ {n} : Same(heap, heap', m)
  BY <1>6, <1>8 DEF Wrote, Same, Raised, g
<1>13. \A m \in HeapCells : Count(g, m) = Count(heap, m) + more[m] + One(n, m)
  <2>1. \A m \in HeapCells : Count(heap, m) \in Nat /\ more[m] \in Nat
    BY <1>3, <1>6, CountIsNat
  <2>2. Count(g, n) = 1 /\ \A m \in HeapCells \ {n} : Count(g, m) = Count(heap, m) + more[m]
    BY <1>6, <1>8 DEF Wrote, Raised
  <2> HIDE DEF more
  <2> QED
    BY <1>9, <2>1, <2>2 DEF One
<1>14. ASSUME NEW m \in HeapCells
       PROVE  held'[m] + lost'[m] + In(heap', n, m) + Heap!Times(todo', m) + Count(heap, m)
                = held[m] + lost[m] + In(heap, n, m) + Count(heap', m)
  <2>1. /\ held[m] \in Nat /\ lost[m] \in Nat /\ One(n, m) \in Nat /\ Count(heap, m) \in Nat
        /\ more[m] \in Nat
    BY <1>3, <1>6, CountIsNat DEF One
  <2>2. Heap!Times(todo', m) = 0 /\ In(heap, n, m) = 0
    BY <1>1, <1>2, Idling DEF In
  <2>3. In(heap', n, m) = more[m]
    BY <1>8 DEF Wrote, g
  <2>4. held'[m] = held[m] + One(n, m) /\ lost'[m] = lost[m]
    BY <1>1, <1>10
  <2>5. Count(heap', m) = Count(heap, m) + more[m] + One(n, m)
    BY <1>13 DEF g
  <2> HIDE DEF more
  <2> QED
    BY <2>1, <2>2, <2>3, <2>4, <2>5
<1> QED
  BY <1>1, <1>11, <1>12, <1>14, CallBalances

-----------------------------------------------------------------------------
LEMMA StutterCounts ==
    ASSUME Heap!CountsExact, UNCHANGED Heap!vars
    PROVE  Heap!CountsExact'
<1>1. heap' = heap /\ held' = held /\ lost' = lost /\ todo' = todo
  BY DEF Heap!vars
<1> QED
  BY <1>1, Before, After

\* Every count is the number of references that there are to the value: those of the
\* caller, of live containers, of the call that runs, and those that were lost.  No
\* order of the calls of value.c, with a failed one between any two, frees a value
\* that somebody has or drops one twice.
THEOREM ReferencesCounted == Heap!Spec => []Heap!CountsExact /\ []CountsExact
<1>1. Heap!Init => Heap!CountsExact
  <2> SUFFICES ASSUME Heap!Init PROVE Heap!CountsExact
    OBVIOUS
  <2>1. /\ heap = [n \in HeapCells |-> Free] /\ held = [n \in HeapCells |-> 0]
        /\ lost = [n \in HeapCells |-> 0] /\ todo = <<>>
    BY DEF Heap!Init
  <2>2. Typed(heap, held, lost, todo)
    BY <2>1 DEF Typed, Heaps
  <2>3. \A n : All(heap, n) = 0
    <3>1. \A n : UNION { {m} \X Rows(heap, m, n) : m \in HeapCells } = {}
      BY <2>1 DEF Rows
    <3> QED
      BY <3>1, FS_EmptySet DEF All
  <2>4. \A n : Heap!Times(todo, n) = 0
    BY <2>1, TimesNone
  <2>5. Balanced(heap, held, lost, todo)
    BY <2>1, <2>3, <2>4 DEF Balanced, Count
  <2> QED
    BY <2>2, <2>5, Before
<1>2. Heap!CountsExact /\ [Heap!Next]_Heap!vars => Heap!CountsExact'
  <2> SUFFICES ASSUME Heap!CountsExact, [Heap!Next]_Heap!vars PROVE Heap!CountsExact'
    OBVIOUS
  <2>1. CASE UNCHANGED Heap!vars
    BY <2>1, StutterCounts
  <2>2. CASE Heap!json_decref
    BY <2>2, DecrefCounts
  <2>3. CASE \E type \in Heap!Types : Heap!create(type)
    BY <2>3, CreateCounts
  <2>4. ASSUME NEW n \in HeapCells,
               \/ Heap!takeReference(n) \/ Heap!dropReference(n) \/ Heap!clear(n)
               \/ Heap!json_copy(n) \/ Heap!forgetReference(n) \/ Heap!deleteRoot(n)
        PROVE  Heap!CountsExact'
    BY <2>4, TakeCounts, DropCounts, ClearCounts, CopyCounts, ForgetCounts, DeleteRootCounts
  <2>5. ASSUME NEW n \in HeapCells,
               \/ \E i \in Heap!Positions : Heap!json_array_remove(n, i)
               \/ \E k \in HeapKeys : Heap!json_object_del(n, k)
        PROVE  Heap!CountsExact'
    BY <2>5, RemoveCounts, ObjectDelCounts
  <2>6. ASSUME NEW n \in HeapCells, NEW v \in HeapCells, NEW own \in BOOLEAN,
               Heap!ArrayCall(n, v, own) \/ Heap!ObjectCall(n, v, own)
        PROVE  Heap!CountsExact'
    BY <2>6, AppendCounts, InsertCounts, SetCounts, ObjectSetCounts
    DEF Heap!ArrayCall, Heap!ObjectCall
  <2>7. ASSUME NEW n \in HeapCells, NEW v \in HeapCells,
               \/ Heap!json_array_extend(n, v)
               \/ \E which \in {"all", "existing", "missing"} :
                     Heap!json_object_update(n, v, which)
        PROVE  Heap!CountsExact'
    BY <2>7, ExtendCounts, UpdateCounts
  <2>8. CASE Heap!Next
    BY <2>2, <2>3, <2>4, <2>5, <2>6, <2>7, <2>8 DEF Heap!Next
  <2> QED
    BY <2>1, <2>8
<1>3. Heap!CountsExact => CountsExact
  BY DEF CountsExact
<1> QED
  BY <1>1, <1>2, <1>3, PTL DEF Heap!Spec


(***************************************************************************)
(* ObjectsAreMaps for every set of threads, keys, values and seeds, every  *)
(* hash function and every number of buckets to begin with.  A table is    *)
(* Sound if each bucket is the part of the list from its first to its last *)
(* pair; serials put the pairs in one order, in which they are a map.      *)
(***************************************************************************)

Ends == TableKeys \cup {ListHead}
Pair == [key : TableKeys, hash : Nat, serial : Nat, value : TableValues]
Tables ==
    UNION { [hashsize : {m}, serial : Nat, list : Seq(Pair),
             first : [0 .. m - 1 -> Ends], last : [0 .. m - 1 -> Ends]] : m \in Positive }

Bucket(p, m) == p.hash % m

\* No two pairs of a list have one key.
KeysDiffer(l) == \A i, j \in 1 .. Len(l) : l[i].key = l[j].key => i = j

\* The pairs of bucket b among m are those from lo to hi.
Within(l, m, b, lo, hi) ==
    \A i \in 1 .. Len(l) : Bucket(l[i], m) = b <=> lo <= i /\ i <= hi

\* f and e are the first and the last pair of bucket b, or it is empty.
Empty(l, m, b, f, e) ==
    f = ListHead /\ e = ListHead /\ \A i \in 1 .. Len(l) : Bucket(l[i], m) # b
From(l, m, b, f, e, lo, hi) ==
    lo <= hi /\ f = l[lo].key /\ e = l[hi].key /\ Within(l, m, b, lo, hi)
Span(l, m, b, f, e) ==
    \/ Empty(l, m, b, f, e)
    \/ \E lo, hi \in 1 .. Len(l) : From(l, m, b, f, e, lo, hi)

Sound(h) ==
    /\ h \in Tables /\ KeysDiffer(h.list)
    /\ \A b \in 0 .. h.hashsize - 1 :
          Span(h.list, h.hashsize, b, h.first[b], h.last[b])

\* r is l with p before its j-th pair, or without its j-th.
Inserted(l, r, j, p) ==
    /\ r \in Seq(Pair) /\ Len(r) = Len(l) + 1
    /\ \A k \in 1 .. j - 1 : r[k] = l[k]
    /\ r[j] = p
    /\ \A k \in j .. Len(l) : r[k + 1] = l[k]
Removed(l, r, j) ==
    /\ r \in Seq(Pair) /\ Len(r) = Len(l) - 1
    /\ \A k \in 1 .. j - 1 : r[k] = l[k]
    /\ \A k \in j .. Len(r) : r[k] = l[k + 1]

LEMMA InsertsAt ==
    ASSUME NEW l \in Seq(Pair), NEW j \in 1 .. Len(l), NEW p \in Pair
    PROVE  Inserted(l, Table!InsertAt(l, j, p), j, p)
<1> DEFINE n == Len(l)
           a == SubSeq(l, 1, j - 1)
           c == SubSeq(l, j, n)
<1>1. n \in Nat /\ j \in Int /\ 1 <= j /\ j <= n /\ \A k \in 1 .. n : l[k] \in Pair
  BY LenProperties, ElementOfSeq
<1>2. a \in Seq(Pair) /\ Len(a) = j - 1 /\ \A k \in 1 .. j - 1 : a[k] = l[k]
  <2>1. \A k \in 1 .. j - 1 : l[k] \in Pair
    BY <1>1
  <2>2. /\ SubSeq(l, 1, j - 1) \in Seq(Pair)
        /\ Len(SubSeq(l, 1, j - 1)) = IF 1 <= j - 1 THEN j - 1 - 1 + 1 ELSE 0
        /\ \A k \in 1 .. j - 1 - 1 + 1 : SubSeq(l, 1, j - 1)[k] = l[1 + k - 1]
    BY <1>1, <2>1, SubSeqProperties
  <2> QED
    BY <1>1, <2>2
<1>3. c \in Seq(Pair) /\ Len(c) = n - j + 1 /\ \A k \in 1 .. n - j + 1 : c[k] = l[j + k - 1]
  <2>1. \A k \in j .. n : l[k] \in Pair
    BY <1>1
  <2>2. /\ SubSeq(l, j, n) \in Seq(Pair)
        /\ Len(SubSeq(l, j, n)) = IF j <= n THEN n - j + 1 ELSE 0
        /\ \A k \in 1 .. n - j + 1 : SubSeq(l, j, n)[k] = l[j + k - 1]
    BY <1>1, <2>1, SubSeqProperties
  <2> QED
    BY <1>1, <2>2
<1>4. Table!InsertAt(l, j, p) = a \o <<p>> \o c
  BY DEF Table!InsertAt
<1> DEFINE d == a \o <<p>>
<1> HIDE DEF a, c, n
<1>5. d \in Seq(Pair) /\ Len(d) = j /\ d[j] = p /\ \A k \in 1 .. j - 1 : d[k] = l[k]
  <2>1. /\ <<p>> \in Seq(Pair) /\ Len(<<p>>) = 1 /\ <<p>>[1] = p
    OBVIOUS
  <2>2. /\ a \o <<p>> \in Seq(Pair)
        /\ Len(a \o <<p>>) = Len(a) + Len(<<p>>)
        /\ \A k \in 1 .. Len(a) + Len(<<p>>) :
              (a \o <<p>>)[k] = IF k <= Len(a) THEN a[k] ELSE <<p>>[k - Len(a)]
    BY <1>2, <2>1, ConcatProperties
  <2>3. Len(d) = j /\ \A k \in 1 .. j - 1 : d[k] = l[k]
    BY <1>1, <1>2, <2>1, <2>2
  <2>4. d[j] = <<p>>[j - (j - 1)] /\ j - (j - 1) = 1
    BY <1>1, <1>2, <2>1, <2>2
  <2> QED
    BY <2>1, <2>2, <2>3, <2>4
<1> HIDE DEF d
<1>6. /\ d \o c \in Seq(Pair)
      /\ Len(d \o c) = Len(d) + Len(c)
      /\ \A k \in 1 .. Len(d) + Len(c) :
            (d \o c)[k] = IF k <= Len(d) THEN d[k] ELSE c[k - Len(d)]
  BY <1>3, <1>5, ConcatProperties
<1>7. ASSUME NEW k \in j .. n PROVE (d \o c)[k + 1] = l[k]
  <2> DEFINE q == k + 1
  <2>1. q \in 1 .. Len(d) + Len(c) /\ ~ (q <= Len(d))
        /\ q - Len(d) \in 1 .. n - j + 1 /\ j + (q - Len(d)) - 1 = k
    BY <1>1, <1>3, <1>5
  <2> HIDE DEF q
  <2>2. (d \o c)[q] = c[q - Len(d)]
    BY <1>6, <2>1
  <2>3. c[q - Len(d)] = l[k]
    BY <1>3, <2>1
  <2> QED
    BY <2>2, <2>3 DEF q
<1>8. /\ Len(d \o c) = n + 1 /\ (d \o c)[j] = p
      /\ \A k \in 1 .. j - 1 : (d \o c)[k] = l[k]
  BY <1>1, <1>3, <1>5, <1>6
<1> QED
  BY <1>4, <1>6, <1>7, <1>8 DEF Inserted, d, n

LEMMA Appends ==
    ASSUME NEW l \in Seq(Pair), NEW p \in Pair
    PROVE  Inserted(l, Append(l, p), Len(l) + 1, p)
<1>1. Len(l) \in Nat
  BY LenProperties
<1> QED
  BY <1>1, AppendProperties DEF Inserted

LEMMA RemovesAt ==
    ASSUME NEW l \in Seq(Pair), NEW j \in 1 .. Len(l)
    PROVE  Removed(l, Table!RemoveAt(l, j), j)
<1>1. Table!RemoveAt(l, j) = RemoveAt(l, j)
  BY DEF Table!RemoveAt, RemoveAt
<1>2. /\ RemoveAt(l, j) \in Seq(Pair)
      /\ Len(RemoveAt(l, j)) = Len(l) - 1
      /\ \A k \in 1 .. Len(l) - 1 : RemoveAt(l, j)[k] = IF k < j THEN l[k] ELSE l[k + 1]
  BY RemoveAtProperties
<1>3. Len(l) \in Nat
  BY LenProperties
<1> QED
  BY <1>1, <1>2, <1>3 DEF Removed

\* What is in the list afterwards.
LEMMA InsertedSet ==
    ASSUME NEW l \in Seq(Pair), NEW r, NEW j \in 1 .. Len(l) + 1, NEW p, Inserted(l, r, j, p)
    PROVE  ToSet(r) = ToSet(l) \cup {p}
<1>1. /\ Len(l) \in Nat /\ DOMAIN l = 1 .. Len(l) /\ DOMAIN r = 1 .. Len(l) + 1
  BY LenProperties DEF Inserted
<1>2. ASSUME NEW k \in 1 .. Len(l) PROVE l[k] \in ToSet(r)
  <2>1. CASE k < j
    BY <1>1, <2>1 DEF Inserted, ToSet
  <2>2. CASE ~ (k < j)
    <3>1. k + 1 \in DOMAIN r /\ r[k + 1] = l[k]
      BY <1>1, <2>2 DEF Inserted
    <3> QED
      BY <3>1 DEF ToSet
  <2> QED
    BY <2>1, <2>2
<1>3. p \in ToSet(r)
  BY <1>1 DEF Inserted, ToSet
<1>4. ASSUME NEW k \in 1 .. Len(l) + 1 PROVE r[k] = p \/ r[k] \in ToSet(l)
  <2>1. CASE k < j
    BY <1>1, <2>1 DEF Inserted, ToSet
  <2>2. CASE k > j
    <3>1. k - 1 \in DOMAIN l /\ k - 1 \in j .. Len(l) /\ (k - 1) + 1 = k
      BY <1>1, <2>2
    <3>2. r[(k - 1) + 1] = l[k - 1]
      BY <3>1 DEF Inserted
    <3> QED
      BY <3>1, <3>2 DEF ToSet
  <2> QED
    BY <2>1, <2>2 DEF Inserted
<1> QED
  BY <1>1, <1>2, <1>3, <1>4 DEF ToSet

LEMMA InsertedKeys ==
    ASSUME NEW l \in Seq(Pair), NEW r, NEW j \in 1 .. Len(l) + 1, NEW p, Inserted(l, r, j, p),
           KeysDiffer(l), \A k \in 1 .. Len(l) : l[k].key # p.key
    PROVE  KeysDiffer(r)
<1> DEFINE old(k) == IF k < j THEN k ELSE k - 1
<1>1. Len(l) \in Nat /\ Len(r) = Len(l) + 1 /\ r[j] = p
  BY LenProperties DEF Inserted
<1>2. ASSUME NEW k \in 1 .. Len(r), k # j PROVE old(k) \in 1 .. Len(l) /\ r[k] = l[old(k)]
  <2>1. CASE k < j
    BY <1>1, <2>1 DEF Inserted
  <2>2. CASE k > j
    <3>1. k - 1 \in j .. Len(l) /\ (k - 1) + 1 = k
      BY <1>1, <2>2
    <3>2. r[(k - 1) + 1] = l[k - 1]
      BY <3>1 DEF Inserted
    <3> QED
      BY <1>1, <2>2, <3>1, <3>2
  <2> QED
    BY <1>1, <1>2, <2>1, <2>2
<1>3. ASSUME NEW a \in 1 .. Len(r), NEW b \in 1 .. Len(r), a # j, b # j, r[a].key = r[b].key
      PROVE  a = b
  <2>1. old(a) = old(b)
    BY <1>2, <1>3 DEF KeysDiffer
  <2> QED
    BY <1>1, <1>3, <2>1
<1>4. ASSUME NEW a \in 1 .. Len(r), a # j PROVE r[a].key # r[j].key
  BY <1>1, <1>2, <1>4
<1> QED
  BY <1>3, <1>4 DEF KeysDiffer

LEMMA RemovedKeys ==
    ASSUME NEW l \in Seq(Pair), NEW r, NEW j \in 1 .. Len(l), Removed(l, r, j), KeysDiffer(l)
    PROVE  /\ KeysDiffer(r)
           /\ ToSet(r) = ToSet(l) \ {l[j]}
<1> DEFINE old(k) == IF k < j THEN k ELSE k + 1
<1>1. /\ Len(l) \in Nat /\ Len(r) = Len(l) - 1 /\ DOMAIN l = 1 .. Len(l)
      /\ DOMAIN r = 1 .. Len(l) - 1
  BY LenProperties DEF Removed
<1>2. ASSUME NEW k \in 1 .. Len(r)
      PROVE  old(k) \in 1 .. Len(l) /\ old(k) # j /\ r[k] = l[old(k)]
  <2>1. CASE k < j
    BY <1>1, <2>1 DEF Removed
  <2>2. CASE ~ (k < j)
    BY <1>1, <2>2 DEF Removed
  <2> QED
    BY <2>1, <2>2
<1>3. ASSUME NEW a \in 1 .. Len(r), NEW b \in 1 .. Len(r), r[a].key = r[b].key
      PROVE  a = b
  <2>1. old(a) = old(b)
    BY <1>2, <1>3 DEF KeysDiffer
  <2> QED
    BY <1>1, <2>1
<1>4. ASSUME NEW k \in 1 .. Len(l), k # j PROVE l[k] \in ToSet(r)
  <2>1. CASE k < j
    <3>1. k \in DOMAIN r /\ r[k] = l[k]
      BY <1>1, <2>1 DEF Removed
    <3> QED
      BY <3>1 DEF ToSet
  <2>2. CASE k > j
    <3>1. k - 1 \in DOMAIN r /\ k - 1 \in j .. Len(r) /\ (k - 1) + 1 = k
      BY <1>1, <2>2
    <3>2. r[k - 1] = l[(k - 1) + 1]
      BY <3>1 DEF Removed
    <3> QED
      BY <3>1, <3>2 DEF ToSet
  <2> QED
    BY <1>1, <1>4, <2>1, <2>2
<1>5. \A k \in 1 .. Len(r) : r[k] \in ToSet(l) /\ r[k] # l[j]
  <2> TAKE k \in 1 .. Len(r)
  <2>1. old(k) \in 1 .. Len(l) /\ old(k) # j /\ r[k] = l[old(k)]
    BY <1>2
  <2> HIDE DEF old
  <2> QED
    BY <1>1, <2>1 DEF ToSet, KeysDiffer
<1>6. ToSet(r) = ToSet(l) \ {l[j]}
  <2>1. ToSet(r) \subseteq ToSet(l) \ {l[j]}
    BY <1>1, <1>5 DEF ToSet
  <2>2. ASSUME NEW x \in ToSet(l), x # l[j] PROVE x \in ToSet(r)
    BY <1>1, <1>4, <2>2 DEF ToSet
  <2> QED
    BY <2>1, <2>2
<1> QED
  BY <1>3, <1>6 DEF KeysDiffer

\* A pair that comes into another bucket, or goes from one, leaves a bucket together.
LEMMA SpanShifts ==
    ASSUME NEW l \in Seq(Pair), NEW r, NEW j \in 1 .. Len(l) + 1, NEW p, Inserted(l, r, j, p),
           NEW m, NEW b, NEW f, NEW e, Span(l, m, b, f, e), Bucket(p, m) # b,
           j \in 1 .. Len(l) => Bucket(l[j], m) # b
    PROVE  Span(r, m, b, f, e)
<1>1. Len(l) \in Nat /\ Len(r) = Len(l) + 1 /\ r[j] = p
  BY LenProperties DEF Inserted
<1>2. \A k \in 1 .. Len(l) : (k < j => r[k] = l[k]) /\ (k >= j => r[k + 1] = l[k])
  BY <1>1 DEF Inserted
<1>3. \A k \in 1 .. Len(r) : (k < j => k \in 1 .. Len(l))
                             /\ (k > j => k - 1 \in 1 .. Len(l) /\ k - 1 >= j /\ (k - 1) + 1 = k)
  BY <1>1
<1>4. \A k \in 1 .. Len(r) : k > j => r[k] = l[k - 1]
  BY <1>2, <1>3
<1>5. CASE Empty(l, m, b, f, e)
  <2>1. ASSUME NEW k \in 1 .. Len(r) PROVE Bucket(r[k], m) # b
    <3>1. CASE k < j
      BY <1>2, <1>3, <1>5, <3>1 DEF Empty
    <3>2. CASE k > j
      BY <1>3, <1>4, <1>5, <3>2 DEF Empty
    <3> QED
      BY <1>1, <3>1, <3>2
  <2> QED
    BY <1>5, <2>1 DEF Span, Empty
<1>6. ASSUME NEW lo \in 1 .. Len(l), NEW hi \in 1 .. Len(l), From(l, m, b, f, e, lo, hi)
      PROVE  Span(r, m, b, f, e)
  <2>1. \A k \in 1 .. Len(l) : Bucket(l[k], m) = b <=> lo <= k /\ k <= hi
    BY <1>6 DEF From, Within
  <2>2. j <= lo \/ j > hi
    BY <1>1, <2>1
  <2>3. lo <= hi /\ f = l[lo].key /\ e = l[hi].key
    BY <1>6 DEF From
  <2>4. CASE j > hi
    <3>1. lo \in 1 .. Len(r) /\ hi \in 1 .. Len(r) /\ r[lo] = l[lo] /\ r[hi] = l[hi]
      BY <1>1, <1>2, <2>3, <2>4
    <3>2. ASSUME NEW k \in 1 .. Len(r) PROVE Bucket(r[k], m) = b <=> lo <= k /\ k <= hi
      <4>1. CASE k < j
        BY <1>2, <1>3, <2>1, <4>1
      <4>2. CASE k = j
        BY <1>1, <2>4, <4>2
      <4>3. CASE k > j
        <5>1. r[k] = l[k - 1] /\ k - 1 \in 1 .. Len(l) /\ ~ (k - 1 <= hi) /\ ~ (k <= hi)
          BY <1>3, <1>4, <2>4, <4>3
        <5> QED
          BY <2>1, <5>1
      <4> QED
        BY <1>1, <4>1, <4>2, <4>3
    <3> QED
      BY <2>3, <3>1, <3>2 DEF Span, From, Within
  <2>5. CASE j <= lo
    <3> DEFINE x == lo + 1
               y == hi + 1
    <3>1. x \in 1 .. Len(r) /\ y \in 1 .. Len(r) /\ x <= y /\ r[x] = l[lo] /\ r[y] = l[hi]
          /\ x = lo + 1 /\ y = hi + 1
      BY <1>1, <1>2, <2>3, <2>5
    <3> HIDE DEF x, y
    <3>2. ASSUME NEW k \in 1 .. Len(r) PROVE Bucket(r[k], m) = b <=> x <= k /\ k <= y
      <4>1. CASE k < j
        <5>1. r[k] = l[k] /\ k \in 1 .. Len(l) /\ ~ (lo <= k) /\ ~ (x <= k)
          BY <1>2, <1>3, <2>5, <3>1, <4>1
        <5> QED
          BY <2>1, <5>1
      <4>2. CASE k = j
        BY <1>1, <2>5, <3>1, <4>2
      <4>3. CASE k > j
        <5>1. r[k] = l[k - 1] /\ k - 1 \in 1 .. Len(l)
              /\ (lo <= k - 1 <=> x <= k) /\ (k - 1 <= hi <=> k <= y)
          BY <1>3, <1>4, <3>1, <4>3
        <5> QED
          BY <2>1, <5>1
      <4> QED
        BY <1>1, <4>1, <4>2, <4>3
    <3> QED
      BY <2>3, <3>1, <3>2 DEF Span, From, Within
  <2> QED
    BY <1>1, <2>2, <2>4, <2>5
<1> QED
  BY <1>5, <1>6 DEF Span

LEMMA SpanCloses ==
    ASSUME NEW l \in Seq(Pair), NEW r, NEW j \in 1 .. Len(l), Removed(l, r, j),
           NEW m, NEW b, NEW f, NEW e, Span(l, m, b, f, e), Bucket(l[j], m) # b
    PROVE  Span(r, m, b, f, e)
<1>1. Len(l) \in Nat /\ Len(r) = Len(l) - 1
  BY LenProperties DEF Removed
<1>2. \A k \in 1 .. Len(r) : /\ k \in 1 .. Len(l) /\ k + 1 \in 1 .. Len(l)
                             /\ k < j => r[k] = l[k]
                             /\ k >= j => r[k] = l[k + 1]
  BY <1>1 DEF Removed
<1>3. CASE Empty(l, m, b, f, e)
  <2>1. ASSUME NEW k \in 1 .. Len(r) PROVE Bucket(r[k], m) # b
    <3>1. CASE k < j
      BY <1>2, <1>3, <3>1 DEF Empty
    <3>2. CASE k >= j
      BY <1>2, <1>3, <3>2 DEF Empty
    <3> QED
      BY <1>1, <3>1, <3>2
  <2> QED
    BY <1>3, <2>1 DEF Span, Empty
<1>4. ASSUME NEW lo \in 1 .. Len(l), NEW hi \in 1 .. Len(l), From(l, m, b, f, e, lo, hi)
      PROVE  Span(r, m, b, f, e)
  <2>1. \A k \in 1 .. Len(l) : Bucket(l[k], m) = b <=> lo <= k /\ k <= hi
    BY <1>4 DEF From, Within
  <2>2. j < lo \/ j > hi
    BY <1>1, <2>1
  <2>3. lo <= hi /\ f = l[lo].key /\ e = l[hi].key
    BY <1>4 DEF From
  <2>4. CASE j > hi
    <3>1. lo \in 1 .. Len(r) /\ hi \in 1 .. Len(r)
      BY <1>1, <2>3, <2>4
    <3>2. r[lo] = l[lo] /\ r[hi] = l[hi]
      BY <1>2, <2>3, <2>4, <3>1
    <3>3. ASSUME NEW k \in 1 .. Len(r) PROVE Bucket(r[k], m) = b <=> lo <= k /\ k <= hi
      <4>1. CASE k < j
        BY <1>2, <2>1, <4>1
      <4>2. CASE k >= j
        <5>1. r[k] = l[k + 1] /\ k + 1 \in 1 .. Len(l) /\ ~ (k + 1 <= hi) /\ ~ (k <= hi)
          BY <1>2, <2>4, <4>2
        <5> QED
          BY <2>1, <5>1
      <4> QED
        BY <1>1, <4>1, <4>2
    <3> QED
      BY <2>3, <3>1, <3>2, <3>3 DEF Span, From, Within
  <2>5. CASE j < lo
    <3> DEFINE x == lo - 1
               y == hi - 1
    <3>1. x \in 1 .. Len(r) /\ y \in 1 .. Len(r) /\ x <= y /\ x >= j /\ y >= j
          /\ x + 1 = lo /\ y + 1 = hi
      BY <1>1, <2>3, <2>5
    <3> HIDE DEF x, y
    <3>2. r[x] = l[lo] /\ r[y] = l[hi]
      BY <1>2, <3>1
    <3>3. ASSUME NEW k \in 1 .. Len(r) PROVE Bucket(r[k], m) = b <=> x <= k /\ k <= y
      <4>1. CASE k < j
        <5>1. r[k] = l[k] /\ k \in 1 .. Len(l) /\ ~ (lo <= k) /\ ~ (x <= k)
          BY <1>2, <2>5, <3>1, <4>1
        <5> QED
          BY <2>1, <5>1
      <4>2. CASE k >= j
        <5>1. r[k] = l[k + 1] /\ k + 1 \in 1 .. Len(l)
              /\ (lo <= k + 1 <=> x <= k) /\ (k + 1 <= hi <=> k <= y)
          BY <1>2, <3>1, <4>2
        <5> QED
          BY <2>1, <5>1
      <4> QED
        BY <1>1, <4>1, <4>2
    <3> QED
      BY <2>3, <3>1, <3>2, <3>3 DEF Span, From, Within
  <2> QED
    BY <1>1, <2>2, <2>4, <2>5
<1> QED
  BY <1>3, <1>4 DEF Span

\* A pair alone in its bucket at the end of the list, or before the first of others.
LEMMA SpanStarts ==
    ASSUME NEW l \in Seq(Pair), NEW r, NEW p, Inserted(l, r, Len(l) + 1, p), NEW m, NEW b,
           Bucket(p, m) = b, \A k \in 1 .. Len(l) : Bucket(l[k], m) # b
    PROVE  Span(r, m, b, p.key, p.key)
<1> DEFINE n == Len(l) + 1
<1>1. n \in 1 .. Len(r) /\ Len(r) = n /\ r[n] = p /\ Len(l) \in Nat
      /\ \A k \in 1 .. Len(r) : k # n => k \in 1 .. Len(l) /\ r[k] = l[k]
  BY LenProperties DEF Inserted
<1> HIDE DEF n
<1>2. ASSUME NEW k \in 1 .. Len(r) PROVE Bucket(r[k], m) = b <=> n <= k /\ k <= n
  <2>1. CASE k = n
    BY <1>1, <2>1
  <2>2. CASE k # n
    <3>1. ~ (n <= k /\ k <= n)
      BY <1>1, <2>2
    <3> QED
      BY <1>1, <2>2, <3>1
  <2> QED
    BY <2>1, <2>2
<1>3. From(r, m, b, p.key, p.key, n, n)
  BY <1>1, <1>2 DEF From, Within
<1> QED
  BY <1>1, <1>3 DEF Span

LEMMA SpanGrows ==
    ASSUME NEW l \in Seq(Pair), NEW r, NEW j \in 1 .. Len(l), NEW p, Inserted(l, r, j, p),
           NEW m, NEW b, NEW f, NEW e, NEW hi \in 1 .. Len(l),
           From(l, m, b, f, e, j, hi), Bucket(p, m) = b
    PROVE  Span(r, m, b, p.key, e)
<1> DEFINE y == hi + 1
<1>1. /\ Len(l) \in Nat /\ Len(r) = Len(l) + 1 /\ r[j] = p
      /\ \A k \in 1 .. Len(l) : k < j => r[k] = l[k]
      /\ \A k \in 1 .. Len(r) : k > j => r[k] = l[k - 1] /\ k - 1 \in 1 .. Len(l)
  <2>1. /\ Len(l) \in Nat /\ Len(r) = Len(l) + 1 /\ r[j] = p
        /\ \A k \in 1 .. Len(l) : k < j => r[k] = l[k]
        /\ \A k \in j .. Len(l) : r[k + 1] = l[k]
    BY LenProperties DEF Inserted
  <2>2. ASSUME NEW k \in 1 .. Len(r), k > j PROVE r[k] = l[k - 1] /\ k - 1 \in 1 .. Len(l)
    <3>1. k - 1 \in j .. Len(l) /\ (k - 1) + 1 = k /\ k - 1 \in 1 .. Len(l)
      BY <2>1, <2>2
    <3> QED
      BY <2>1, <3>1
  <2> QED
    BY <2>1, <2>2
<1>2. /\ j <= hi /\ e = l[hi].key
      /\ \A k \in 1 .. Len(l) : Bucket(l[k], m) = b <=> j <= k /\ k <= hi
  BY DEF From, Within
<1>3. y \in 1 .. Len(r) /\ j \in 1 .. Len(r) /\ j <= y /\ y - 1 = hi /\ y > j
  BY <1>1, <1>2
<1> HIDE DEF y
<1>4. r[y] = l[hi]
  BY <1>1, <1>3
<1>5. ASSUME NEW k \in 1 .. Len(r) PROVE Bucket(r[k], m) = b <=> j <= k /\ k <= y
  <2>1. CASE k < j
    <3>1. k \in 1 .. Len(l) /\ r[k] = l[k] /\ ~ (j <= k)
      BY <1>1, <2>1
    <3> QED
      BY <1>2, <3>1
  <2>2. CASE k = j
    BY <1>1, <1>3, <2>2
  <2>3. CASE k > j
    <3>1. r[k] = l[k - 1] /\ k - 1 \in 1 .. Len(l) /\ j <= k - 1 /\ j <= k
          /\ (k - 1 <= hi <=> k <= y)
      BY <1>1, <1>3, <2>3
    <3> QED
      BY <1>2, <3>1
  <2> QED
    BY <2>1, <2>2, <2>3
<1>6. From(r, m, b, p.key, e, j, y)
  BY <1>1, <1>2, <1>3, <1>4, <1>5 DEF From, Within
<1> QED
  BY <1>3, <1>6 DEF Span

\* The bucket of a pair that goes.
Lost(l, r, j, m, b, f, e, lo, hi) ==
    /\ lo = j /\ hi = j => Span(r, m, b, ListHead, ListHead)
    /\ lo = j /\ hi # j => j < Len(l) /\ Span(r, m, b, l[j + 1].key, e)
    /\ lo # j /\ hi = j => j > 1 /\ Span(r, m, b, f, l[j - 1].key)
    /\ lo # j /\ hi # j => Span(r, m, b, f, e)

LEMMA SpanLoses ==
    ASSUME NEW l \in Seq(Pair), NEW r, NEW j \in 1 .. Len(l), Removed(l, r, j),
           NEW m, NEW b, NEW f, NEW e, NEW lo \in 1 .. Len(l), NEW hi \in 1 .. Len(l),
           From(l, m, b, f, e, lo, hi), lo <= j, j <= hi
    PROVE  Lost(l, r, j, m, b, f, e, lo, hi)
<1>1. Len(l) \in Nat /\ Len(r) = Len(l) - 1
  BY LenProperties DEF Removed
<1>2. \A k \in 1 .. Len(r) : /\ k \in 1 .. Len(l) /\ k + 1 \in 1 .. Len(l)
                             /\ k < j => r[k] = l[k]
                             /\ k >= j => r[k] = l[k + 1]
  BY <1>1 DEF Removed
<1>3. /\ lo <= hi /\ f = l[lo].key /\ e = l[hi].key
      /\ \A k \in 1 .. Len(l) : Bucket(l[k], m) = b <=> lo <= k /\ k <= hi
  BY DEF From, Within
<1>4. ASSUME NEW k \in 1 .. Len(r)
      PROVE  Bucket(r[k], m) = b <=> lo <= k /\ k <= hi - 1
  <2>1. CASE k < j
    <3>1. r[k] = l[k] /\ k \in 1 .. Len(l) /\ k <= hi - 1 /\ k <= hi
      BY <1>2, <2>1
    <3> QED
      BY <1>3, <3>1
  <2>2. CASE k >= j
    <3>1. r[k] = l[k + 1] /\ k + 1 \in 1 .. Len(l) /\ lo <= k /\ lo <= k + 1
          /\ (k + 1 <= hi <=> k <= hi - 1)
      BY <1>2, <2>2
    <3> QED
      BY <1>3, <3>1
  <2> QED
    BY <1>1, <2>1, <2>2
<1>5. CASE lo = j /\ hi = j
  <2>1. \A k \in 1 .. Len(r) : Bucket(r[k], m) # b
    BY <1>1, <1>4, <1>5
  <2> QED
    BY <1>5, <2>1 DEF Lost, Span, Empty
<1>6. ASSUME ~ (lo = j /\ hi = j), NEW f2, NEW e2,
             f2 = IF lo = j THEN l[j + 1].key ELSE f,
             e2 = IF hi = j THEN l[j - 1].key ELSE e
      PROVE  Span(r, m, b, f2, e2)
  <2> DEFINE y == hi - 1
  <2>1. lo \in 1 .. Len(r) /\ y \in 1 .. Len(r) /\ lo <= y /\ y = hi - 1
    BY <1>1, <1>3, <1>6
  <2> HIDE DEF y
  <2>2. f2 = r[lo].key
    <3>1. CASE lo = j
      BY <1>2, <1>6, <2>1, <3>1
    <3>2. CASE lo # j
      <4>1. lo < j
        BY <1>1, <3>2
      <4> QED
        BY <1>2, <1>3, <1>6, <2>1, <3>2, <4>1
    <3> QED
      BY <3>1, <3>2
  <2>3. e2 = r[y].key
    <3>1. CASE hi = j
      <4>1. y = j - 1 /\ y < j
        BY <2>1, <3>1
      <4>2. r[y] = l[y]
        BY <1>2, <2>1, <4>1
      <4> QED
        BY <1>6, <3>1, <4>1, <4>2
    <3>2. CASE hi # j
      <4>1. y >= j /\ y + 1 = hi
        BY <1>1, <2>1, <3>2
      <4> QED
        BY <1>2, <1>3, <1>6, <2>1, <3>2, <4>1
    <3> QED
      BY <3>1, <3>2
  <2>4. From(r, m, b, f2, e2, lo, y)
    BY <1>4, <2>1, <2>2, <2>3 DEF From, Within
  <2> QED
    BY <2>1, <2>4 DEF Span
<1>7. /\ lo = j /\ hi # j => j < Len(l)
      /\ lo # j /\ hi = j => j > 1
  BY <1>1
<1> QED
  BY <1>5, <1>6, <1>7 DEF Lost

-----------------------------------------------------------------------------
(* The operations on one table.                                            *)

LEMMA TableFields ==
    ASSUME NEW h \in Tables
    PROVE  /\ h.hashsize \in Positive /\ h.serial \in Nat /\ h.list \in Seq(Pair)
           /\ h.first \in [0 .. h.hashsize - 1 -> Ends]
           /\ h.last \in [0 .. h.hashsize - 1 -> Ends]
           /\ Len(h.list) \in Nat /\ DOMAIN h.list = 1 .. Len(h.list)
           /\ \A i \in 1 .. Len(h.list) : h.list[i] \in Pair
<1>1. /\ h.hashsize \in Positive /\ h.serial \in Nat /\ h.list \in Seq(Pair)
      /\ h.first \in [0 .. h.hashsize - 1 -> Ends]
      /\ h.last \in [0 .. h.hashsize - 1 -> Ends]
  BY DEF Tables
<1> QED
  BY <1>1, LenProperties, ElementOfSeq

\* A table with a list and ends of buckets written.
Rewritten(h, l, f, e) == [h EXCEPT !.list = l, !.first = f, !.last = e]

LEMMA WriteTable ==
    ASSUME NEW h \in Tables, NEW l \in Seq(Pair),
           NEW f \in [0 .. h.hashsize - 1 -> Ends], NEW e \in [0 .. h.hashsize - 1 -> Ends],
           NEW r, r = Rewritten(h, l, f, e)
    PROVE  /\ r \in Tables /\ r.hashsize = h.hashsize /\ r.serial = h.serial
           /\ r.list = l /\ r.first = f /\ r.last = e
<1>1. PICK m \in Positive :
         h \in [hashsize : {m}, serial : Nat, list : Seq(Pair),
                first : [0 .. m - 1 -> Ends], last : [0 .. m - 1 -> Ends]]
  BY DEF Tables
<1>2. h.hashsize = m
  BY <1>1
<1>3. /\ r \in [hashsize : {m}, serial : Nat, list : Seq(Pair),
                first : [0 .. m - 1 -> Ends], last : [0 .. m - 1 -> Ends]]
      /\ r.hashsize = h.hashsize /\ r.serial = h.serial
      /\ r.list = l /\ r.first = f /\ r.last = e
  BY <1>1, <1>2 DEF Rewritten
<1> QED
  BY <1>3 DEF Tables

Counted(h) == [h EXCEPT !.serial = @ + 1]

LEMMA CountSerial ==
    ASSUME NEW h \in Tables, NEW r, r = Counted(h)
    PROVE  /\ r \in Tables /\ r.hashsize = h.hashsize /\ r.serial = h.serial + 1
           /\ r.list = h.list /\ r.first = h.first /\ r.last = h.last
<1>1. PICK m \in Positive :
         h \in [hashsize : {m}, serial : Nat, list : Seq(Pair),
                first : [0 .. m - 1 -> Ends], last : [0 .. m - 1 -> Ends]]
  BY DEF Tables
<1>2. r \in [hashsize : {m}, serial : Nat, list : Seq(Pair),
             first : [0 .. m - 1 -> Ends], last : [0 .. m - 1 -> Ends]]
      /\ r.hashsize = h.hashsize /\ r.serial = h.serial + 1
      /\ r.list = h.list /\ r.first = h.first /\ r.last = h.last
  BY <1>1 DEF Counted
<1> QED
  BY <1>2 DEF Tables

LEMMA KeyIsPair ==
    ASSUME NEW p \in Pair
    PROVE  p.key \in TableKeys /\ p.key # ListHead /\ p.key \in Ends
BY ValuesAssumption DEF Table!TableAssumption, Pair, Ends

LEMMA BucketIn ==
    ASSUME NEW x \in Nat, NEW m \in Positive
    PROVE  x % m \in 0 .. m - 1
BY DEF Positive

LEMMA PlaceIs ==
    ASSUME NEW h, KeysDiffer(h.list), NEW i \in 1 .. Len(h.list)
    PROVE  Table!Place(h, h.list[i].key) = i
BY DEF Table!Place, KeysDiffer

\* What an insertion leaves: the table is sound and has one pair more.
Grew(h, r, p) ==
    /\ Sound(r) /\ r.hashsize = h.hashsize /\ r.serial = h.serial
    /\ Len(r.list) = Len(h.list) + 1 /\ ToSet(r.list) = ToSet(h.list) \cup {p}

LEMMA InsertKeepsSound ==
    ASSUME NEW h, Sound(h), NEW p \in Pair, \A i \in 1 .. Len(h.list) : h.list[i].key # p.key
    PROVE  Grew(h, Table!insert_to_bucket(h, p), p)
<1> DEFINE m == h.hashsize
           l == h.list
           b == p.hash % m
           n == Len(l)
<1>1. /\ h \in Tables /\ KeysDiffer(l)
      /\ \A c \in 0 .. m - 1 : Span(l, m, c, h.first[c], h.last[c])
  BY DEF Sound
<1>2. /\ m \in Positive /\ l \in Seq(Pair) /\ n \in Nat
      /\ h.first \in [0 .. m - 1 -> Ends] /\ h.last \in [0 .. m - 1 -> Ends]
  BY <1>1, TableFields
<1>3. b \in 0 .. m - 1 /\ b = Bucket(p, m) /\ p.key \in Ends
  BY <1>2, BucketIn, KeyIsPair DEF Pair, Bucket
<1>4. \A i \in 1 .. n : l[i].key # ListHead /\ l[i] \in Pair
  BY <1>1, TableFields, KeyIsPair
<1> DEFINE f2 == [h.first EXCEPT ![b] = p.key]
           e2 == [h.last EXCEPT ![b] = p.key]
<1>5. /\ f2 \in [0 .. m - 1 -> Ends] /\ e2 \in [0 .. m - 1 -> Ends]
      /\ f2[b] = p.key /\ e2[b] = p.key
      /\ \A c \in 0 .. m - 1 : c # b => f2[c] = h.first[c] /\ e2[c] = h.last[c]
  BY <1>2, <1>3
<1>6. ASSUME NEW j \in 1 .. n + 1, NEW k, Inserted(l, k, j, p),
             NEW e \in [0 .. m - 1 -> Ends],
             \A c \in 0 .. m - 1 : c # b => e[c] = h.last[c],
             j \in 1 .. n => Bucket(l[j], m) = b,
             Span(k, m, b, p.key, e[b]),
             NEW r, r = Rewritten(h, k, f2, e)
      PROVE  Grew(h, r, p)
  <2>1. k \in Seq(Pair) /\ Len(k) = n + 1
    BY <1>6 DEF Inserted
  <2> HIDE DEF f2
  <2>2. /\ r \in Tables /\ r.hashsize = m /\ r.serial = h.serial
        /\ r.list = k /\ r.first = f2 /\ r.last = e
    <3>1. /\ h \in Tables /\ k \in Seq(Pair) /\ f2 \in [0 .. h.hashsize - 1 -> Ends]
          /\ e \in [0 .. h.hashsize - 1 -> Ends]
          /\ r = Rewritten(h, k, f2, e)
      BY <1>1, <1>5, <1>6, <2>1
    <3> QED
      BY <3>1, WriteTable
  <2>3. KeysDiffer(k) /\ ToSet(k) = ToSet(l) \cup {p}
    BY <1>1, <1>2, <1>6, InsertedKeys, InsertedSet
  <2>4. ASSUME NEW c \in 0 .. m - 1 PROVE Span(k, m, c, f2[c], e[c])
    <3>1. CASE c = b
      BY <1>5, <1>6, <3>1
    <3>2. CASE c # b
      <4>1. /\ f2[c] = h.first[c] /\ e[c] = h.last[c] /\ Bucket(p, m) # c
            /\ j \in 1 .. n => Bucket(l[j], m) # c
        BY <1>3, <1>5, <1>6, <3>2
      <4>2. Span(l, m, c, h.first[c], h.last[c])
        BY <1>1
      <4>3. Span(k, m, c, h.first[c], h.last[c])
        BY <1>2, <1>6, <4>1, <4>2, SpanShifts
      <4> QED
        BY <4>1, <4>3
    <3> QED
      BY <3>1, <3>2
  <2> QED
    BY <2>1, <2>2, <2>3, <2>4 DEF Grew, Sound
<1>7. CASE Empty(l, m, b, h.first[b], h.last[b])
  <2>1. Table!bucket_is_empty(h, b)
    BY <1>7 DEF Empty, Table!bucket_is_empty
  <2> DEFINE r == Rewritten(h, Append(l, p), f2, e2)
  <2>2. Table!insert_to_bucket(h, p) = r
    BY <1>2, <2>1 DEF Table!insert_to_bucket, Table!bucket_is_empty, Rewritten
  <2>3. Inserted(l, Append(l, p), n + 1, p)
    BY <1>2, Appends
  <2>4. Span(Append(l, p), m, b, p.key, p.key)
    BY <1>2, <1>3, <1>7, <2>3, SpanStarts DEF Empty
  <2>5. n + 1 \in 1 .. n + 1 /\ n + 1 \notin 1 .. n
    BY <1>2
  <2> HIDE DEF f2, e2, b
  <2>6. Grew(h, r, p)
    BY <1>5, <1>6, <2>3, <2>4, <2>5
  <2> QED
    BY <2>2, <2>6
<1>8. ASSUME NEW lo \in 1 .. n, NEW hi \in 1 .. n,
             From(l, m, b, h.first[b], h.last[b], lo, hi)
      PROVE  Grew(h, Table!insert_to_bucket(h, p), p)
  <2>1. h.first[b] = l[lo].key /\ lo <= hi /\ Within(l, m, b, lo, hi)
    BY <1>8 DEF From
  <2>2. ~ Table!bucket_is_empty(h, b) /\ Table!Place(h, h.first[b]) = lo
    BY <1>1, <1>4, <2>1, PlaceIs DEF Table!bucket_is_empty
  <2> DEFINE k == Table!InsertAt(l, lo, p)
             r == Rewritten(h, k, f2, h.last)
  <2>3. Table!insert_to_bucket(h, p) = r
    <3>1. Table!insert_to_bucket(h, p) = [h EXCEPT !.list = k, !.first[b] = p.key]
      BY <2>2 DEF Table!insert_to_bucket
    <3>2. [h EXCEPT !.list = k, !.first[b] = p.key] = r
      BY <1>1 DEF Tables, Rewritten
    <3> QED
      BY <3>1, <3>2
  <2>4. Inserted(l, k, lo, p)
    BY <1>2, InsertsAt
  <2>5. Bucket(l[lo], m) = b /\ lo \in 1 .. n + 1
    BY <1>2, <2>1 DEF Within
  <2>6. Span(k, m, b, p.key, h.last[b])
    <3> HIDE DEF k
    <3> QED
      BY <1>2, <1>3, <1>8, <2>4, SpanGrows
  <2> HIDE DEF k, f2, e2, b
  <2>7. Grew(h, r, p)
    BY <1>2, <1>6, <2>4, <2>5, <2>6
  <2> QED
    BY <2>3, <2>7
<1> QED
  BY <1>1, <1>3, <1>7, <1>8 DEF Span

\* The search in its bucket finds a key that is in the table at all, if the hash is
\* the one its pair was put in with.
LEMMA FindsPair ==
    ASSUME NEW h, Sound(h), NEW k, NEW v \in Nat,
           \A i \in 1 .. Len(h.list) : h.list[i].key = k => h.list[i].hash = v,
           NEW x, x = Table!hashtable_find_pair(h, k, v)
    PROVE  /\ x \in 0 .. Len(h.list)
           /\ x > 0 => h.list[x].key = k
           /\ x = 0 => \A i \in 1 .. Len(h.list) : h.list[i].key # k
<1> DEFINE m == h.hashsize
           l == h.list
           b == v % m
           n == Len(l)
           Found == {i \in Table!Place(h, h.first[b]) .. Table!Place(h, h.last[b]) :
                       l[i].hash = v /\ l[i].key = k}
<1>1. /\ h \in Tables /\ KeysDiffer(l)
      /\ \A c \in 0 .. m - 1 : Span(l, m, c, h.first[c], h.last[c])
  BY DEF Sound
<1>2. m \in Positive /\ n \in Nat
  BY <1>1, TableFields
<1>3. b \in 0 .. m - 1
  BY <1>2, BucketIn
<1>4. \A i \in 1 .. n : l[i].key # ListHead /\ (l[i].key = k => Bucket(l[i], m) = b)
  <2>1. \A i \in 1 .. n : l[i] \in Pair
    BY <1>1, TableFields
  <2> QED
    BY <2>1, KeyIsPair DEF Bucket
<1>5. x = IF Table!bucket_is_empty(h, b) \/ Found = {} THEN 0 ELSE Table!Min(Found)
  BY DEF Table!hashtable_find_pair
<1>6. CASE Empty(l, m, b, h.first[b], h.last[b])
  <2>1. Table!bucket_is_empty(h, b)
    BY <1>6 DEF Empty, Table!bucket_is_empty
  <2>2. x = 0 /\ \A i \in 1 .. n : l[i].key # k
    BY <1>4, <1>5, <1>6, <2>1 DEF Empty
  <2> QED
    BY <1>2, <2>2
<1>7. ASSUME NEW lo \in 1 .. n, NEW hi \in 1 .. n,
             From(l, m, b, h.first[b], h.last[b], lo, hi)
      PROVE  /\ x \in 0 .. n
             /\ x > 0 => l[x].key = k
             /\ x = 0 => \A i \in 1 .. n : l[i].key # k
  <2>1. /\ h.first[b] = l[lo].key /\ h.last[b] = l[hi].key
        /\ \A i \in 1 .. n : Bucket(l[i], m) = b <=> lo <= i /\ i <= hi
    BY <1>7 DEF From, Within
  <2>2. /\ ~ Table!bucket_is_empty(h, b)
        /\ Table!Place(h, h.first[b]) = lo /\ Table!Place(h, h.last[b]) = hi
    BY <1>1, <1>4, <2>1, PlaceIs DEF Table!bucket_is_empty
  <2>3. Found = {i \in lo .. hi : l[i].hash = v /\ l[i].key = k}
    BY <2>2
  <2>4. Found \in SUBSET (1 .. n) /\ Found \in SUBSET Nat
    BY <1>2, <2>3
  <2>5. \A i \in Found : l[i].key = k
    BY <2>3
  <2>6. \A i \in 1 .. n : l[i].key = k => i \in Found
    BY <1>2, <1>4, <2>1, <2>3
  <2>7. Table!Min(Found) = Min(Found)
    BY DEF Table!Min, Min
  <2> HIDE DEF Found, b
  <2>8. CASE Found = {}
    BY <1>2, <1>5, <2>6, <2>8
  <2>9. CASE Found # {}
    <3>1. Min(Found) \in Found
      BY <2>4, <2>9, MinIsLeast
    <3>2. x = Min(Found)
      BY <1>5, <2>2, <2>7, <2>9
    <3>3. x \in 1 .. n /\ l[x].key = k
      BY <2>4, <2>5, <3>1, <3>2
    <3> QED
      BY <1>2, <3>3
  <2> QED
    BY <2>8, <2>9
<1> QED
  BY <1>1, <1>3, <1>6, <1>7 DEF Span

LEMMA DelKeepsSound ==
    ASSUME NEW h, Sound(h), NEW i \in 1 .. Len(h.list), NEW r, r = Table!hashtable_do_del(h, i)
    PROVE  /\ Sound(r) /\ r.hashsize = h.hashsize /\ r.serial = h.serial
           /\ Removed(h.list, r.list, i)
<1> DEFINE m == h.hashsize
           l == h.list
           p == l[i]
           b == p.hash % m
           n == Len(l)
           k == Table!RemoveAt(l, i)
           next == IF i < Len(l) THEN l[i + 1].key ELSE ListHead
           prev == IF i > 1 THEN l[i - 1].key ELSE ListHead
<1>1. /\ h \in Tables /\ KeysDiffer(l)
      /\ \A c \in 0 .. m - 1 : Span(l, m, c, h.first[c], h.last[c])
  BY DEF Sound
<1>2. /\ m \in Positive /\ l \in Seq(Pair) /\ n \in Nat
      /\ h.first \in [0 .. m - 1 -> Ends] /\ h.last \in [0 .. m - 1 -> Ends]
  BY <1>1, TableFields
<1>3. \A j \in 1 .. n : l[j].key \in Ends /\ l[j] \in Pair
  BY <1>1, TableFields, KeyIsPair
<1>4. b \in 0 .. m - 1 /\ b = Bucket(p, m)
  BY <1>2, <1>3, BucketIn DEF Pair, Bucket
<1>5. next \in Ends /\ prev \in Ends /\ ListHead \in Ends
  BY <1>2, <1>3 DEF Ends
<1>6. Removed(l, k, i) /\ k \in Seq(Pair) /\ KeysDiffer(k)
  <2>1. Removed(l, k, i)
    BY <1>2, RemovesAt
  <2> HIDE DEF k
  <2> QED
    BY <1>1, <1>2, <2>1, RemovedKeys DEF Removed
<1> HIDE DEF k
<1>7. ASSUME NEW f \in [0 .. m - 1 -> Ends], NEW e \in [0 .. m - 1 -> Ends],
             \A c \in 0 .. m - 1 : c # b => f[c] = h.first[c] /\ e[c] = h.last[c],
             Span(k, m, b, f[b], e[b]), r = Rewritten(h, k, f, e)
      PROVE  /\ Sound(r) /\ r.hashsize = h.hashsize /\ r.serial = h.serial
             /\ Removed(h.list, r.list, i)
  <2>1. /\ r \in Tables /\ r.hashsize = m /\ r.serial = h.serial
        /\ r.list = k /\ r.first = f /\ r.last = e
    BY <1>1, <1>6, <1>7, WriteTable
  <2>2. ASSUME NEW c \in 0 .. m - 1 PROVE Span(k, m, c, f[c], e[c])
    <3>1. CASE c = b
      BY <1>7, <3>1
    <3>2. CASE c # b
      <4>1. f[c] = h.first[c] /\ e[c] = h.last[c] /\ Bucket(l[i], m) # c
        BY <1>4, <1>7, <3>2
      <4>2. Span(l, m, c, h.first[c], h.last[c])
        BY <1>1
      <4>3. Span(k, m, c, h.first[c], h.last[c])
        BY <1>2, <1>6, <4>1, <4>2, SpanCloses
      <4> QED
        BY <4>1, <4>3
    <3> QED
      BY <3>1, <3>2
  <2> QED
    BY <1>6, <2>1, <2>2 DEF Sound
<1>8. PICK lo \in 1 .. n, hi \in 1 .. n : From(l, m, b, h.first[b], h.last[b], lo, hi)
  BY <1>1, <1>4 DEF Span, Empty
<1>9. /\ lo <= i /\ i <= hi
      /\ p.key = h.first[b] <=> lo = i
      /\ p.key = h.last[b] <=> hi = i
  BY <1>1, <1>4, <1>8 DEF From, Within, KeysDiffer
<1>10. /\ lo = i /\ hi = i => Span(k, m, b, ListHead, ListHead)
       /\ lo = i /\ hi # i => Span(k, m, b, next, h.last[b])
       /\ lo # i /\ hi = i => Span(k, m, b, h.first[b], prev)
       /\ lo # i /\ hi # i => Span(k, m, b, h.first[b], h.last[b])
  <2> DEFINE f == h.first[b]
             e == h.last[b]
  <2>1. l \in Seq(Pair) /\ Removed(l, k, i) /\ From(l, m, b, f, e, lo, hi)
    BY <1>2, <1>6, <1>8
  <2> HIDE DEF f, e, b
  <2>2. Lost(l, k, i, m, b, f, e, lo, hi)
    BY <1>9, <2>1, SpanLoses
  <2> QED
    BY <2>2 DEF Lost, f, e
<1>11. CASE lo = i /\ hi = i
  <2> DEFINE f == [h.first EXCEPT ![b] = ListHead]
             e == [h.last EXCEPT ![b] = ListHead]
  <2>1. r = Rewritten(h, k, f, e)
    BY <1>9, <1>11 DEF Table!hashtable_do_del, Rewritten, k
  <2>2. /\ f \in [0 .. m - 1 -> Ends] /\ e \in [0 .. m - 1 -> Ends]
        /\ \A c \in 0 .. m - 1 : c # b => f[c] = h.first[c] /\ e[c] = h.last[c]
        /\ f[b] = ListHead /\ e[b] = ListHead
    BY <1>2, <1>4, <1>5
  <2> HIDE DEF f, e, b
  <2> QED
    BY <1>7, <1>10, <1>11, <2>1, <2>2
<1>12. CASE lo = i /\ hi # i
  <2> DEFINE f == [h.first EXCEPT ![b] = next]
             e == h.last
  <2>1. r = Rewritten(h, k, f, e)
    <3>1. r = [h EXCEPT !.list = k, !.first[b] = next]
      BY <1>9, <1>12 DEF Table!hashtable_do_del, k
    <3> QED
      BY <1>1, <3>1 DEF Tables, Rewritten
  <2>2. /\ f \in [0 .. m - 1 -> Ends] /\ e \in [0 .. m - 1 -> Ends]
        /\ \A c \in 0 .. m - 1 : c # b => f[c] = h.first[c] /\ e[c] = h.last[c]
        /\ f[b] = next /\ e[b] = h.last[b]
    BY <1>2, <1>4, <1>5
  <2> HIDE DEF f, e, b, next
  <2> QED
    BY <1>7, <1>10, <1>12, <2>1, <2>2
<1>13. CASE lo # i /\ hi = i
  <2> DEFINE f == h.first
             e == [h.last EXCEPT ![b] = prev]
  <2>1. r = Rewritten(h, k, f, e)
    <3>1. r = [h EXCEPT !.list = k, !.last[b] = prev]
      BY <1>9, <1>13 DEF Table!hashtable_do_del, k
    <3> QED
      BY <1>1, <3>1 DEF Tables, Rewritten
  <2>2. /\ f \in [0 .. m - 1 -> Ends] /\ e \in [0 .. m - 1 -> Ends]
        /\ \A c \in 0 .. m - 1 : c # b => f[c] = h.first[c] /\ e[c] = h.last[c]
        /\ f[b] = h.first[b] /\ e[b] = prev
    BY <1>2, <1>4, <1>5
  <2> HIDE DEF f, e, b, prev
  <2> QED
    BY <1>7, <1>10, <1>13, <2>1, <2>2
<1>14. CASE lo # i /\ hi # i
  <2>1. r = Rewritten(h, k, h.first, h.last)
    <3>1. r = [h EXCEPT !.list = k]
      BY <1>9, <1>14 DEF Table!hashtable_do_del, k
    <3> QED
      BY <1>1, <3>1 DEF Tables, Rewritten
  <2> HIDE DEF b
  <2> QED
    BY <1>2, <1>7, <1>10, <1>14, <2>1
<1> QED
  BY <1>11, <1>12, <1>13, <1>14

\* A value written in place.
Valued(h, i, v) == [h EXCEPT !.list[i].value = v]

LEMMA ValueKeepsSound ==
    ASSUME NEW h, Sound(h), NEW i \in 1 .. Len(h.list), NEW v \in TableValues,
           NEW r, r = Valued(h, i, v)
    PROVE  /\ Sound(r) /\ r.hashsize = h.hashsize /\ r.serial = h.serial
           /\ r.list = [h.list EXCEPT ![i].value = v]
<1> DEFINE l == h.list
           m == h.hashsize
           k == [l EXCEPT ![i].value = v]
<1>1. /\ h \in Tables /\ KeysDiffer(l)
      /\ \A c \in 0 .. m - 1 : Span(l, m, c, h.first[c], h.last[c])
  BY DEF Sound
<1>2. /\ l \in Seq(Pair) /\ Len(l) \in Nat /\ DOMAIN l = 1 .. Len(l)
      /\ h.first \in [0 .. m - 1 -> Ends] /\ h.last \in [0 .. m - 1 -> Ends]
      /\ \A j \in 1 .. Len(l) : l[j] \in Pair
  BY <1>1, TableFields
<1>3. /\ k \in Seq(Pair) /\ Len(k) = Len(l)
      /\ \A j \in 1 .. Len(l) : k[j].key = l[j].key /\ k[j].hash = l[j].hash
  <2>1. \A j \in 1 .. Len(l) :
           k[j] = IF j = i THEN [l[j] EXCEPT !.value = v] ELSE l[j]
    BY <1>2
  <2>2. \A j \in 1 .. Len(l) :
           k[j] \in Pair /\ k[j].key = l[j].key /\ k[j].hash = l[j].hash
    BY <1>2, <2>1 DEF Pair
  <2>3. k \in [1 .. Len(l) -> Pair]
    BY <1>2, <2>2
  <2> HIDE DEF k
  <2> QED
    BY <1>2, <2>2, <2>3, FunctionIsSeq
<1>4. r = Rewritten(h, k, h.first, h.last)
  BY <1>1 DEF Tables, Rewritten, Valued
<1> HIDE DEF k
<1>5. /\ r \in Tables /\ r.hashsize = m /\ r.serial = h.serial
      /\ r.list = k /\ r.first = h.first /\ r.last = h.last
  <2>1. /\ h \in Tables /\ k \in Seq(Pair)
        /\ h.first \in [0 .. h.hashsize - 1 -> Ends]
        /\ h.last \in [0 .. h.hashsize - 1 -> Ends]
    BY <1>1, <1>2, <1>3
  <2> QED
    BY <1>4, <2>1, WriteTable
<1>6. KeysDiffer(k)
  BY <1>1, <1>3 DEF KeysDiffer
<1>7. ASSUME NEW b \in 0 .. m - 1 PROVE Span(k, m, b, h.first[b], h.last[b])
  <2>1. Span(l, m, b, h.first[b], h.last[b])
    BY <1>1
  <2>2. \A j \in 1 .. Len(l) : Bucket(k[j], m) = Bucket(l[j], m)
    BY <1>3 DEF Bucket
  <2> QED
    BY <1>3, <2>1, <2>2 DEF Span, Empty, From, Within
<1> QED
  BY <1>5, <1>6, <1>7 DEF Sound, k

\* Empty buckets are sound.
LEMMA NoPairsSound ==
    ASSUME NEW m, NEW r \in Tables, r.hashsize = m, r.list = <<>>,
           r.first = Table!NoPairs(m), r.last = Table!NoPairs(m)
    PROVE  Sound(r) /\ Len(r.list) = 0 /\ ToSet(r.list) = {}
<1>1. \A b \in 0 .. m - 1 : Table!NoPairs(m)[b] = ListHead
  BY DEF Table!NoPairs
<1>2. Len(<<>>) = 0 /\ ToSet(<<>>) = {}
  BY DEF ToSet
<1>3. KeysDiffer(<<>>) /\ \A b \in 0 .. m - 1 : Empty(<<>>, m, b, ListHead, ListHead)
  BY DEF KeysDiffer, Empty
<1> QED
  BY <1>1, <1>2, <1>3 DEF Sound, Span

LEMMA CountsUp ==
    ASSUME NEW n \in Nat, NEW S, 0 \in S, \A i \in 0 .. n - 1 : i \in S => i + 1 \in S
    PROVE  0 .. n \subseteq S
<1> DEFINE Bad == {i \in 0 .. n : i \notin S}
<1> SUFFICES ASSUME Bad # {} PROVE FALSE
  OBVIOUS
<1>1. Bad \in SUBSET Nat
  OBVIOUS
<1>2. Min(Bad) \in Bad /\ \A y \in Bad : Min(Bad) <= y
  BY <1>1, MinIsLeast
<1> DEFINE k == Min(Bad)
<1>3. k \in 0 .. n /\ k \notin S /\ \A y \in 0 .. n : y \notin S => k <= y
  BY <1>2
<1> HIDE DEF k
<1>4. k - 1 \in 0 .. n - 1 /\ ~ (k <= k - 1) /\ (k - 1) + 1 = k
  BY <1>3
<1>5. k - 1 \in S
  BY <1>3, <1>4
<1> QED
  BY <1>3, <1>4, <1>5

\* The tables that pair after pair makes of e, when they are moved from list l.
Moves(f, n, e, l) ==
    f = [i \in 0 .. n |-> IF i = 0 THEN e ELSE Table!insert_to_bucket(f[i - 1], l[i])]

LEMMA MovesExist == ASSUME NEW n \in Nat, NEW e, NEW l PROVE \E f : Moves(f, n, e, l)
<1> DEFINE S == {m \in Nat : \E f : Moves(f, m, e, l)}
<1>1. 0 \in S
  <2> DEFINE f == [i \in 0 .. 0 |-> e]
  <2>1. f = [i \in 0 .. 0 |-> IF i = 0 THEN e ELSE Table!insert_to_bucket(f[i - 1], l[i])]
    OBVIOUS
  <2> QED
    BY <2>1 DEF Moves
<1>2. ASSUME NEW m \in 0 .. n - 1, m \in S PROVE m + 1 \in S
  <2>1. PICK f : Moves(f, m, e, l)
    BY <1>2
  <2> DEFINE p == m + 1
             g == [i \in 0 .. p |->
                    IF i <= m THEN f[i] ELSE Table!insert_to_bucket(f[m], l[i])]
             step(i) == IF i = 0 THEN e ELSE Table!insert_to_bucket(g[i - 1], l[i])
  <2>2. /\ m \in Nat /\ p \in Nat /\ p - 1 = m /\ p # 0 /\ ~ (p <= m)
        /\ \A i \in 0 .. p : (i = p \/ i \in 0 .. m)
        /\ \A i \in 0 .. m : i \in 0 .. p /\ i <= m /\ (i # 0 => i - 1 \in 0 .. m)
    OBVIOUS
  <2>3. \A i \in 0 .. m :
          f[i] = IF i = 0 THEN e ELSE Table!insert_to_bucket(f[i - 1], l[i])
    BY <2>1 DEF Moves
  <2> HIDE DEF p
  <2>4. \A i \in 0 .. m : g[i] = f[i]
    BY <2>2
  <2>5. g[p] = Table!insert_to_bucket(f[m], l[p]) /\ p \in 0 .. p
    BY <2>2
  <2>6. ASSUME NEW i \in 0 .. p PROVE g[i] = step(i)
    <3> HIDE DEF g
    <3>1. CASE i = p
      <4>1. m \in 0 .. m
        BY <2>2
      <4> QED
        BY <2>2, <2>4, <2>5, <3>1, <4>1
    <3>2. CASE i \in 0 .. m
      BY <2>2, <2>3, <2>4, <3>2
    <3> QED
      BY <2>2, <3>1, <3>2
  <2>7. g = [i \in 0 .. p |-> step(i)]
    <3>1. g = [i \in 0 .. p |-> g[i]]
      OBVIOUS
    <3> HIDE DEF g, step
    <3> QED
      BY <2>6, <3>1
  <2>8. Moves(g, p, e, l)
    <3> HIDE DEF g
    <3> QED
      BY <2>7 DEF Moves
  <2> HIDE DEF g
  <2>9. p \in S
    BY <2>2, <2>8
  <2> QED
    BY <2>9 DEF p
<1> HIDE DEF S
<1>3. 0 .. n \subseteq S
  BY <1>1, <1>2, CountsUp
<1>4. n \in S
  BY <1>3
<1> QED
  BY <1>4 DEF S

WithBuckets(h, m, none) ==
    [h EXCEPT !.hashsize = m, !.list = <<>>, !.first = none, !.last = none]

LEMMA EmptyTable ==
    ASSUME NEW h \in Tables, NEW m \in Positive, NEW none \in [0 .. m - 1 -> Ends],
           NEW e, e = WithBuckets(h, m, none)
    PROVE  /\ e \in Tables /\ e.hashsize = m /\ e.serial = h.serial
           /\ e.list = <<>> /\ e.first = none /\ e.last = none
<1>1. PICK q \in Positive :
        h \in [hashsize : {q}, serial : Nat, list : Seq(Pair),
               first : [0 .. q - 1 -> Ends], last : [0 .. q - 1 -> Ends]]
  BY DEF Tables
<1>2. <<>> \in Seq(Pair)
  OBVIOUS
<1>3. /\ e \in [hashsize : {m}, serial : Nat, list : Seq(Pair),
                first : [0 .. m - 1 -> Ends], last : [0 .. m - 1 -> Ends]]
      /\ e.hashsize = m /\ e.serial = h.serial
      /\ e.list = <<>> /\ e.first = none /\ e.last = none
  BY <1>1, <1>2 DEF WithBuckets
<1> QED
  BY <1>3 DEF Tables

\* All pairs move to twice as many buckets.
LEMMA RehashKeepsSound ==
    ASSUME NEW h, Sound(h), NEW r, r = Table!hashtable_do_rehash(h)
    PROVE  /\ Sound(r) /\ r.serial = h.serial
           /\ Len(r.list) = Len(h.list) /\ ToSet(r.list) = ToSet(h.list)
<1> DEFINE l == h.list
           n == Len(l)
           m == 2 * h.hashsize
           e == [h EXCEPT !.hashsize = m, !.list = <<>>,
                          !.first = Table!NoPairs(m), !.last = Table!NoPairs(m)]
           f == CHOOSE g : Moves(g, n, e, l)
<1>1. h \in Tables /\ KeysDiffer(l)
  BY DEF Sound
<1>2. /\ n \in Nat /\ h.hashsize \in Positive /\ h.serial \in Nat
      /\ DOMAIN l = 1 .. n /\ \A i \in 1 .. n : l[i] \in Pair
  BY <1>1, TableFields
<1>3. r = f[n]
  BY Zenon DEF Table!hashtable_do_rehash, Moves
<1>4. /\ m \in Positive /\ e \in Tables /\ e.hashsize = m /\ e.serial = h.serial
      /\ e.list = <<>> /\ e.first = Table!NoPairs(m) /\ e.last = Table!NoPairs(m)
  <2> DEFINE none == Table!NoPairs(m)
  <2>1. m \in Positive
    BY <1>2 DEF Positive
  <2>2. none \in [0 .. m - 1 -> Ends] /\ e = WithBuckets(h, m, none)
    BY DEF Table!NoPairs, Ends, WithBuckets
  <2> HIDE DEF none, m, e
  <2> QED
    BY <1>1, <2>1, <2>2, EmptyTable DEF none
<1>5. Sound(e) /\ Len(e.list) = 0 /\ ToSet(e.list) = {}
  <2> HIDE DEF e, m
  <2> QED
    BY <1>4, NoPairsSound
<1> HIDE DEF e
<1>6. Moves(f, n, e, l)
  <2>1. \E g : Moves(g, n, e, l)
    BY <1>2, MovesExist
  <2> QED
    BY <2>1
<1> HIDE DEF f
<1>7. /\ f[0] = e
      /\ \A i \in 0 .. n - 1 : f[i + 1] = Table!insert_to_bucket(f[i], l[i + 1])
  <2>1. \A i \in 0 .. n :
          f[i] = IF i = 0 THEN e ELSE Table!insert_to_bucket(f[i - 1], l[i])
    BY <1>6 DEF Moves
  <2>2. ASSUME NEW i \in 0 .. n - 1
        PROVE  f[i + 1] = Table!insert_to_bucket(f[i], l[i + 1])
    <3>1. i + 1 \in 0 .. n /\ i + 1 # 0 /\ (i + 1) - 1 = i
      BY <1>2
    <3> QED
      BY <2>1, <3>1
  <2> QED
    BY <1>2, <2>1, <2>2
<1> DEFINE Initial(i) == {l[j] : j \in 1 .. i}
           S == {i \in 0 .. n : /\ Sound(f[i]) /\ f[i].serial = h.serial
                                /\ Len(f[i].list) = i /\ ToSet(f[i].list) = Initial(i)}
<1>8. 0 \in S
  <2>1. Initial(0) = {} /\ 0 \in 0 .. n
    BY <1>2
  <2> HIDE DEF Initial
  <2> QED
    BY <1>4, <1>5, <1>7, <2>1
<1>9. ASSUME NEW i \in 0 .. n - 1, i \in S PROVE i + 1 \in S
  <2> DEFINE k == i + 1
             p == l[k]
             g == f[i]
  <2>1. /\ k \in 1 .. n /\ p \in Pair /\ k \in 0 .. n /\ i \in Nat
        /\ \A j \in 1 .. i : j # k /\ j \in 1 .. n
        /\ 1 .. k = (1 .. i) \cup {k}
    BY <1>2
  <2>2. Sound(g) /\ g.serial = h.serial /\ Len(g.list) = i /\ ToSet(g.list) = Initial(i)
    BY <1>9
  <2>3. f[k] = Table!insert_to_bucket(g, p)
    BY <1>7
  <2> HIDE DEF k
  <2>4. ASSUME NEW a \in 1 .. Len(g.list) PROVE g.list[a].key # p.key
    <3>1. g.list[a] \in ToSet(g.list)
      <4>1. DOMAIN g.list = 1 .. Len(g.list)
        BY <2>2, TableFields DEF Sound
      <4> QED
        BY <4>1 DEF ToSet
    <3>2. PICK j \in 1 .. i : g.list[a] = l[j]
      BY <2>2, <3>1
    <3> QED
      BY <1>1, <2>1, <3>2 DEF KeysDiffer
  <2> HIDE DEF g, p
  <2>5. Grew(g, Table!insert_to_bucket(g, p), p)
    BY <2>1, <2>2, <2>4, InsertKeepsSound
  <2>6. Initial(k) = Initial(i) \cup {p}
    <3>1. ASSUME NEW j \in 1 .. k PROVE l[j] \in Initial(i) \cup {l[k]}
      <4>1. j = k \/ j \in 1 .. i
        BY <2>1
      <4>2. j \in 1 .. i => l[j] \in Initial(i)
        OBVIOUS
      <4> HIDE DEF Initial, l
      <4> QED
        BY <4>1, <4>2
    <3>2. Initial(i) \subseteq Initial(k) /\ l[k] \in Initial(k)
      BY <2>1
    <3> QED
      BY <3>1, <3>2 DEF p
  <2> HIDE DEF Initial
  <2>7. /\ Sound(f[k]) /\ f[k].serial = h.serial
        /\ Len(f[k].list) = k /\ ToSet(f[k].list) = Initial(k)
    BY <2>2, <2>3, <2>5, <2>6 DEF Grew, k
  <2>8. k \in S
    BY <2>1, <2>7
  <2> QED
    BY <2>8 DEF k
<1> HIDE DEF S
<1>10. 0 .. n \subseteq S
  BY <1>2, <1>8, <1>9, CountsUp
<1>11. n \in S
  BY <1>2, <1>10
<1>12. Initial(n) = ToSet(l)
  BY <1>2 DEF ToSet
<1> QED
  BY <1>3, <1>11, <1>12 DEF S

-----------------------------------------------------------------------------
(* The pairs of a table by serial, and the map that they are.              *)

Ascends(s) == \A i, j \in 1 .. Len(s) : i < j => s[i].serial < s[j].serial

Order(h, s) ==
    s \in Seq(Pair) /\ Len(s) = Len(h.list) /\ ToSet(s) = ToSet(h.list) /\ Ascends(s)

\* A sound table, its pairs hashed by H, s their order.
Good(h, H, s) ==
    /\ Sound(h) /\ Order(h, s)
    /\ \A p \in ToSet(h.list) : p.hash = H[p.key] /\ p.serial < h.serial

MapOf(s) == [i \in 1 .. Len(s) |-> [key |-> s[i].key, value |-> s[i].value]]

\* There is one order: the first place at which two differed would need an earlier one.
LEMMA OneOrder ==
    ASSUME NEW s \in Seq(Pair), NEW q \in Seq(Pair), Len(s) = Len(q), ToSet(s) = ToSet(q),
           Ascends(s), Ascends(q)
    PROVE  s = q
<1> DEFINE n == Len(s)
           Bad == {i \in 1 .. n : s[i] # q[i]}
<1>1. /\ n \in Nat /\ DOMAIN s = 1 .. n /\ DOMAIN q = 1 .. n /\ Len(q) = n
      /\ \A i \in 1 .. n : s[i].serial \in Nat /\ q[i].serial \in Nat
  <2>1. \A i \in 1 .. n : s[i] \in Pair /\ q[i] \in Pair
    BY ElementOfSeq
  <2> QED
    BY <2>1, LenProperties DEF Pair
<1>2. CASE Bad = {}
  <2>1. s = [i \in 1 .. n |-> s[i]] /\ q = [i \in 1 .. n |-> q[i]]
    BY <1>1, SeqDef
  <2> HIDE DEF n
  <2> QED
    BY <1>2, <2>1
<1>3. CASE Bad # {}
  <2> DEFINE i == Min(Bad)
  <2>1. Bad \in SUBSET Nat
    BY <1>1
  <2>2. i \in Bad /\ \A y \in Bad : i <= y
    BY <1>3, <2>1, MinIsLeast
  <2>3. i \in 1 .. n /\ s[i] # q[i] /\ \A j \in 1 .. n : j < i => s[j] = q[j]
    <3>1. i \in 1 .. n /\ s[i] # q[i]
      BY <2>2
    <3>2. \A j \in 1 .. n : s[j] # q[j] => i <= j
      BY <2>2
    <3> HIDE DEF i, n
    <3> QED
      BY <1>1, <3>1, <3>2
  <2> HIDE DEF i
  <2>4. PICK j \in 1 .. n : s[i] = q[j]
    <3>1. s[i] \in ToSet(s)
      BY <1>1, <2>3 DEF ToSet
    <3> QED
      BY <1>1, <3>1 DEF ToSet
  <2>5. PICK k \in 1 .. n : q[i] = s[k]
    <3>1. q[i] \in ToSet(q)
      BY <1>1, <2>3 DEF ToSet
    <3> QED
      BY <1>1, <3>1 DEF ToSet
  <2>6. ~ (j < i) /\ j # i
    <3>1. j < i => s[j].serial < s[i].serial
      BY <2>3 DEF Ascends
    <3>2. j < i => s[j] = s[i]
      BY <2>3, <2>4
    <3> QED
      BY <1>1, <2>3, <2>4, <3>1, <3>2
  <2>7. ~ (k < i) /\ k # i
    <3>1. k < i => q[k].serial < q[i].serial
      BY <1>1, <2>3 DEF Ascends
    <3>2. k < i => q[k] = q[i]
      BY <2>3, <2>5
    <3> QED
      BY <1>1, <2>3, <2>5, <3>1, <3>2
  <2>8. q[i].serial < q[j].serial
    <3>1. i < j
      BY <1>1, <2>3, <2>6
    <3> QED
      BY <1>1, <2>3, <3>1 DEF Ascends
  <2>9. s[i].serial < s[k].serial
    <3>1. i < k
      BY <1>1, <2>3, <2>7
    <3> QED
      BY <2>3, <3>1 DEF Ascends
  <2>10. s[i].serial < q[i].serial /\ q[i].serial < s[i].serial
    BY <2>4, <2>5, <2>8, <2>9
  <2> QED
    BY <1>1, <2>3, <2>10
<1> QED
  BY <1>2, <1>3

LEMMA SortedIs ==
    ASSUME NEW h \in Tables, NEW s, Order(h, s)
    PROVE  Table!Sorted(h.list) = s
<1> DEFINE l == h.list
           Is(q) == /\ \A i, j \in DOMAIN l : i < j => q[i].serial < q[j].serial
                    /\ Table!ToSet(q) = Table!ToSet(l)
           c == CHOOSE q \in [DOMAIN l -> Table!ToSet(l)] : Is(q)
<1>1. /\ s \in Seq(Pair) /\ Len(s) = Len(l) /\ ToSet(s) = ToSet(l) /\ Ascends(s)
      /\ Len(l) \in Nat /\ DOMAIN l = 1 .. Len(l) /\ \A i \in 1 .. Len(l) : l[i] \in Pair
  BY TableFields DEF Order
<1>2. Table!Sorted(l) = c
  BY DEF Table!Sorted, Table!object_key_compare_serials
<1>3. \A q : Table!ToSet(q) = ToSet(q)
  BY DEF Table!ToSet, ToSet
<1>4. ToSet(l) \subseteq Pair
  BY <1>1 DEF ToSet
<1>5. s \in [DOMAIN l -> Table!ToSet(l)] /\ Is(s)
  <2>1. DOMAIN s = 1 .. Len(l) /\ s = [i \in 1 .. Len(l) |-> s[i]]
    BY <1>1, LenProperties, SeqDef
  <2>2. \A i \in 1 .. Len(l) : s[i] \in ToSet(l)
    BY <1>1, <2>1 DEF ToSet
  <2>3. s \in [DOMAIN l -> Table!ToSet(l)]
    BY <1>1, <1>3, <2>1, <2>2
  <2> QED
    BY <1>1, <1>3, <2>3 DEF Ascends
<1>6. c \in [DOMAIN l -> Table!ToSet(l)] /\ Is(c)
  <2> HIDE DEF Is
  <2> QED
    BY <1>5
<1> HIDE DEF c
<1>7. c \in Seq(Pair) /\ Len(c) = Len(l) /\ DOMAIN c = 1 .. Len(l)
  <2>1. c \in [1 .. Len(l) -> Pair]
    BY <1>1, <1>3, <1>4, <1>6
  <2> QED
    BY <1>1, <2>1, FunctionIsSeq
<1>8. Ascends(c) /\ ToSet(c) = ToSet(s)
  BY <1>1, <1>3, <1>6, <1>7 DEF Ascends
<1>9. c = s
  BY <1>1, <1>7, <1>8, OneOrder
<1> QED
  BY <1>2, <1>9

\* What is found and dumped is the map of the order.
LEMMA DumpedIs ==
    ASSUME NEW h, NEW s, hashtable_seed \in Seeds, Good(h, hashlittle[hashtable_seed], s)
    PROVE  Table!Dumped(h) = MapOf(s)
<1> DEFINE H == hashlittle[hashtable_seed]
           l == h.list
           n == Len(l)
<1>1. /\ Sound(h) /\ Order(h, s) /\ h \in Tables /\ KeysDiffer(l)
      /\ \A p \in ToSet(l) : p.hash = H[p.key]
  BY DEF Good, Sound
<1>2. /\ s \in Seq(Pair) /\ Len(s) = n /\ ToSet(s) = ToSet(l) /\ n \in Nat
      /\ DOMAIN l = 1 .. n /\ DOMAIN s = 1 .. n /\ \A i \in 1 .. n : l[i] \in Pair
  BY <1>1, TableFields, LenProperties DEF Order
<1>3. H \in [TableKeys -> Nat]
  BY ValuesAssumption DEF Table!TableAssumption
<1>4. \A i \in 1 .. n : l[i].hash = H[l[i].key] /\ H[l[i].key] \in Nat
  BY <1>1, <1>2, <1>3 DEF ToSet, Pair
<1>5. ASSUME NEW i \in 1 .. n
      PROVE  Table!json_object_get(h, s[i].key) = s[i].value
  <2> DEFINE k == s[i].key
             x == Table!hashtable_find_pair(h, k, H[k])
  <2>1. PICK j \in 1 .. n : s[i] = l[j]
    BY <1>2 DEF ToSet
  <2>2. k = l[j].key /\ H[k] \in Nat /\ \A a \in 1 .. n : l[a].key = k => l[a].hash = H[k]
    BY <1>4, <2>1
  <2> HIDE DEF H, k
  <2>3. x \in 0 .. n /\ (x > 0 => l[x].key = k) /\ x # 0
    BY <1>1, <2>2, FindsPair
  <2> HIDE DEF x
  <2>4. x = j
    <3>1. x \in 1 .. n
      BY <1>2, <2>3
    <3> QED
      BY <1>1, <1>2, <2>2, <2>3, <3>1 DEF KeysDiffer
  <2>5. Table!json_object_get(h, k) = l[x].value
    BY <2>3 DEF Table!json_object_get, Table!hash_str, x, H
  <2> QED
    BY <2>1, <2>4, <2>5 DEF k
<1>6. Table!Sorted(Table!Iterated(h)) = s /\ Table!json_object_size(h) = n
  BY <1>1, SortedIs DEF Table!Iterated, Table!json_object_size
<1>7. Table!Dumped(h)
        = [i \in 1 .. n |-> [key |-> s[i].key, value |-> Table!json_object_get(h, s[i].key)]]
  BY <1>6 DEF Table!Dumped
<1> HIDE DEF n
<1> QED
  BY <1>2, <1>5, <1>7 DEF MapOf

\* An element written, when it is in the sequence once.
Put(l, i, w) == [l EXCEPT ![i] = w]

LEMMA PutSet ==
    ASSUME NEW l \in Seq(Pair), NEW i \in 1 .. Len(l), NEW w,
           \A x \in 1 .. Len(l) : x # i => l[x] # l[i]
    PROVE  ToSet(Put(l, i, w)) = (ToSet(l) \ {l[i]}) \cup {w}
<1>1. DOMAIN l = 1 .. Len(l) /\ DOMAIN Put(l, i, w) = 1 .. Len(l)
  BY LenProperties DEF Put
<1>2. \A x \in 1 .. Len(l) : Put(l, i, w)[x] = IF x = i THEN w ELSE l[x]
  BY <1>1 DEF Put
<1> QED
  BY <1>1, <1>2 DEF ToSet

LEMMA MapOfIs ==
    ASSUME NEW s, Len(s) \in Nat
    PROVE  /\ MapOf(s) \in Seq({MapOf(s)[a] : a \in 1 .. Len(s)})
           /\ Len(MapOf(s)) = Len(s) /\ DOMAIN MapOf(s) = 1 .. Len(s)
           /\ \A a \in 1 .. Len(s) : /\ MapOf(s)[a] = [key |-> s[a].key, value |-> s[a].value]
                                    /\ MapOf(s)[a].key = s[a].key
                                    /\ MapOf(s)[a].value = s[a].value
<1>1. /\ DOMAIN MapOf(s) = 1 .. Len(s)
      /\ \A a \in 1 .. Len(s) : /\ MapOf(s)[a] = [key |-> s[a].key, value |-> s[a].value]
                               /\ MapOf(s)[a].key = s[a].key
                               /\ MapOf(s)[a].value = s[a].value
  BY DEF MapOf
<1>2. MapOf(s) \in [1 .. Len(s) -> {MapOf(s)[a] : a \in 1 .. Len(s)}]
  BY DEF MapOf
<1>3. /\ MapOf(s) \in Seq({MapOf(s)[a] : a \in 1 .. Len(s)})
      /\ Len(MapOf(s)) = Len(s)
  BY <1>2, FunctionIsSeq
<1> QED
  BY <1>1, <1>3

\* In their order too, pairs are told apart by their key.
LEMMA OrderKeys ==
    ASSUME NEW h, Sound(h), NEW s, Order(h, s)
    PROVE  /\ KeysDiffer(s) /\ \A i, j \in 1 .. Len(s) : s[i] = s[j] => i = j
           /\ s \in Seq(Pair) /\ Len(s) \in Nat /\ DOMAIN s = 1 .. Len(s)
           /\ \A i \in 1 .. Len(s) : s[i] \in Pair
<1>1. /\ s \in Seq(Pair) /\ Len(s) \in Nat /\ DOMAIN s = 1 .. Len(s)
      /\ \A i \in 1 .. Len(s) : s[i] \in Pair
      /\ ToSet(s) = ToSet(h.list) /\ Ascends(s)
  BY LenProperties, ElementOfSeq DEF Order
<1>2. DOMAIN h.list = 1 .. Len(h.list) /\ KeysDiffer(h.list)
  BY TableFields DEF Sound
<1>3. ASSUME NEW i \in 1 .. Len(s), NEW j \in 1 .. Len(s), s[i].serial = s[j].serial
      PROVE  i = j
  <2>1. s[i].serial \in Nat /\ s[j].serial \in Nat
    BY <1>1 DEF Pair
  <2>2. ~ (i < j) /\ ~ (j < i)
    BY <1>1, <1>3, <2>1 DEF Ascends
  <2> QED
    BY <1>1, <2>2
<1>4. ASSUME NEW i \in 1 .. Len(s), NEW j \in 1 .. Len(s), s[i].key = s[j].key
      PROVE  i = j
  <2>1. s[i] \in ToSet(h.list) /\ s[j] \in ToSet(h.list)
    BY <1>1 DEF ToSet
  <2>2. PICK a \in 1 .. Len(h.list) : s[i] = h.list[a]
    BY <1>2, <2>1 DEF ToSet
  <2>3. PICK b \in 1 .. Len(h.list) : s[j] = h.list[b]
    BY <1>2, <2>1 DEF ToSet
  <2>4. s[i] = s[j]
    BY <1>2, <1>4, <2>2, <2>3 DEF KeysDiffer
  <2> QED
    BY <1>3, <2>4
<1> QED
  BY <1>1, <1>3, <1>4 DEF KeysDiffer

\* Where the i-th pair of a table is in the order.
LEMMA PlaceInOrder ==
    ASSUME NEW h, Sound(h), NEW s, Order(h, s), NEW i \in 1 .. Len(h.list)
    PROVE  \E j \in 1 .. Len(s) : s[j] = h.list[i]
<1>1. DOMAIN h.list = 1 .. Len(h.list) /\ DOMAIN s = 1 .. Len(s)
  BY TableFields, LenProperties DEF Sound, Order
<1>2. h.list[i] \in ToSet(s)
  BY <1>1 DEF Order, ToSet
<1> QED
  BY <1>1, <1>2 DEF ToSet

\* What an operation does to the map.
Becomes(H, s, r, m) == \E q : Good(r, H, q) /\ MapOf(q) = m

LEMMA ValueSets ==
    ASSUME NEW h, NEW H, NEW s, Good(h, H, s), NEW i \in 1 .. Len(h.list),
           NEW v \in TableValues, NEW k, k = h.list[i].key
    PROVE  Becomes(H, s, Valued(h, i, v), Maps!Set(MapOf(s), k, v))
<1> DEFINE r == Valued(h, i, v)
           l == h.list
           p == l[i]
           w == [p EXCEPT !.value = v]
<1>1. /\ Sound(h) /\ Order(h, s) /\ h \in Tables /\ KeysDiffer(l)
      /\ \A x \in ToSet(l) : x.hash = H[x.key] /\ x.serial < h.serial
  BY DEF Good, Sound
<1>2. /\ Sound(r) /\ r.hashsize = h.hashsize /\ r.serial = h.serial
      /\ r.list = [l EXCEPT ![i].value = v]
  BY <1>1, ValueKeepsSound
<1> HIDE DEF r
<1>3. /\ l \in Seq(Pair) /\ DOMAIN l = 1 .. Len(l) /\ p \in Pair /\ Len(l) \in Nat
      /\ s \in Seq(Pair) /\ Len(s) = Len(l) /\ ToSet(s) = ToSet(l) /\ Ascends(s)
  BY <1>1, TableFields DEF Order
<1>4. w \in Pair /\ w.key = k /\ w.hash = p.hash /\ w.serial = p.serial /\ w.value = v
  BY <1>3 DEF Pair
<1>5. r.list = [l EXCEPT ![i] = w]
  BY <1>2
<1>6. PICK j \in 1 .. Len(s) : s[j] = p
  BY <1>1, PlaceInOrder
<1>7. /\ KeysDiffer(s) /\ \A a, b \in 1 .. Len(s) : s[a] = s[b] => a = b
      /\ DOMAIN s = 1 .. Len(s) /\ \A a \in 1 .. Len(s) : s[a] \in Pair
  BY <1>1, OrderKeys
<1> DEFINE q == [s EXCEPT ![j] = w]
<1> HIDE DEF w
<1>8. /\ q \in Seq(Pair) /\ Len(q) = Len(s)
      /\ \A a \in 1 .. Len(s) : q[a] = IF a = j THEN w ELSE s[a]
  <2>1. \A a \in 1 .. Len(s) : q[a] = IF a = j THEN w ELSE s[a]
    BY <1>7
  <2>2. q \in [1 .. Len(s) -> Pair]
    BY <1>4, <1>7
  <2>3. Len(s) \in Nat
    BY <1>3
  <2> HIDE DEF q
  <2>4. q \in Seq(Pair) /\ Len(q) = Len(s)
    BY <2>2, <2>3, FunctionIsSeq
  <2> QED
    BY <2>1, <2>4
<1>9. ToSet(r.list) = (ToSet(l) \ {p}) \cup {w}
  <2>1. \A x \in 1 .. Len(l) : x # i => l[x] # l[i]
    BY <1>1 DEF KeysDiffer
  <2>2. r.list = Put(l, i, w)
    BY <1>5 DEF Put
  <2>3. l \in Seq(Pair) /\ i \in 1 .. Len(l)
    BY <1>3
  <2> HIDE DEF l
  <2>4. ToSet(Put(l, i, w)) = (ToSet(l) \ {l[i]}) \cup {w}
    BY <2>1, <2>3, PutSet
  <2> QED
    BY <2>2, <2>4
<1>10. ToSet(q) = (ToSet(s) \ {p}) \cup {w}
  <2>1. \A x \in 1 .. Len(s) : x # j => s[x] # s[j]
    BY <1>7
  <2>2. ToSet(Put(s, j, w)) = (ToSet(s) \ {s[j]}) \cup {w}
    BY <1>3, <2>1, PutSet
  <2> HIDE DEF p
  <2> QED
    BY <1>6, <2>2 DEF Put
<1> HIDE DEF q, p
<1>11. Ascends(q)
  <2>1. \A a \in 1 .. Len(s) : q[a].serial = s[a].serial
    BY <1>4, <1>6, <1>8
  <2> QED
    BY <1>3, <1>8, <2>1 DEF Ascends
<1>12. Order(r, q)
  <2>1. Len(r.list) = Len(l)
    <3>1. Len(r.list) \in Nat /\ Len([l EXCEPT ![i] = w]) = Len(l)
      <4>1. r \in Tables
        BY <1>2 DEF Sound
      <4>2. /\ DOMAIN r.list = 1 .. Len(r.list) /\ DOMAIN r.list = 1 .. Len(l)
            /\ Len(r.list) \in Nat
        BY <1>3, <1>5, <4>1, TableFields
      <4> QED
        BY <1>3, <1>5, <4>2
    <3> QED
      BY <1>5, <3>1
  <2> QED
    BY <1>3, <1>8, <1>9, <1>10, <1>11, <2>1 DEF Order
<1>13. \A x \in ToSet(r.list) : x.hash = H[x.key] /\ x.serial < r.serial
  <2>1. p \in ToSet(l)
    BY <1>3 DEF ToSet, p
  <2>2. r.serial = h.serial /\ w.key = p.key
    BY <1>2, <1>4 DEF p
  <2>3. w.hash = H[w.key] /\ w.serial < r.serial
    BY <1>1, <1>4, <2>1, <2>2
  <2> HIDE DEF l
  <2> QED
    BY <1>1, <1>9, <2>2, <2>3
<1>14. MapOf(q) = Maps!Set(MapOf(s), k, v)
  <2> DEFINE m == MapOf(s)
             new == [a \in 1 .. Len(m) |->
                       IF m[a].key = k THEN [m[a] EXCEPT !.value = v] ELSE m[a]]
  <2>1. /\ Len(m) = Len(s)
        /\ \A a \in 1 .. Len(s) : /\ m[a] = [key |-> s[a].key, value |-> s[a].value]
                                 /\ m[a].key = s[a].key
                                 /\ m[a].value = s[a].value
    <3>1. Len(s) \in Nat
      BY <1>3
    <3> QED
      BY <3>1, MapOfIs
  <2> HIDE DEF m
  <2>2. s[j].key = k
    BY <1>6 DEF p
  <2>3. Maps!Has(m, k)
    BY <2>1, <2>2 DEF Maps!Has
  <2>4. Maps!Set(m, k, v) = new
    BY <2>3 DEF Maps!Set
  <2>5. ASSUME NEW a \in 1 .. Len(s)
        PROVE  (IF m[a].key = k THEN [m[a] EXCEPT !.value = v] ELSE m[a])
                 = [key |-> q[a].key, value |-> q[a].value]
    <3>1. m[a].key = s[a].key /\ (s[a].key = k <=> a = j)
      BY <1>7, <2>1, <2>2 DEF KeysDiffer
    <3>2. CASE a = j
      <4>1. /\ m[a] = [key |-> s[a].key, value |-> s[a].value]
            /\ q[a].key = k /\ q[a].value = v /\ m[a].key = k /\ s[a].key = k
        BY <1>4, <1>8, <2>1, <2>2, <3>2
      <4>2. [m[a] EXCEPT !.value = v] = [key |-> k, value |-> v]
        BY <4>1
      <4> QED
        BY <4>1, <4>2
    <3>3. CASE a # j
      BY <1>8, <2>1, <3>1, <3>3
    <3> QED
      BY <3>2, <3>3
  <2>6. MapOf(q) = [a \in 1 .. Len(s) |-> [key |-> q[a].key, value |-> q[a].value]]
    BY <1>8 DEF MapOf
  <2>7. new = MapOf(q)
    BY <2>1, <2>5, <2>6
  <2> QED
    BY <2>4, <2>7 DEF m
<1>15. Good(r, H, q)
  BY <1>2, <1>12, <1>13 DEF Good
<1> QED
  BY <1>14, <1>15 DEF Becomes, r

LEMMA InsertSets ==
    ASSUME NEW h, NEW H, NEW s, Good(h, H, s), NEW k \in TableKeys, NEW v \in TableValues,
           H[k] \in Nat, \A i \in 1 .. Len(h.list) : h.list[i].key # k,
           NEW p, p = [key |-> k, hash |-> H[k], serial |-> h.serial, value |-> v],
           NEW r, r = Counted(Table!insert_to_bucket(h, p))
    PROVE  Becomes(H, s, r, Maps!Set(MapOf(s), k, v))
<1> DEFINE l == h.list
           g == Table!insert_to_bucket(h, p)
           q == Append(s, p)
<1>1. /\ Sound(h) /\ Order(h, s) /\ h \in Tables
      /\ \A x \in ToSet(l) : x.hash = H[x.key] /\ x.serial < h.serial
  BY DEF Good, Sound
<1>2. /\ l \in Seq(Pair) /\ DOMAIN l = 1 .. Len(l) /\ Len(l) \in Nat /\ h.serial \in Nat
      /\ s \in Seq(Pair) /\ Len(s) = Len(l) /\ ToSet(s) = ToSet(l) /\ Ascends(s)
  BY <1>1, TableFields DEF Order
<1>3. DOMAIN s = 1 .. Len(s) /\ \A a \in 1 .. Len(s) : s[a] \in Pair
  BY <1>1, OrderKeys
<1>4. p \in Pair /\ p.key = k /\ p.hash = H[k] /\ p.serial = h.serial /\ p.value = v
  BY <1>2 DEF Pair
<1>5. Grew(h, g, p)
  BY <1>1, <1>4, InsertKeepsSound
<1> HIDE DEF g
<1>6. g \in Tables /\ g.serial = h.serial
  BY <1>5 DEF Grew, Sound
<1>7. /\ r \in Tables /\ r.hashsize = g.hashsize /\ r.serial = h.serial + 1
      /\ r.list = g.list /\ r.first = g.first /\ r.last = g.last
  <2>1. r = Counted(g)
    BY DEF g
  <2> QED
    BY <1>6, <2>1, CountSerial
<1>8. /\ Sound(r) /\ Len(r.list) = Len(l) + 1 /\ ToSet(r.list) = ToSet(l) \cup {p}
  BY <1>5, <1>7 DEF Grew, Sound
<1>9. /\ q \in Seq(Pair) /\ Len(q) = Len(s) + 1
      /\ \A a \in 1 .. Len(s) : q[a] = s[a]
      /\ q[Len(s) + 1] = p /\ ToSet(q) = ToSet(s) \cup {p}
  BY <1>2, <1>4, AppendContents
<1> HIDE DEF q, l
<1>10. \A a \in 1 .. Len(s) : s[a].serial < h.serial /\ s[a].key # k /\ s[a].serial \in Nat
  <2>1. ASSUME NEW a \in 1 .. Len(s) PROVE s[a].serial < h.serial /\ s[a].key # k
    <3>1. s[a] \in ToSet(l)
      BY <1>2, <1>3 DEF ToSet
    <3>2. PICK i \in 1 .. Len(l) : s[a] = l[i]
      BY <1>2, <3>1 DEF ToSet
    <3> QED
      BY <1>1, <3>1, <3>2 DEF l
  <2>2. \A a \in 1 .. Len(s) : s[a].serial \in Nat
    BY <1>3 DEF Pair
  <2> QED
    BY <2>1, <2>2
<1>11. Ascends(q)
  <2> SUFFICES ASSUME NEW a \in 1 .. Len(q), NEW b \in 1 .. Len(q), a < b
               PROVE  q[a].serial < q[b].serial
    BY DEF Ascends
  <2>1. a \in 1 .. Len(s) /\ q[a] = s[a]
    BY <1>2, <1>9
  <2>2. CASE b \in 1 .. Len(s)
    BY <1>2, <1>9, <2>1, <2>2 DEF Ascends
  <2>3. CASE b = Len(s) + 1
    BY <1>4, <1>9, <1>10, <2>1, <2>3
  <2>4. b \in 1 .. Len(s) \/ b = Len(s) + 1
    BY <1>2, <1>9
  <2> QED
    BY <2>2, <2>3, <2>4
<1>12. \A x \in ToSet(r.list) : x.hash = H[x.key] /\ x.serial < r.serial
  <2>1. ASSUME NEW x \in ToSet(l) PROVE x.hash = H[x.key] /\ x.serial < h.serial + 1
    <3>1. x \in Pair /\ x.serial < h.serial
      BY <1>1, <1>2, ElementOfSeq DEF ToSet
    <3> QED
      BY <1>1, <1>2, <3>1 DEF Pair
  <2>2. p.hash = H[p.key] /\ p.serial < h.serial + 1
    BY <1>2, <1>4
  <2> QED
    BY <1>7, <1>8, <2>1, <2>2
<1>13. Good(r, H, q)
  BY <1>2, <1>8, <1>9, <1>11, <1>12 DEF Good, Order
<1>14. MapOf(q) = Maps!Set(MapOf(s), k, v)
  <2> DEFINE m == MapOf(s)
             x == [key |-> k, value |-> v]
  <2>1. /\ Len(s) \in Nat /\ Len(q) = Len(s) + 1 /\ Len(q) \in Nat
    BY <1>2, <1>9
  <2>2. /\ Len(m) = Len(s) /\ DOMAIN m = 1 .. Len(s)
        /\ \A a \in 1 .. Len(s) : /\ m[a] = [key |-> s[a].key, value |-> s[a].value]
                                 /\ m[a].key = s[a].key
        /\ m = [a \in 1 .. Len(s) |-> m[a]]
    <3>1. m = [a \in 1 .. Len(s) |-> m[a]]
      BY DEF MapOf
    <3> QED
      BY <2>1, <3>1, MapOfIs
  <2> HIDE DEF m
  <2>3. ~ Maps!Has(m, k)
    BY <1>10, <2>2 DEF Maps!Has
  <2>4. Maps!Set(m, k, v) = Append(m, x)
    BY <2>3 DEF Maps!Set
  <2> DEFINE V == {m[a] : a \in 1 .. Len(s)} \cup {x}
  <2>5. m \in Seq(V) /\ x \in V
    <3>1. m \in [1 .. Len(s) -> V]
      BY <2>2
    <3> HIDE DEF V
    <3>2. m \in Seq(V)
      BY <2>1, <3>1, FunctionIsSeq
    <3> QED
      BY <3>2 DEF V
  <2> HIDE DEF V
  <2>6. /\ Append(m, x) \in Seq(V) /\ Len(Append(m, x)) = Len(s) + 1
        /\ \A a \in 1 .. Len(s) : Append(m, x)[a] = m[a]
        /\ Append(m, x)[Len(s) + 1] = x
    <3> HIDE DEF x
    <3> QED
      BY <2>2, <2>5, AppendProperties
  <2>7. Append(m, x) = [a \in 1 .. Len(s) + 1 |-> Append(m, x)[a]]
    BY <2>6, SeqDef
  <2>8. ASSUME NEW a \in 1 .. Len(s) + 1
        PROVE  Append(m, x)[a] = [key |-> q[a].key, value |-> q[a].value]
    <3>1. CASE a \in 1 .. Len(s)
      BY <1>9, <2>2, <2>6, <3>1
    <3>2. CASE a = Len(s) + 1
      BY <1>4, <1>9, <2>6, <3>2
    <3>3. a \in 1 .. Len(s) \/ a = Len(s) + 1
      BY <2>1
    <3> QED
      BY <3>1, <3>2, <3>3
  <2>9. MapOf(q) = [a \in 1 .. Len(s) + 1 |-> [key |-> q[a].key, value |-> q[a].value]]
    BY <2>1 DEF MapOf
  <2> HIDE DEF x
  <2>10. MapOf(q) = Append(m, x)
    BY <2>7, <2>8, <2>9
  <2> QED
    BY <2>4, <2>10 DEF m
<1> QED
  BY <1>13, <1>14 DEF Becomes

LEMMA RehashStaysGood ==
    ASSUME NEW h, NEW H, NEW s, Good(h, H, s), NEW r, r = Table!hashtable_do_rehash(h)
    PROVE  Good(r, H, s) /\ r.serial = h.serial
<1>1. /\ Sound(r) /\ r.serial = h.serial
      /\ Len(r.list) = Len(h.list) /\ ToSet(r.list) = ToSet(h.list)
  BY RehashKeepsSound DEF Good
<1> QED
  BY <1>1 DEF Good, Order

LEMMA SerialStaysGood ==
    ASSUME NEW h, NEW H, NEW s, Good(h, H, s),
           NEW r, r = Counted(h)
    PROVE  Good(r, H, s)
<1>1. h \in Tables /\ h.serial \in Nat
  BY TableFields DEF Good, Sound
<1>2. /\ r \in Tables /\ r.hashsize = h.hashsize /\ r.serial = h.serial + 1
      /\ r.list = h.list /\ r.first = h.first /\ r.last = h.last
  BY <1>1, CountSerial
<1>3. \A x \in ToSet(h.list) : x.serial \in Nat
  BY <1>1, TableFields DEF ToSet, Pair
<1>4. \A x \in ToSet(r.list) : x.hash = H[x.key] /\ x.serial < r.serial
  BY <1>1, <1>2, <1>3 DEF Good
<1> QED
  BY <1>2, <1>4 DEF Good, Sound, Order

\* hashtable_set with the serial used up, whether the key is there or not.
LEMMA SetSets ==
    ASSUME NEW h, NEW s, hashtable_seed \in Seeds, NEW H, H = hashlittle[hashtable_seed],
           Good(h, H, s), NEW k \in TableKeys, NEW v \in TableValues,
           NEW r, r = Counted(Table!hashtable_set(h, k, v))
    PROVE  Becomes(H, s, r, Maps!Set(MapOf(s), k, v))
<1> DEFINE g == IF Len(h.list) >= h.hashsize THEN Table!hashtable_do_rehash(h) ELSE h
           x == Table!hashtable_find_pair(g, k, H[k])
           p == [key |-> k, hash |-> H[k], serial |-> h.serial, value |-> v]
           new == IF x > 0 THEN [g EXCEPT !.list[x].value = v]
                  ELSE Table!insert_to_bucket(g, p)
<1>1. H \in [TableKeys -> Nat] /\ Table!hash_str(k) = H[k]
  BY ValuesAssumption DEF Table!TableAssumption, Table!hash_str
<1>2. Table!hashtable_set(h, k, v) = new
  BY <1>1 DEF Table!hashtable_set
<1>3. Good(g, H, s) /\ g.serial = h.serial
  BY RehashStaysGood
<1> HIDE DEF g
<1>4. Sound(g) /\ g \in Tables
  BY <1>3 DEF Good, Sound
<1>5. \A i \in 1 .. Len(g.list) : g.list[i].key = k => g.list[i].hash = H[k]
  BY <1>3, <1>4, TableFields DEF Good, ToSet
<1>6. /\ x \in 0 .. Len(g.list)
      /\ x > 0 => g.list[x].key = k
      /\ x = 0 => \A i \in 1 .. Len(g.list) : g.list[i].key # k
  BY <1>1, <1>4, <1>5, FindsPair
<1> HIDE DEF x
<1>7. CASE x > 0
  <2>1. new = Valued(g, x, v) /\ x \in 1 .. Len(g.list) /\ k = g.list[x].key
    BY <1>6, <1>7 DEF Valued
  <2>2. Becomes(H, s, Valued(g, x, v), Maps!Set(MapOf(s), k, v))
    BY <1>3, <2>1, ValueSets
  <2>3. PICK q : Good(Valued(g, x, v), H, q) /\ MapOf(q) = Maps!Set(MapOf(s), k, v)
    BY <2>2 DEF Becomes
  <2>4. r = Counted(Valued(g, x, v))
    BY <1>2, <2>1
  <2>5. Good(r, H, q)
    BY <2>3, <2>4, SerialStaysGood
  <2> QED
    BY <2>3, <2>5 DEF Becomes
<1>8. CASE x = 0
  <2>1. r = Counted(Table!insert_to_bucket(g, p))
    BY <1>2, <1>8
  <2>2. p = [key |-> k, hash |-> H[k], serial |-> g.serial, value |-> v] /\ H[k] \in Nat
    BY <1>1, <1>3
  <2> HIDE DEF p
  <2> QED
    BY <1>3, <1>6, <1>8, <2>1, <2>2, InsertSets
<1>9. Len(g.list) \in Nat
  BY <1>4, TableFields
<1> QED
  BY <1>6, <1>7, <1>8, <1>9

LEMMA DelRemoves ==
    ASSUME NEW h, NEW H, NEW s, Good(h, H, s), NEW i \in 1 .. Len(h.list),
           NEW r, r = Table!hashtable_do_del(h, i)
    PROVE  \E j \in 1 .. Len(MapOf(s)) : Becomes(H, s, r, Maps!RemoveAt(MapOf(s), j))
<1> DEFINE l == h.list
           p == l[i]
<1>1. /\ Sound(h) /\ Order(h, s) /\ h \in Tables /\ KeysDiffer(l)
      /\ \A x \in ToSet(l) : x.hash = H[x.key] /\ x.serial < h.serial
  BY DEF Good, Sound
<1>2. Sound(r) /\ r.serial = h.serial /\ Removed(l, r.list, i)
  BY <1>1, DelKeepsSound
<1>3. /\ l \in Seq(Pair) /\ Len(l) \in Nat
      /\ s \in Seq(Pair) /\ Len(s) = Len(l) /\ ToSet(s) = ToSet(l) /\ Ascends(s)
  BY <1>1, TableFields DEF Order
<1>4. PICK j \in 1 .. Len(s) : s[j] = p
  BY <1>1, PlaceInOrder
<1> DEFINE q == Table!RemoveAt(s, j)
<1>5. KeysDiffer(s)
  BY <1>1, OrderKeys
<1>6. Removed(s, q, j)
  BY <1>3, RemovesAt
<1> HIDE DEF q
<1>7. ToSet(q) = ToSet(s) \ {p}
  BY <1>3, <1>4, <1>5, <1>6, RemovedKeys
<1>8. ToSet(r.list) = ToSet(l) \ {p}
  <2> HIDE DEF l
  <2>1. i \in 1 .. Len(l)
    BY DEF l
  <2> QED
    BY <1>1, <1>2, <1>3, <2>1, RemovedKeys
<1> DEFINE old(a) == IF a < j THEN a ELSE a + 1
<1>9. /\ q \in Seq(Pair) /\ Len(q) = Len(s) - 1 /\ Len(q) \in Nat
      /\ \A a \in 1 .. Len(q) : old(a) \in 1 .. Len(s) /\ q[a] = s[old(a)]
  <2>1. q \in Seq(Pair) /\ Len(q) = Len(s) - 1 /\ Len(q) \in Nat
    BY <1>3, <1>6 DEF Removed
  <2>2. ASSUME NEW a \in 1 .. Len(q) PROVE old(a) \in 1 .. Len(s) /\ q[a] = s[old(a)]
    BY <1>3, <1>6, <2>1 DEF Removed
  <2> QED
    BY <2>1, <2>2
<1>10. Ascends(q)
  <2> SUFFICES ASSUME NEW a \in 1 .. Len(q), NEW b \in 1 .. Len(q), a < b
               PROVE  q[a].serial < q[b].serial
    BY DEF Ascends
  <2>1. old(a) < old(b)
    OBVIOUS
  <2>2. /\ old(a) \in 1 .. Len(s) /\ q[a] = s[old(a)]
        /\ old(b) \in 1 .. Len(s) /\ q[b] = s[old(b)]
    BY <1>9
  <2> HIDE DEF old
  <2> QED
    BY <1>3, <2>1, <2>2 DEF Ascends
<1>11. Good(r, H, q)
  <2>1. Len(r.list) = Len(l) - 1
    BY <1>2 DEF Removed
  <2>2. Order(r, q)
    BY <1>3, <1>7, <1>8, <1>9, <1>10, <2>1 DEF Order
  <2> QED
    BY <1>1, <1>2, <1>8, <2>2 DEF Good
<1>12. /\ j \in 1 .. Len(MapOf(s))
       /\ MapOf(q) = Maps!RemoveAt(MapOf(s), j)
  <2> DEFINE m == MapOf(s)
             V == {m[a] : a \in 1 .. Len(s)}
             d == RemoveAt(m, j)
  <2>1. /\ Len(s) \in Nat /\ m \in Seq(V) /\ Len(m) = Len(s)
        /\ \A a \in 1 .. Len(s) : m[a] = [key |-> s[a].key, value |-> s[a].value]
    BY <1>3, MapOfIs
  <2> HIDE DEF m, V
  <2>2. /\ d \in Seq(V) /\ Len(d) = Len(s) - 1
        /\ \A a \in 1 .. Len(s) - 1 : d[a] = IF a < j THEN m[a] ELSE m[a + 1]
    BY <2>1, RemoveAtProperties
  <2> HIDE DEF d
  <2>3. d = [a \in 1 .. Len(q) |-> d[a]]
    BY <1>9, <2>2, SeqDef
  <2>4. ASSUME NEW a \in 1 .. Len(q)
        PROVE  d[a] = [key |-> q[a].key, value |-> q[a].value]
    <3>1. d[a] = m[old(a)]
      BY <1>9, <2>2
    <3>2. old(a) \in 1 .. Len(s) /\ q[a] = s[old(a)]
      BY <1>9
    <3> HIDE DEF old
    <3> QED
      BY <2>1, <3>1, <3>2
  <2>5. MapOf(q) = d
    BY <2>3, <2>4 DEF MapOf
  <2>6. Maps!RemoveAt(m, j) = d
    BY DEF Maps!RemoveAt, RemoveAt, d
  <2> QED
    BY <2>1, <2>5, <2>6 DEF m
<1> QED
  BY <1>11, <1>12 DEF Becomes

\* hashtable_clear, with the serial at 0 again.
Cleared(h, none) ==
    [h EXCEPT !.list = <<>>, !.first = none, !.last = none, !.serial = 0]

LEMMA ClearedTable ==
    ASSUME NEW h \in Tables, NEW m, m = h.hashsize,
           NEW none \in [0 .. m - 1 -> Ends],
           NEW r, r = Cleared(h, none)
    PROVE  /\ r \in Tables /\ r.hashsize = m
           /\ r.list = <<>> /\ r.first = none /\ r.last = none
<1>1. PICK q \in Positive :
        h \in [hashsize : {q}, serial : Nat, list : Seq(Pair),
               first : [0 .. q - 1 -> Ends], last : [0 .. q - 1 -> Ends]]
  BY DEF Tables
<1>2. <<>> \in Seq(Pair)
  OBVIOUS
<1>3. m = q
  BY <1>1
<1>4. none \in [0 .. q - 1 -> Ends]
  BY <1>3
<1>5. /\ r \in [hashsize : {q}, serial : Nat, list : Seq(Pair),
                first : [0 .. q - 1 -> Ends], last : [0 .. q - 1 -> Ends]]
      /\ r.hashsize = q /\ r.list = <<>> /\ r.first = none /\ r.last = none
  BY <1>1, <1>2, <1>4 DEF Cleared
<1> QED
  BY <1>3, <1>5 DEF Tables

Wiped(h) == [Table!hashtable_clear(h) EXCEPT !.serial = 0]

LEMMA ClearEmpties ==
    ASSUME NEW h, NEW H, NEW s, Good(h, H, s), NEW r, r = Wiped(h)
    PROVE  Becomes(H, s, r, <<>>)
<1> PICK m, none : m = h.hashsize /\ none = Table!NoPairs(m)
  OBVIOUS
<1>1. h \in Tables /\ h.hashsize \in Positive
  BY TableFields DEF Good, Sound
<1>2. none \in [0 .. m - 1 -> Ends]
  BY DEF Table!NoPairs, Ends
<1>3. r = Cleared(h, none)
  BY <1>1 DEF Table!hashtable_clear, Tables, Cleared, Wiped
<1>5. /\ r \in Tables /\ r.hashsize = m
      /\ r.list = <<>> /\ r.first = none /\ r.last = none
  BY <1>1, <1>2, <1>3, ClearedTable
<1>7. Sound(r) /\ Len(r.list) = 0 /\ ToSet(r.list) = {}
  BY <1>5, NoPairsSound
<1>8. Order(r, <<>>)
  BY <1>7 DEF Order, Ascends, ToSet
<1>9. MapOf(<<>>) = <<>>
  BY DEF MapOf
<1> QED
  BY <1>7, <1>8, <1>9 DEF Good, Becomes

\* A new object.
LEMMA InitIsGood ==
    ASSUME NEW H
    PROVE  /\ Good(Table!hashtable_init, H, <<>>) /\ MapOf(<<>>) = <<>>
           /\ Len(Table!hashtable_init.list) = 0
<1> DEFINE r == Table!hashtable_init
           none == Table!NoPairs(InitialSize)
<1>1. InitialSize \in Positive
  BY ValuesAssumption DEF Table!TableAssumption, Positive
<1>2. none \in [0 .. InitialSize - 1 -> Ends]
  BY DEF Table!NoPairs, Ends
<1>3. r = [hashsize |-> InitialSize, serial |-> 0, list |-> <<>>,
           first |-> none, last |-> none]
  BY DEF Table!hashtable_init
<1> HIDE DEF none, r
<1>4. /\ r \in [hashsize : {InitialSize}, serial : Nat, list : Seq(Pair),
                first : [0 .. InitialSize - 1 -> Ends], last : [0 .. InitialSize - 1 -> Ends]]
      /\ r.hashsize = InitialSize /\ r.list = <<>> /\ r.first = none /\ r.last = none
  BY <1>2, <1>3
<1>5. r \in Tables
  BY <1>1, <1>4 DEF Tables
<1>6. Sound(r) /\ Len(r.list) = 0 /\ ToSet(r.list) = {}
  BY <1>4, <1>5, NoPairsSound DEF none
<1>7. Order(r, <<>>)
  BY <1>6 DEF Order, Ascends, ToSet
<1>8. MapOf(<<>>) = <<>>
  BY DEF MapOf
<1> QED
  BY <1>6, <1>7, <1>8 DEF Good, r

-----------------------------------------------------------------------------
(* The seed is drawn once, before any object gets its first pair.          *)

Uses(t) == seeding[t] = "use"
Stores(t) == seeding[t] = "store"

SeedOnce ==
    /\ hashtable_seed \in Seeds \cup {0}
    /\ seeding \in [JsonThreads -> {"object", "seed", "store", "wait", "use"}]
    /\ \A t \in JsonThreads : Uses(t) => hashtable_seed # 0
    /\ \A t \in JsonThreads : Stores(t) => hashtable_seed = 0 /\ seed_initialized
    /\ \A t, u \in JsonThreads : Stores(t) /\ Stores(u) => t = u

AllGood ==
    /\ table \in [JsonThreads -> Tables]
    /\ \A t \in JsonThreads :
         /\ ~ Uses(t) => table[t] = Table!hashtable_init
         /\ Uses(t) => \E s : Good(table[t], hashlittle[hashtable_seed], s)

TablesOK == SeedOnce /\ AllGood

\* Dumped with the seed that stays.
LEMMA SameSeed ==
    ASSUME hashtable_seed' = hashtable_seed
    PROVE  Table!members' = [t \in JsonThreads |-> Table!Dumped(table'[t])]
BY DEF Table!members, Table!Dumped, Table!json_object_get, Table!hash_str

\* One step of a thread with its object.
LEMMA UseStep ==
    ASSUME TablesOK, NEW t \in JsonThreads, Table!Use(t), NEW r,
           table' = [table EXCEPT ![t] = r],
           NEW H, H = hashlittle[hashtable_seed],
           \A s : Good(table[t], H, s) => \E m \in Maps!Change(MapOf(s)) : Becomes(H, s, r, m)
    PROVE  TablesOK' /\ Maps!Next
<1>1. /\ hashtable_seed' = hashtable_seed /\ seed_initialized' = seed_initialized
      /\ seeding' = seeding /\ Uses(t)
  BY DEF Table!Use, Uses
<1>2. hashtable_seed \in Seeds
  BY <1>1 DEF TablesOK, SeedOnce
<1>3. PICK s : Good(table[t], H, s)
  BY <1>1 DEF TablesOK, AllGood
<1>4. PICK m \in Maps!Change(MapOf(s)) : Becomes(H, s, r, m)
  BY <1>3
<1>5. PICK q : Good(r, H, q) /\ MapOf(q) = m
  BY <1>4 DEF Becomes
<1>6. /\ table \in [JsonThreads -> Tables] /\ r \in Tables
      /\ table' \in [JsonThreads -> Tables] /\ table'[t] = r
      /\ \A u \in JsonThreads \ {t} : table'[u] = table[u]
  BY <1>5 DEF TablesOK, AllGood, Good, Sound
<1>7. TablesOK'
  <2>1. SeedOnce'
    BY <1>1 DEF TablesOK, SeedOnce, Uses, Stores
  <2>2. ASSUME NEW u \in JsonThreads
        PROVE  /\ ~ Uses(u) => table'[u] = Table!hashtable_init
               /\ Uses(u) => \E x : Good(table'[u], H, x)
    <3>1. CASE u = t
      BY <1>1, <1>5, <1>6, <3>1
    <3>2. CASE u # t
      BY <1>6, <3>2 DEF TablesOK, AllGood
    <3> QED
      BY <3>1, <3>2
  <2>3. AllGood'
    BY <1>1, <1>6, <2>2 DEF AllGood, Uses
  <2> QED
    BY <2>1, <2>3 DEF TablesOK
<1>8. /\ Table!Dumped(table[t]) = MapOf(s) /\ Table!Dumped(r) = m
  BY <1>2, <1>3, <1>5, DumpedIs
<1>9. Table!members' = [u \in JsonThreads |-> Table!Dumped(table'[u])]
  BY <1>1, SameSeed
<1>10. Table!members = [u \in JsonThreads |-> Table!Dumped(table[u])]
  BY DEF Table!members
<1>11. /\ DOMAIN Table!members' = JsonThreads
       /\ \A u \in JsonThreads \ {t} : Table!members'[u] = Table!members[u]
       /\ Table!members'[t] \in Maps!Change(Table!members[t])
  <2>1. DOMAIN Table!members' = JsonThreads
    BY <1>9
  <2>2. \A u \in JsonThreads \ {t} : Table!members'[u] = Table!members[u]
    BY <1>6, <1>9, <1>10
  <2>3. Table!members'[t] = m /\ Table!members[t] = MapOf(s)
    BY <1>6, <1>8, <1>9, <1>10
  <2> QED
    BY <1>4, <2>1, <2>2, <2>3
<1>12. Maps!Next
  BY <1>11 DEF Maps!Next
<1> QED
  BY <1>7, <1>12

LEMMA TablesStep ==
    ASSUME Interlocked, TablesOK, [Table!Next]_Table!vars
    PROVE  TablesOK' /\ (Maps!Next \/ Table!members' = Table!members)
<1>1. SeedOnce /\ AllGood
  BY DEF TablesOK
<1>2. ASSUME table' = table, hashtable_seed' = hashtable_seed
      PROVE  Table!members' = Table!members
  BY <1>2, SameSeed DEF Table!members
<1>3. CASE UNCHANGED Table!vars
  <2>1. /\ hashtable_seed' = hashtable_seed /\ seed_initialized' = seed_initialized
        /\ seeding' = seeding /\ table' = table
    BY <1>3 DEF Table!vars
  <2>2. TablesOK'
    BY <1>1, <2>1 DEF TablesOK, SeedOnce, AllGood, Uses, Stores
  <2> QED
    BY <1>2, <2>1, <2>2
\* A thread that goes on without touching the seed.
<1>4. ASSUME NEW t \in JsonThreads, NEW to \in {"seed", "wait", "use"}, ~ Uses(t),
             seeding' = [seeding EXCEPT ![t] = to], to = "use" => hashtable_seed # 0,
             hashtable_seed' = hashtable_seed, table' = table,
             seed_initialized => seed_initialized'
      PROVE  TablesOK' /\ Table!members' = Table!members
  <2>1. /\ seeding' \in [JsonThreads -> {"object", "seed", "store", "wait", "use"}]
        /\ seeding'[t] = to /\ \A u \in JsonThreads : u # t => seeding'[u] = seeding[u]
    BY <1>1, <1>4 DEF SeedOnce
  <2>2. SeedOnce'
    BY <1>1, <1>4, <2>1 DEF SeedOnce, Uses, Stores
  <2>3. ASSUME NEW u \in JsonThreads
        PROVE  /\ ~ Uses(u)' => table[u] = Table!hashtable_init
               /\ Uses(u)' => \E s : Good(table[u], hashlittle[hashtable_seed], s)
    <3>1. CASE u = t
      BY <1>1, <1>4, <3>1, InitIsGood DEF AllGood
    <3>2. CASE u # t
      BY <1>1, <2>1, <3>2 DEF AllGood, Uses
    <3> QED
      BY <3>1, <3>2
  <2>4. AllGood'
    BY <1>1, <1>4, <2>3 DEF AllGood
  <2> QED
    BY <1>2, <1>4, <2>2, <2>4 DEF TablesOK
<1>5. ASSUME NEW t \in JsonThreads, Table!json_object(t)
      PROVE  TablesOK' /\ Table!members' = Table!members
  <2>1. PICK to \in {"seed", "use"} :
          /\ seeding' = [seeding EXCEPT ![t] = to]
          /\ to = "use" => hashtable_seed # 0
    BY <1>5 DEF Table!json_object, Table!Goto
  <2>2. /\ ~ Uses(t) /\ hashtable_seed' = hashtable_seed /\ table' = table
        /\ seed_initialized' = seed_initialized
    BY <1>5 DEF Table!json_object, Uses
  <2>3. seed_initialized => seed_initialized'
    BY <2>2
  <2>4. to \in {"seed", "wait", "use"} /\ (to = "use" => hashtable_seed # 0)
    BY <2>1
  <2> QED
    BY <1>4, <2>1, <2>2, <2>3, <2>4
<1>6. ASSUME NEW t \in JsonThreads, Table!waitForSeed(t)
      PROVE  TablesOK' /\ Table!members' = Table!members
  <2>1. /\ ~ Uses(t) /\ hashtable_seed' = hashtable_seed /\ table' = table
        /\ seed_initialized' = seed_initialized /\ hashtable_seed # 0
        /\ seeding' = [seeding EXCEPT ![t] = "use"]
    BY <1>6 DEF Table!waitForSeed, Table!Goto, Uses
  <2> QED
    BY <1>4, <2>1
<1>7. ASSUME NEW t \in JsonThreads, Table!json_object_seed(t)
      PROVE  TablesOK' /\ Table!members' = Table!members
  <2>1. /\ ~ Uses(t) /\ ~ Stores(t) /\ hashtable_seed' = hashtable_seed /\ table' = table
    BY <1>7 DEF Table!json_object_seed, Uses, Stores
  <2>2. CASE hashtable_seed # 0
    <3>1. seeding' = [seeding EXCEPT ![t] = "use"] /\ seed_initialized' = seed_initialized
      BY <1>7, <2>2 DEF Table!json_object_seed, Table!Goto
    <3> QED
      BY <1>4, <2>1, <2>2, <3>1
  <2>3. CASE hashtable_seed = 0 /\ seed_initialized
    <3>1. seeding' = [seeding EXCEPT ![t] = "wait"] /\ seed_initialized' = TRUE
      BY <1>7, <2>3 DEF Table!json_object_seed, Table!Goto
    <3> QED
      BY <1>4, <2>1, <3>1
  <2>4. CASE hashtable_seed = 0 /\ ~ seed_initialized
    <3>1. seeding' = [seeding EXCEPT ![t] = "store"] /\ seed_initialized' = TRUE
      BY <1>7, <2>4 DEF Table!json_object_seed, Table!Goto
    <3>2. \A u \in JsonThreads : ~ Stores(u) /\ ~ Uses(u)
      BY <1>1, <2>4 DEF SeedOnce
    <3>3. /\ seeding' \in [JsonThreads -> {"object", "seed", "store", "wait", "use"}]
          /\ seeding'[t] = "store"
          /\ \A u \in JsonThreads : u # t => seeding'[u] = seeding[u]
      BY <1>1, <3>1 DEF SeedOnce
    <3>4. \A u \in JsonThreads : ~ Uses(u)' /\ (Stores(u)' => u = t)
      BY <3>2, <3>3 DEF Uses, Stores
    <3>5. SeedOnce'
      BY <1>1, <2>1, <2>4, <3>1, <3>3, <3>4 DEF SeedOnce
    <3>6. AllGood'
      BY <1>1, <2>1, <3>2, <3>4 DEF AllGood
    <3> QED
      BY <1>2, <2>1, <3>5, <3>6 DEF TablesOK
  <2> QED
    BY <2>2, <2>3, <2>4
<1>8. ASSUME NEW t \in JsonThreads, Table!storeSeed(t)
      PROVE  TablesOK' /\ Table!members' = Table!members
  <2>1. /\ Stores(t) /\ hashtable_seed' \in Seeds /\ table' = table
        /\ seed_initialized' = seed_initialized
        /\ seeding' = [seeding EXCEPT ![t] = "use"]
    BY <1>8 DEF Table!storeSeed, Table!Goto, Stores
  <2>2. hashtable_seed = 0 /\ hashtable_seed' # 0 /\ \A u \in JsonThreads : ~ Uses(u)
    BY <1>1, <2>1, ValuesAssumption DEF SeedOnce, Table!TableAssumption
  <2>3. /\ seeding' \in [JsonThreads -> {"object", "seed", "store", "wait", "use"}]
        /\ seeding'[t] = "use"
        /\ \A u \in JsonThreads : u # t => seeding'[u] = seeding[u]
    BY <1>1, <2>1 DEF SeedOnce
  <2>4. \A u \in JsonThreads : ~ Stores(u)'
    BY <1>1, <2>1, <2>3 DEF SeedOnce, Stores
  <2>5. SeedOnce'
    BY <2>1, <2>2, <2>3, <2>4 DEF SeedOnce
  <2>6. \A u \in JsonThreads : table[u] = Table!hashtable_init
    BY <1>1, <2>2 DEF AllGood
  <2>7. AllGood'
    <3> DEFINE H == hashlittle[hashtable_seed]'
    <3> HIDE DEF H
    <3>1. Good(Table!hashtable_init, H, <<>>)
      BY InitIsGood
    <3>2. table' \in [JsonThreads -> Tables]
      BY <1>1, <2>1 DEF AllGood
    <3> QED
      BY <2>1, <2>6, <3>1, <3>2 DEF AllGood, H
  <2>8. Table!members' = Table!members
    <3>1. \A u \in JsonThreads : table'[u].list = table[u].list /\ Len(table[u].list) = 0
      BY <2>1, <2>6, InitIsGood
    <3>2. \A u \in JsonThreads : Table!Dumped(table[u]) = <<>>
      BY <3>1 DEF Table!Dumped, Table!json_object_size
    <3>3. \A u \in JsonThreads : Table!Dumped(table[u])' = <<>>
      BY <3>1 DEF Table!Dumped, Table!json_object_size
    <3> QED
      BY <3>2, <3>3 DEF Table!members
  <2> QED
    BY <2>5, <2>7, <2>8 DEF TablesOK
<1> DEFINE H == hashlittle[hashtable_seed]
<1>9. ASSUME NEW t \in JsonThreads, Table!Use(t)
      PROVE  /\ hashtable_seed \in Seeds /\ H \in [TableKeys -> Nat]
             /\ \A k \in TableKeys : Table!hash_str(k) = H[k] /\ H[k] \in Nat
  <2>1. hashtable_seed \in Seeds
    BY <1>1, <1>9 DEF SeedOnce, Uses, Table!Use
  <2>2. H \in [TableKeys -> Nat]
    BY <2>1, ValuesAssumption DEF Table!TableAssumption
  <2> QED
    BY <2>1, <2>2 DEF Table!hash_str
<1>10. ASSUME NEW t \in JsonThreads PROVE KeysOf[t] \subseteq TableKeys
  BY ValuesAssumption DEF Table!TableAssumption
\* What a thread finds in its table.
<1>11. ASSUME NEW t \in JsonThreads, Table!Use(t), NEW k \in TableKeys, NEW s,
              Good(table[t], H, s),
              NEW x, x = Table!hashtable_find_pair(table[t], k, Table!hash_str(k))
       PROVE  /\ x \in 0 .. Len(table[t].list)
              /\ x > 0 => table[t].list[x].key = k /\ x \in 1 .. Len(table[t].list)
              /\ KeysDiffer(table[t].list)
  <2> DEFINE h == table[t]
  <2>1. /\ Sound(h) /\ h \in Tables /\ KeysDiffer(h.list)
        /\ \A p \in ToSet(h.list) : p.hash = H[p.key]
    BY <1>11 DEF Good, Sound
  <2>2. \A i \in 1 .. Len(h.list) : h.list[i].key = k => h.list[i].hash = H[k]
    BY <2>1, TableFields DEF ToSet
  <2>3. H[k] \in Nat /\ x = Table!hashtable_find_pair(h, k, H[k])
    BY <1>9, <1>11
  <2> HIDE DEF h, H
  <2>4. x \in 0 .. Len(h.list) /\ (x > 0 => h.list[x].key = k)
    BY <2>1, <2>2, <2>3, FindsPair
  <2> QED
    BY <2>1, <2>4 DEF h
<1>12. ASSUME NEW t \in JsonThreads, NEW k \in KeysOf[t], NEW v \in TableValues,
              Table!json_object_set_new(t, k, v)
       PROVE  TablesOK' /\ Maps!Next
  <2> DEFINE r == Counted(Table!hashtable_set(table[t], k, v))
  <2>1. Table!Use(t) /\ table' = [table EXCEPT ![t] = r]
    BY <1>12 DEF Table!json_object_set_new, Counted
  <2>2. k \in TableKeys /\ hashtable_seed \in Seeds
    BY <1>9, <1>10, <2>1
  <2> HIDE DEF H, r
  <2>3. ASSUME NEW s, Good(table[t], H, s)
        PROVE  \E m \in Maps!Change(MapOf(s)) : Becomes(H, s, r, m)
    <3>1. Becomes(H, s, r, Maps!Set(MapOf(s), k, v))
      BY <2>2, <2>3, SetSets DEF H, r
    <3>2. Maps!Set(MapOf(s), k, v) \in Maps!Change(MapOf(s))
      BY <2>2 DEF Maps!Change
    <3> QED
      BY <3>1, <3>2
  <2> QED
    BY <2>1, <2>3, UseStep DEF H
<1>13. ASSUME NEW t \in JsonThreads, NEW k \in KeysOf[t], NEW v \in TableValues,
              Table!json_object_iter_set_new(t, k, v)
       PROVE  TablesOK' /\ Maps!Next
  <2> DEFINE h == table[t]
             x == Table!hashtable_find_pair(h, k, Table!hash_str(k))
             iter == Table!hashtable_iter_at(h, k)
             r == Table!hashtable_iter_set(h, iter, v)
  <2>1. Table!Use(t) /\ table' = [table EXCEPT ![t] = r] /\ iter # ListHead
    BY <1>13 DEF Table!json_object_iter_set_new
  <2>2. k \in TableKeys
    BY <1>10
  <2>3. iter = IF x = 0 THEN ListHead ELSE h.list[x].key
    BY DEF Table!hashtable_iter_at
  <2> HIDE DEF H
  <2>4. ASSUME NEW s, Good(h, H, s)
        PROVE  \E m \in Maps!Change(MapOf(s)) : Becomes(H, s, r, m)
    <3> HIDE DEF x, iter
    <3>1. x \in 1 .. Len(h.list) /\ iter = h.list[x].key /\ KeysDiffer(h.list)
          /\ h.list[x].key = k
      <4>1. /\ x \in 0 .. Len(h.list)
            /\ x > 0 => h.list[x].key = k /\ x \in 1 .. Len(h.list)
            /\ KeysDiffer(h.list)
        BY <1>11, <2>1, <2>2, <2>4 DEF x
      <4> QED
        BY <2>1, <2>3, <4>1
    <3>2. Table!Place(h, iter) = x
      BY <3>1, PlaceIs
    <3>3. r = Valued(h, x, v)
      BY <3>2 DEF Table!hashtable_iter_set, Valued
    <3>4. Becomes(H, s, Valued(h, x, v), Maps!Set(MapOf(s), k, v))
      BY <2>4, <3>1, ValueSets
    <3>5. Maps!Set(MapOf(s), k, v) \in Maps!Change(MapOf(s))
      BY <2>2 DEF Maps!Change
    <3> QED
      BY <3>3, <3>4, <3>5
  <2> HIDE DEF r
  <2> QED
    BY <2>1, <2>4, UseStep DEF H
<1>14. ASSUME NEW t \in JsonThreads, NEW k \in KeysOf[t], Table!json_object_del(t, k)
       PROVE  TablesOK' /\ Maps!Next
  <2> DEFINE h == table[t]
             x == Table!hashtable_find_pair(h, k, Table!hash_str(k))
             r == Table!hashtable_do_del(h, x)
  <2>1. Table!Use(t) /\ table' = [table EXCEPT ![t] = r] /\ x > 0
    BY <1>14 DEF Table!json_object_del
  <2>2. k \in TableKeys
    BY <1>10
  <2> HIDE DEF H, x
  <2>3. ASSUME NEW s, Good(h, H, s)
        PROVE  \E m \in Maps!Change(MapOf(s)) : Becomes(H, s, r, m)
    <3>1. x \in 1 .. Len(h.list)
      BY <1>11, <2>1, <2>2, <2>3 DEF x
    <3> HIDE DEF r
    <3>2. \E j \in 1 .. Len(MapOf(s)) : Becomes(H, s, r, Maps!RemoveAt(MapOf(s), j))
      BY <2>3, <3>1, DelRemoves DEF r
    <3> QED
      BY <3>2 DEF Maps!Change
  <2> HIDE DEF r
  <2> QED
    BY <2>1, <2>3, UseStep DEF H
<1>15. ASSUME NEW t \in JsonThreads, Table!json_object_clear(t)
       PROVE  TablesOK' /\ Maps!Next
  <2> DEFINE r == Wiped(table[t])
  <2>1. Table!Use(t) /\ table' = [table EXCEPT ![t] = r]
    BY <1>15 DEF Table!json_object_clear, Wiped
  <2> HIDE DEF H, r
  <2>2. ASSUME NEW s, Good(table[t], H, s)
        PROVE  \E m \in Maps!Change(MapOf(s)) : Becomes(H, s, r, m)
    <3>1. Becomes(H, s, r, <<>>)
      BY <2>2, ClearEmpties DEF r
    <3>2. <<>> \in Maps!Change(MapOf(s))
      BY DEF Maps!Change
    <3> QED
      BY <3>1, <3>2
  <2> QED
    BY <2>1, <2>2, UseStep DEF H
<1>16. CASE Table!Next
  BY <1>5, <1>6, <1>7, <1>8, <1>12, <1>13, <1>14, <1>15, <1>16 DEF Table!Next
<1> QED
  BY <1>3, <1>16

\* With the interlocked increment that Windows has, what is found by hash and dumped by
\* serial is what was set: the hashtables, each with its buckets, collisions, rehashes
\* and deletions, and the seed that the threads race for, are maps in order.
THEOREM ObjectsImplementMaps ==
    ASSUME Interlocked
    PROVE  Table!Spec => Maps!Spec /\ ObjectsAreMaps
<1>1. Table!Init => TablesOK /\ Maps!Init
  <2> SUFFICES ASSUME Table!Init PROVE TablesOK /\ Maps!Init
    OBVIOUS
  <2>1. /\ hashtable_seed = 0 /\ seeding = [t \in JsonThreads |-> "object"]
        /\ table = [t \in JsonThreads |-> Table!hashtable_init]
    BY DEF Table!Init
  <2>2. Table!hashtable_init \in Tables /\ Len(Table!hashtable_init.list) = 0
    BY InitIsGood DEF Good, Sound
  <2>3. SeedOnce
    BY <2>1 DEF SeedOnce, Uses, Stores
  <2>4. AllGood
    BY <2>1, <2>2 DEF AllGood, Uses
  <2>5. \A t \in JsonThreads : Table!Dumped(table[t]) = <<>>
    BY <2>1, <2>2 DEF Table!Dumped, Table!json_object_size
  <2> QED
    BY <2>3, <2>4, <2>5 DEF TablesOK, Maps!Init, Table!members
<1>2. TablesOK /\ [Table!Next]_Table!vars
        => TablesOK' /\ (Maps!Next \/ Table!members' = Table!members)
  BY TablesStep
<1>3. TablesOK /\ [Table!Next]_Table!vars => [Maps!Next]_Table!members
  BY <1>2
<1>4. TablesOK /\ [Table!Next]_Table!vars
        => [part = "table" => Maps!Next \/ UNCHANGED Table!members]_<<hashtable_seed, table>>
  BY <1>2
<1> QED
  BY <1>1, <1>2, <1>3, <1>4, PTL DEF Table!Spec, Maps!Spec, ObjectsAreMaps
=============================================================================
