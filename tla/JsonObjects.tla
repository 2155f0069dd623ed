---------------------------- MODULE JsonObjects ----------------------------
(***************************************************************************)
(* What a JSON object promises (jansson.h): per thread one object, an      *)
(* ordered map.  A new key comes last, a key that is set again stays where *)
(* it is and gets the new value.                                           *)
(***************************************************************************)
EXTENDS Sequences, SequencesExt

CONSTANTS Threads, Keys, Values

VARIABLE members    \* [Threads -> sequences of [key, value]]

Has(m, k) == \E i \in 1 .. Len(m) : m[i].key = k

Init == members = [t \in Threads |-> <<>>]

Set(m, k, v) ==
    IF Has(m, k)
      THEN [i \in 1 .. Len(m) |-> IF m[i].key = k THEN [m[i] EXCEPT !.value = v] ELSE m[i]]
      ELSE Append(m, [key |-> k, value |-> v])

Change(m) ==
    {<<>>} \cup {RemoveAt(m, i) : i \in 1 .. Len(m)}
           \cup {Set(m, k, v) : k \in Keys, v \in Values}

Next ==
    /\ DOMAIN members' = Threads
    /\ \E t \in Threads :
         /\ \A u \in Threads \ {t} : members'[u] = members[u]
         /\ members'[t] \in Change(members[t])

Spec == Init /\ [][Next]_members
=============================================================================
