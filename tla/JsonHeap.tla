----------------------------- MODULE JsonHeap ------------------------------
(***************************************************************************)
(* JSON values and their reference counts (jansson2.7/value.c and the      *)
(* inline functions of jansson.h).                                         *)
(*                                                                         *)
(* Every function that takes a value either borrows it or, if its name     *)
(* ends in _new, takes over one reference of the caller, also when it      *)
(* fails.  A count that reaches 0 deletes the value and drops what it      *)
(* contains, and so on; todo holds the references still to be dropped, and *)
(* no call begins before it is empty.  The caller follows the rules: it    *)
(* only passes values it holds a reference to.                             *)
(***************************************************************************)
EXTENDS Integers, SequencesExt, FiniteSetsExt

CONSTANTS
    Nodes,      \* bound: cells of the heap
    Keys,       \* keys of objects
    MaxItems,   \* bound: elements of an array
    MaxHeld,    \* bound: references of the caller in all, when it takes another
    MaxLost,    \* bound: references lost
    Free

Types == {"object", "array", "string"}

\* What a value can be: the items of an object are a function of its keys, those of an
\* array a sequence; a string has none.
Objects == [type : {"object"}, refcount : Nat \ {0},
            items : UNION { [ks -> Nodes] : ks \in SUBSET Keys }]
Arrays == [type : {"array", "string"}, refcount : Nat \ {0}, items : Seq(Nodes)]

HeapAssumption ==
    /\ IsFiniteSet(Nodes) /\ IsFiniteSet(Keys)
    /\ Free \notin Objects \cup Arrays

VARIABLES
    heap,   \* cell -> Free or [type, refcount, items]
    held,   \* cell -> references the caller holds
    lost,   \* cell -> references nobody has any more and nobody dropped
    todo    \* references the running call has yet to drop

vars == <<heap, held, lost, todo>>

Init ==
    /\ heap = [n \in Nodes |-> Free]
    /\ held = [n \in Nodes |-> 0]
    /\ lost = [n \in Nodes |-> 0]
    /\ todo = <<>>

-----------------------------------------------------------------------------
Live(n) == heap[n] # Free
Holds(n) == held[n] > 0

json_is_array(n) == heap[n].type = "array"
json_is_object(n) == heap[n].type = "object"

Empty(type) == IF type = "object" THEN [k \in {} |-> 0] ELSE <<>>

\* Items of a function of keys, one after another.
Listed(items) ==
    LET ks == SetToSeq(DOMAIN items) IN [i \in 1 .. Len(ks) |-> items[ks[i]]]

Contained(n) == IF json_is_object(n) THEN Listed(heap[n].items) ELSE heap[n].items

Idle == todo = <<>>

\* How often items, of a sequence or of an object, hold n.
Times(items, n) == Cardinality({i \in DOMAIN items : items[i] = n})

-----------------------------------------------------------------------------
(* Counting.                                                               *)

json_incref(h, n) == [h EXCEPT ![n].refcount = @ + 1]

\* json_delete: the cell is freed, its items are dropped in turn.
json_delete(n) ==
    /\ heap' = [heap EXCEPT ![n] = Free]
    /\ todo' = Contained(n) \o Tail(todo)

\* json_decref of the next value to be dropped.
json_decref ==
    /\ ~ Idle
    /\ LET n == Head(todo)
       IN  IF heap[n].refcount = 1
             THEN json_delete(n)
             ELSE /\ heap' = [heap EXCEPT ![n].refcount = @ - 1]
                  /\ todo' = Tail(todo)
    /\ UNCHANGED <<held, lost>>

-----------------------------------------------------------------------------
(* Calls of the program.  An array that must grow and a pair that must be  *)
(* stored need memory: both may fail.                                      *)

\* json_object, json_array, json_string: no cell, no value.
create(type) ==
    /\ Idle
    /\ \E n \in Nodes :
         /\ ~ Live(n)
         /\ heap' = [heap EXCEPT ![n] = [type |-> type, refcount |-> 1,
                                         items |-> Empty(type)]]
         /\ held' = [held EXCEPT ![n] = 1]
    /\ UNCHANGED <<lost, todo>>

\* The caller takes another reference, or gives one back.
takeReference(n) ==
    /\ Idle /\ Holds(n) /\ MapThenSumSet(LAMBDA m : held[m], Nodes) < MaxHeld
    /\ heap' = json_incref(heap, n)
    /\ held' = [held EXCEPT ![n] = @ + 1]
    /\ UNCHANGED <<lost, todo>>

dropReference(n) ==
    /\ Idle /\ Holds(n)
    /\ held' = [held EXCEPT ![n] = @ - 1]
    /\ todo' = <<n>>
    /\ UNCHANGED <<heap, lost>>

Lost == MapThenSumSet(LAMBDA m : lost[m], Nodes)

\* JsonUtility::SetValueInFirstObject never drops its reference to the string
\* it made.
forgetReference(n) ==
    /\ Idle /\ Holds(n) /\ heap[n].type = "string" /\ Lost < MaxLost
    /\ held' = [held EXCEPT ![n] = @ - 1]
    /\ lost' = [lost EXCEPT ![n] = @ + 1]
    /\ UNCHANGED <<heap, todo>>

\* "delete root" in IoTCommand, IoTRule and the managers: the memory of the root
\* alone is freed, what it contains keeps its counts for ever.
deleteRoot(n) ==
    /\ Idle /\ held[n] = 1 /\ json_is_object(n) /\ heap[n].refcount = 1
    /\ Lost + Cardinality(DOMAIN heap[n].items) <= MaxLost
    /\ heap' = [heap EXCEPT ![n] = Free]
    /\ held' = [held EXCEPT ![n] = 0]
    /\ LET items == heap[n].items
       IN  lost' = [m \in Nodes |-> lost[m] + Times(items, m)]
    /\ UNCHANGED todo

\* A reference to v is handed to the call: the caller's own (_new), or a new
\* one that the inline variant counts first.
Pass(v, own) ==
    /\ Idle /\ Holds(v)
    /\ held' = IF own THEN [held EXCEPT ![v] = @ - 1] ELSE held
    /\ UNCHANGED lost

Counted(v, own) == IF own THEN heap ELSE json_incref(heap, v)

\* Mutant: a refused value stays with nobody.
RefuseLeaks(v, own) == heap' = Counted(v, own) /\ UNCHANGED todo

\* Every failure drops the reference that was passed.
Refuse(v, own) == heap' = Counted(v, own) /\ todo' = <<v>>

Store(a, v, own, items, dropped) ==
    /\ heap' = [Counted(v, own) EXCEPT ![a].items = items]
    /\ todo' = dropped

json_array_append_new(a, v, own) ==
    /\ Holds(a) /\ Pass(v, own)
    /\ \/ Refuse(v, own)
       \/ /\ json_is_array(a) /\ a # v /\ Len(heap[a].items) < MaxItems
          /\ Store(a, v, own, Append(heap[a].items, v), <<>>)

json_array_insert_new(a, i, v, own) ==
    /\ Holds(a) /\ Pass(v, own)
    /\ \/ Refuse(v, own)
       \/ /\ json_is_array(a) /\ a # v /\ Len(heap[a].items) < MaxItems
          /\ i <= Len(heap[a].items) + 1
          /\ Store(a, v, own, InsertAt(heap[a].items, i, v), <<>>)

json_array_set_new(a, i, v, own) ==
    /\ Holds(a) /\ Pass(v, own)
    /\ IF json_is_array(a) /\ a # v /\ i <= Len(heap[a].items)
         THEN Store(a, v, own, [heap[a].items EXCEPT ![i] = v], <<heap[a].items[i]>>)
         ELSE Refuse(v, own)

json_array_remove(a, i) ==
    /\ Idle /\ Holds(a) /\ json_is_array(a) /\ i <= Len(heap[a].items)
    /\ heap' = [heap EXCEPT ![a].items = RemoveAt(@, i)]
    /\ todo' = <<heap[a].items[i]>>
    /\ UNCHANGED <<held, lost>>

\* json_array_clear, json_object_clear.
clear(a) ==
    /\ Idle /\ Holds(a) /\ Contained(a) # <<>>
    /\ heap' = [heap EXCEPT ![a].items = Empty(heap[a].type)]
    /\ todo' = Contained(a)
    /\ UNCHANGED <<held, lost>>

\* One json_incref for each of the items.
CountAll(h, items) ==
    [n \in Nodes |-> IF h[n] = Free THEN Free
                     ELSE [h[n] EXCEPT !.refcount = @ + Times(items, n)]]

\* The array may be extended by itself.
json_array_extend(a, other) ==
    /\ Idle /\ Holds(a) /\ Holds(other)
    /\ json_is_array(a) /\ json_is_array(other)
    /\ Len(heap[a].items) + Len(heap[other].items) <= MaxItems
    /\ heap' = [CountAll(heap, heap[other].items) EXCEPT ![a].items = @ \o heap[other].items]
    /\ UNCHANGED <<held, lost, todo>>

json_object_set_new(o, k, v, own) ==
    /\ Holds(o) /\ Pass(v, own)
    /\ \/ Refuse(v, own)
       \/ /\ json_is_object(o) /\ o # v
          /\ LET items == heap[o].items
             IN  IF k \in DOMAIN items
                   THEN Store(o, v, own, [items EXCEPT ![k] = v], <<items[k]>>)
                   ELSE Store(o, v, own, [j \in DOMAIN items \cup {k} |->
                                            IF j = k THEN v ELSE items[j]], <<>>)

json_object_del(o, k) ==
    /\ Idle /\ Holds(o) /\ json_is_object(o) /\ k \in DOMAIN heap[o].items
    /\ heap' = [heap EXCEPT ![o].items = [j \in DOMAIN @ \ {k} |-> @[j]]]
    /\ todo' = <<heap[o].items[k]>>
    /\ UNCHANGED <<held, lost>>

\* Which keys of the other object json_object_update and its variants
\* _existing and _missing set.
Updated(o, other, which) ==
    LET mine == DOMAIN heap[o].items
        yours == DOMAIN heap[other].items
    IN  CASE which = "all" -> yours
          [] which = "existing" -> yours \cap mine
          [] which = "missing" -> yours \ mine

\* The keys are set one by one; what was there before is dropped.  A key whose
\* value is the object itself is refused, any other may lack memory.
json_object_update(o, other, which) ==
    /\ Idle /\ Holds(o) /\ Holds(other) /\ o # other
    /\ json_is_object(o) /\ json_is_object(other)
    /\ LET mine == heap[o].items
           yours == heap[other].items
       IN  \E ks \in SUBSET {k \in Updated(o, other, which) : yours[k] # o} :
             /\ heap' = [CountAll(heap, [k \in ks |-> yours[k]]) EXCEPT
                  ![o].items = [k \in DOMAIN mine \cup ks |->
                                  IF k \in ks THEN yours[k] ELSE mine[k]]]
             /\ todo' = Listed([k \in ks \cap DOMAIN mine |-> mine[k]])
    /\ UNCHANGED <<held, lost>>

\* json_copy of a container: the copy is new, the items are shared.
json_copy(c) ==
    /\ Idle /\ Holds(c)
    /\ \E n \in Nodes :
         /\ ~ Live(n)
         /\ heap' = [CountAll(heap, heap[c].items) EXCEPT
                       ![n] = [type |-> heap[c].type, refcount |-> 1, items |-> heap[c].items]]
         /\ held' = [held EXCEPT ![n] = 1]
    /\ UNCHANGED <<lost, todo>>

-----------------------------------------------------------------------------
Positions == 1 .. MaxItems

ArrayCall(a, v, own) ==
    \/ json_array_append_new(a, v, own)
    \/ \E i \in Positions : json_array_insert_new(a, i, v, own)
    \/ \E i \in Positions : json_array_set_new(a, i, v, own)

ObjectCall(o, v, own) == \E k \in Keys : json_object_set_new(o, k, v, own)

Next ==
    \/ json_decref
    \/ \E type \in Types : create(type)
    \/ \E n \in Nodes :
         \/ takeReference(n) \/ dropReference(n) \/ clear(n) \/ json_copy(n)
         \/ forgetReference(n) \/ deleteRoot(n)
         \/ \E i \in Positions : json_array_remove(n, i)
         \/ \E k \in Keys : json_object_del(n, k)
    \/ \E n, v \in Nodes :
         \/ \E own \in BOOLEAN : ArrayCall(n, v, own) \/ ObjectCall(n, v, own)
         \/ json_array_extend(n, v)
         \/ \E which \in {"all", "existing", "missing"} : json_object_update(n, v, which)

Spec == Init /\ [][Next]_vars

-----------------------------------------------------------------------------
TypeOK ==
    /\ heap \in [Nodes -> Objects \cup Arrays \cup {Free}]
    /\ held \in [Nodes -> Nat]
    /\ lost \in [Nodes -> Nat]
    /\ todo \in Seq(Nodes)

\* The places in live containers that hold n.
Places(m, n) == IF Live(m) THEN {i \in DOMAIN heap[m].items : heap[m].items[i] = n} ELSE {}
Occurrences(n) == Cardinality(UNION { {m} \X Places(m, n) : m \in Nodes })

(* Every count is exact: the references of the caller, of live containers  *)
(* and of the call that runs.  So no value is freed while somebody has it, *)
(* none is dropped twice, and a failed call loses nothing (the error paths *)
(* of json_object_set_new, json_array_insert_new and their like,           *)
(* value.c:111-122, 401-412, 501-510).                                     *)
CountsExact ==
    /\ TypeOK
    /\ \A n \in Nodes :
          held[n] + lost[n] + Occurrences(n) + Times(todo, n) =
            (IF Live(n) THEN heap[n].refcount ELSE 0)
=============================================================================
