----------------------------- MODULE JsonTable -----------------------------
(***************************************************************************)
(* JSON objects as the library keeps them (jansson2.7/hashtable.c, its     *)
(* callers in value.c and hashtable_seed.c), one object per thread.        *)
(*                                                                         *)
(* All pairs of a table are in one doubly linked list; a bucket is the     *)
(* part of the list from its first to its last pair.  The list is a        *)
(* sequence here and a pointer to a pair is its key; ListHead is the list head *)
(* that the pointers of an empty bucket have.                              *)
(*                                                                         *)
(* The hash depends on a seed all threads share.  The first json_object()  *)
(* of the program draws it, in whatever thread that happens to be.         *)
(***************************************************************************)
EXTENDS Integers, SequencesExt, FiniteSetsExt

CONSTANTS
    Threads,
    Keys,
    KeysOf,         \* [Threads -> SUBSET Keys]: keys a thread's object gets
    Values,
    Seeds,          \* seeds generate_seed may draw, none of them 0
    hashlittle,     \* [Seeds -> [Keys -> Nat]]
    InitialSize,    \* buckets of a new table, hashsize(3) in the code
    Interlocked,    \* TRUE: the _WIN32 branch; FALSE: the fallback
    MaxSerial,      \* bound: sets per object between two clears
    ListHead            \* the list head

TableAssumption ==
    /\ 0 \notin Seeds /\ ListHead \notin Keys
    /\ KeysOf \in [Threads -> SUBSET Keys]
    /\ hashlittle \in [Seeds -> [Keys -> Nat]]
    /\ InitialSize \in Nat \ {0}

VARIABLES
    hashtable_seed,
    seed_initialized,   \* a thread has taken it on itself to seed
    pc,                 \* per thread: "object", "seed", "store", "wait", "use"
    table               \* per thread: its object's hashtable

vars == <<hashtable_seed, seed_initialized, pc, table>>

\* The pointers of n empty buckets.
NoPairs(n) == [b \in 0 .. n - 1 |-> ListHead]

\* hashsize is hashsize(order): it doubles when order grows by one.  It is a power of
\* two, with which the code may write & hashmask(order) for %.
hashtable_init ==
    [hashsize |-> InitialSize, serial |-> 0, list |-> <<>>,
     first |-> NoPairs(InitialSize), last |-> NoPairs(InitialSize)]

Init ==
    /\ hashtable_seed = 0
    /\ seed_initialized = FALSE
    /\ pc = [t \in Threads |-> "object"]
    /\ table = [t \in Threads |-> hashtable_init]

-----------------------------------------------------------------------------
(* The list and its buckets.  size is the length of the list.              *)

Place(h, key) == CHOOSE i \in 1 .. Len(h.list) : h.list[i].key = key

bucket_is_empty(h, b) == h.first[b] = ListHead /\ h.first[b] = h.last[b]

\* Mutant: a pair always goes to the end of the list.
insert_at_end(h, p) ==
    LET b == p.hash % h.hashsize
    IN  IF bucket_is_empty(h, b)
          THEN [h EXCEPT !.list = Append(@, p), !.first[b] = p.key, !.last[b] = p.key]
          ELSE [h EXCEPT !.list = Append(@, p), !.first[b] = p.key]

\* Into an empty bucket at the end of the list, else before the bucket's first.
insert_to_bucket(h, p) ==
    LET b == p.hash % h.hashsize
    IN  IF bucket_is_empty(h, b)
          THEN [h EXCEPT !.list = Append(@, p), !.first[b] = p.key, !.last[b] = p.key]
          ELSE [h EXCEPT !.list = InsertAt(@, Place(h, h.first[b]), p),
                         !.first[b] = p.key]

\* Place of the pair in its bucket, 0 if the bucket has none with this hash
\* and key.
hashtable_find_pair(h, key, hash) ==
    LET b == hash % h.hashsize
        Found == {i \in Place(h, h.first[b]) .. Place(h, h.last[b]) :
                    h.list[i].hash = hash /\ h.list[i].key = key}
    IN  IF bucket_is_empty(h, b) \/ Found = {} THEN 0 ELSE Min(Found)

hash_str(key) == hashlittle[hashtable_seed][key]

hashtable_do_rehash(h) ==
    LET bigger == 2 * h.hashsize
        empty == [h EXCEPT !.hashsize = bigger, !.list = <<>>,
                           !.first = NoPairs(bigger), !.last = NoPairs(bigger)]
        moved[n \in 0 .. Len(h.list)] ==
            IF n = 0 THEN empty ELSE insert_to_bucket(moved[n - 1], h.list[n])
    IN  moved[Len(h.list)]

hashtable_set(h, key, value) ==
    LET r == IF Len(h.list) >= h.hashsize THEN hashtable_do_rehash(h) ELSE h
        i == hashtable_find_pair(r, key, hash_str(key))
        p == [key |-> key, hash |-> hash_str(key), serial |-> h.serial, value |-> value]
    IN  IF i > 0 THEN [r EXCEPT !.list[i].value = value] ELSE insert_to_bucket(r, p)

\* A bucket whose first or last pair goes moves its end to the neighbour.
hashtable_do_del(h, i) ==
    LET p == h.list[i]
        b == p.hash % h.hashsize
        next == IF i < Len(h.list) THEN h.list[i + 1].key ELSE ListHead
        prev == IF i > 1 THEN h.list[i - 1].key ELSE ListHead
        cut == [h EXCEPT !.list = RemoveAt(@, i)]
    IN  CASE p.key = h.first[b] /\ p.key = h.last[b] ->
               [cut EXCEPT !.first[b] = ListHead, !.last[b] = ListHead]
          [] p.key = h.first[b] /\ p.key # h.last[b] -> [cut EXCEPT !.first[b] = next]
          [] p.key # h.first[b] /\ p.key = h.last[b] -> [cut EXCEPT !.last[b] = prev]
          [] OTHER -> cut

hashtable_clear(h) ==
    [h EXCEPT !.list = <<>>, !.first = NoPairs(h.hashsize), !.last = NoPairs(h.hashsize)]

(* Iterators: an iterator is the pair it stands at, or ListHead for none.  *)

hashtable_iter_at(h, key) ==
    LET i == hashtable_find_pair(h, key, hash_str(key))
    IN  IF i = 0 THEN ListHead ELSE h.list[i].key

hashtable_iter_set(h, iter, value) == [h EXCEPT !.list[Place(h, iter)].value = value]

\* The pairs an iteration meets: hashtable_iter_next follows the list from one
\* to the next.
Iterated(h) == h.list

-----------------------------------------------------------------------------
(* Drawing the seed.                                                       *)

Goto(t, l) == pc' = [pc EXCEPT ![t] = l]

\* json_object(): seeds if that was not done.
json_object(t) ==
    /\ pc[t] = "object"
    /\ Goto(t, IF hashtable_seed = 0 THEN "seed" ELSE "use")
    /\ UNCHANGED <<hashtable_seed, seed_initialized, table>>

\* The first thread to increment seed_initialized draws the seed, others wait;
\* without interlocked increment every thread that finds no seed draws one.
json_object_seed(t) ==
    /\ pc[t] = "seed"
    /\ IF hashtable_seed # 0
         THEN Goto(t, "use") /\ UNCHANGED seed_initialized
         ELSE /\ Goto(t, IF Interlocked /\ seed_initialized THEN "wait" ELSE "store")
              /\ seed_initialized' = TRUE
    /\ UNCHANGED <<hashtable_seed, table>>

storeSeed(t) ==
    /\ pc[t] = "store"
    /\ hashtable_seed' \in Seeds
    /\ Goto(t, "use")
    /\ UNCHANGED <<seed_initialized, table>>

waitForSeed(t) ==
    /\ pc[t] = "wait" /\ hashtable_seed # 0
    /\ Goto(t, "use")
    /\ UNCHANGED <<hashtable_seed, seed_initialized, table>>

-----------------------------------------------------------------------------
(* Using the object.                                                       *)

Use(t) ==
    /\ pc[t] = "use"
    /\ UNCHANGED <<hashtable_seed, seed_initialized, pc>>

\* The serial is used up also when the key is there already.
json_object_set_new(t, k, v) ==
    /\ Use(t) /\ table[t].serial < MaxSerial
    /\ LET set == hashtable_set(table[t], k, v)
       IN  table' = [table EXCEPT ![t] = [set EXCEPT !.serial = @ + 1]]

json_object_del(t, k) ==
    /\ Use(t)
    /\ LET i == hashtable_find_pair(table[t], k, hash_str(k))
       IN  i > 0 /\ table' = [table EXCEPT ![t] = hashtable_do_del(@, i)]

\* By an iterator: the pair keeps its serial.
json_object_iter_set_new(t, k, v) ==
    /\ Use(t)
    /\ LET iter == hashtable_iter_at(table[t], k)
       IN  iter # ListHead /\ table' = [table EXCEPT ![t] = hashtable_iter_set(@, iter, v)]

json_object_clear(t) ==
    /\ Use(t)
    /\ table' = [table EXCEPT ![t] = [hashtable_clear(@) EXCEPT !.serial = 0]]

Next ==
    \E t \in Threads :
      \/ json_object(t) \/ json_object_seed(t) \/ storeSeed(t) \/ waitForSeed(t)
      \/ json_object_clear(t)
      \/ \E k \in KeysOf[t] :
           \/ json_object_del(t, k)
           \/ \E v \in Values : json_object_set_new(t, k, v) \/ json_object_iter_set_new(t, k, v)

Spec == Init /\ [][Next]_vars

-----------------------------------------------------------------------------
\* json_object_get: by the bucket of the key, with the seed of now.
json_object_get(h, k) ==
    LET i == hashtable_find_pair(h, k, hash_str(k))
    IN  IF i = 0 THEN ListHead ELSE h.list[i].value

json_object_size(h) == Len(h.list)

object_key_compare_serials(a, b) == a.serial < b.serial

\* What qsort makes of the pairs: no two of them have one serial.
Sorted(pairs) ==
    CHOOSE s \in [DOMAIN pairs -> ToSet(pairs)] :
        /\ \A i, j \in DOMAIN pairs : i < j => object_key_compare_serials(s[i], s[j])
        /\ ToSet(s) = ToSet(pairs)

\* The order of json_dumps with JSON_PRESERVE_ORDER: each key once, by serial,
\* with the value that json_object_get finds.
Dumped(h) ==
    LET sorted == Sorted(Iterated(h))
    IN  [i \in 1 .. json_object_size(h) |->
          [key |-> sorted[i].key, value |-> json_object_get(h, sorted[i].key)]]

\* What the objects of the threads are as ordered maps (JsonObjects; that this is a
\* refinement is ObjectsAreMaps of JsonValues).
members == [t \in Threads |-> Dumped(table[t])]
=============================================================================
