----------------------------- MODULE JsonValues -----------------------------
(* The heap of JSON values (JsonHeap) and the hashtables of JSON objects      *)
(* (JsonTable), each as one of several machines: part says which one runs,   *)
(* and heap may belong to another of them.                                   *)

CONSTANTS
    HeapCells, HeapKeys, MaxItems, MaxHeld, MaxLost, Free,      \* JsonHeap
    JsonThreads, TableKeys, KeysOf, TableValues, Seeds, hashlittle, InitialSize,
    Interlocked, MaxSerial, ListHead                            \* JsonTable

VARIABLES
    part,
    heap, held, lost, todo,                                     \* JsonHeap
    hashtable_seed, seed_initialized, seeding, table            \* JsonTable

Heap == INSTANCE JsonHeap WITH Nodes <- HeapCells, Keys <- HeapKeys

Table == INSTANCE JsonTable WITH
    Threads <- JsonThreads, Keys <- TableKeys, Values <- TableValues, pc <- seeding

Maps == INSTANCE JsonObjects WITH
    Threads <- JsonThreads, Keys <- TableKeys, Values <- TableValues,
    members <- Table!members

ASSUME ValuesAssumption == Heap!HeapAssumption /\ Table!TableAssumption

\* The reference count of every value is exact (JsonHeap).
CountsExact == part = "heap" => Heap!CountsExact

\* The hashtable of an object implements the ordered map JsonObjects: what is found by
\* hash and dumped by serial is what was set, through rehashing, deletions in crowded
\* buckets, and threads that draw the seed at the same time (hashtable_seed.c:250: a
\* seed that changes later makes the keys of every earlier object unfindable, and the
\* callers do not expect NULL).
ObjectsAreMaps ==
    [][part = "table" => Maps!Next \/ UNCHANGED Table!members]_<<hashtable_seed, table>>
=============================================================================
