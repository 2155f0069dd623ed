----------------------------- MODULE JsonDump ------------------------------
(***************************************************************************)
(* json_dumps of jansson2.7/dump.c into a string buffer (strbuffer.c),     *)
(* with the flags JSON_ENSURE_ASCII, JSON_COMPACT and JSON_PRESERVE_ORDER  *)
(* that JsonUtility::ExportJsonContent sets.  The values form a graph: a   *)
(* program may put a value into several containers, and two containers     *)
(* into each other.  One action is one call of dump; the recursion of      *)
(* do_dump is the stack.  The buffer grows by malloc, and the sorted keys  *)
(* of an object are kept in memory of their own; either may fail.          *)
(***************************************************************************)
EXTENDS JsonGrammar

CONSTANTS
    Nodes, Root,            \* containers; the one that is dumped
    STRBUFFER_MIN_SIZE,
    MaxItems,               \* bound: items of a container
    NULL

Types == {"array", "object"}
Leaves == {<<"true">>} \cup {<<"string", s>> : s \in Strings}

\* An item is a leaf or a container, but none contains itself (value.c refuses
\* that); an object gives each item a key, in the order of the serial numbers.
Items == Leaves \cup {<<"node", n>> : n \in Nodes}
Keys == SetToSeq(Strings)

VARIABLES
    heap,       \* container -> [type, items]
    visited,    \* containers whose visited flag is set
    stack,      \* calls of do_dump: [node, i, at]
    item,       \* the value do_dump is called with, NULL after it returned
    out,        \* tokens written
    length,     \* strbuffer: bytes written
    size,       \* strbuffer: bytes allocated
    pc,
    result,     \* what json_dumps returned
    short       \* memory was refused

buffer == <<out, length, size, short>>
vars == <<heap, visited, stack, item, buffer, pc, result>>

Init ==
    /\ heap \in [Nodes -> [type : Types, items : UNION {[1 .. n -> Items] : n \in 0 .. MaxItems}]]
    /\ \A n \in Nodes : <<"node", n>> \notin Range(heap[n].items)
    /\ visited = {} /\ stack = <<>> /\ item = <<"node", Root>>
    /\ out = <<>> /\ length = 0 /\ size = STRBUFFER_MIN_SIZE /\ short = FALSE
    /\ pc = "dump" /\ result = NULL

Bytes(token) ==
    CASE token \in Strings -> 3
      [] token = "true" -> 4
      [] OTHER -> 1

Larger(a, b) == IF a > b THEN a ELSE b

NeedsRoom(n) == n >= size - length

\* strbuffer_append_bytes of a token: ok is whether it returned 0.
strbuffer_append_bytes(token, ok) ==
    LET n == Bytes(token)
    IN  \/ /\ ok
           /\ size' = IF NeedsRoom(n) THEN Larger(2 * size, length + n + 1) ELSE size
           /\ out' = Append(out, token) /\ length' = length + n
           /\ UNCHANGED short
        \/ /\ ~ ok /\ NeedsRoom(n)
           /\ short' = TRUE
           /\ UNCHANGED <<out, length, size>>

-----------------------------------------------------------------------------
Top == Last(stack)
Node(n) == heap[n]
TopNode == Node(Top.node)
IsNode(it) == it # NULL /\ it[1] = "node"

Running == pc = "dump"
Fail == pc' = "failed"

\* Mutant: the flag stays set.
LeaveMarked(n) == UNCHANGED visited

\* The flag of a container is cleared when its call of do_dump returns.
Leave(n) == visited' = visited \ {n}

dumpLeaf ==
    /\ Running /\ item # NULL /\ ~ IsNode(item)
    /\ \E ok \in BOOLEAN :
         /\ strbuffer_append_bytes(Last(item), ok)
         /\ IF ok THEN item' = NULL /\ UNCHANGED pc ELSE Fail /\ UNCHANGED item
    /\ UNCHANGED <<heap, visited, stack, result>>

isCircular(n) == n \in visited

\* A container that is being dumped is a circular reference; its flag is cleared
\* although its own call is still running.
circular ==
    /\ Running /\ IsNode(item) /\ isCircular(item[2])
    /\ Leave(item[2])
    /\ Fail
    /\ UNCHANGED <<heap, stack, item, buffer, result>>

openContainer ==
    /\ Running /\ IsNode(item) /\ ~ isCircular(item[2])
    /\ LET n == item[2]
       IN  /\ visited' = visited \cup {n}
           /\ stack' = Append(stack, [node |-> n, i |-> 1,
                                      at |-> IF Node(n).type = "array" THEN "item" ELSE "sort"])
           /\ \E ok \in BOOLEAN :
                /\ strbuffer_append_bytes(IF Node(n).type = "array" THEN "[" ELSE "{", ok)
                /\ IF ok THEN item' = NULL /\ UNCHANGED pc ELSE Fail /\ UNCHANGED item
    /\ UNCHANGED <<heap, result>>

\* do_dump of an item returned 0, or the container was just opened.
InContainer(at) == Running /\ item = NULL /\ stack # <<>> /\ Top.at = at
Now(i, at) == stack' = [stack EXCEPT ![Len(stack)].i = i, ![Len(stack)].at = at]

\* An object that is not empty: memory for its keys, which are sorted.
sortKeys ==
    /\ InContainer("sort") /\ TopNode.items # <<>>
    /\ \/ Now(1, "item") /\ UNCHANGED <<pc, short>>
       \/ short' = TRUE /\ Fail /\ UNCHANGED stack
    /\ UNCHANGED <<heap, visited, item, out, length, size, result>>

\* Before an item: its key if the container is an object.
beginItem ==
    /\ InContainer("item") /\ Top.i <= Len(TopNode.items)
    /\ IF TopNode.type = "array"
         THEN /\ item' = TopNode.items[Top.i]
              /\ Now(Top.i, "after")
         ELSE /\ Now(Top.i, "key")
              /\ UNCHANGED item
    /\ UNCHANGED <<heap, visited, buffer, pc, result>>

\* The key: that dump_string fails is not noticed.
dumpKey ==
    /\ InContainer("key")
    /\ \E ok \in BOOLEAN : strbuffer_append_bytes(Keys[Top.i], ok)
    /\ Now(Top.i, "separator")
    /\ UNCHANGED <<heap, visited, item, pc, result>>

dumpSeparator ==
    /\ InContainer("separator")
    /\ \E ok \in BOOLEAN :
         /\ strbuffer_append_bytes(":", ok)
         /\ IF ok THEN item' = TopNode.items[Top.i] /\ UNCHANGED pc ELSE Fail /\ UNCHANGED item
    /\ Now(Top.i, "after")
    /\ UNCHANGED <<heap, visited, result>>

dumpComma ==
    /\ InContainer("after") /\ Top.i < Len(TopNode.items)
    /\ \E ok \in BOOLEAN :
         /\ strbuffer_append_bytes(",", ok)
         /\ IF ok THEN UNCHANGED pc ELSE Fail
    /\ Now(Top.i + 1, "item")
    /\ UNCHANGED <<heap, visited, item, result>>

\* After the last item, or at once in an empty container: the call returns.
closeContainer ==
    /\ Running /\ item = NULL /\ stack # <<>>
    /\ TopNode.items = <<>> \/ (Top.at = "after" /\ Top.i = Len(TopNode.items))
    /\ Leave(Top.node)
    /\ stack' = Front(stack)
    /\ \E ok \in BOOLEAN :
         /\ strbuffer_append_bytes(IF TopNode.type = "array" THEN "]" ELSE "}", ok)
         /\ IF ok THEN UNCHANGED pc ELSE Fail
    /\ UNCHANGED <<heap, item, result>>

\* array_error, object_error: every call clears the flag of its container.
unwind ==
    /\ pc = "failed"
    /\ IF stack # <<>>
         THEN /\ Leave(Top.node)
              /\ stack' = Front(stack)
              /\ UNCHANGED <<pc, item>>
         ELSE /\ pc' = "end" /\ item' = NULL
              /\ UNCHANGED <<visited, stack>>
    /\ UNCHANGED <<heap, buffer, result>>

\* json_dumps: the copy of the text is returned if there is memory for it.
return ==
    /\ Running /\ item = NULL /\ stack = <<>>
    /\ pc' = "end"
    /\ \/ result' = out /\ UNCHANGED short
       \/ short' = TRUE /\ UNCHANGED result
    /\ UNCHANGED <<heap, visited, stack, item, out, length, size>>

Next ==
    \/ dumpLeaf \/ circular \/ openContainer \/ sortKeys \/ beginItem
    \/ dumpKey \/ dumpSeparator \/ dumpComma \/ closeContainer \/ unwind \/ return

Spec == Init /\ [][Next]_vars

-----------------------------------------------------------------------------
Inside(ns) == ns \cup {m \in Nodes : \E n \in ns : <<"node", m>> \in Range(heap[n].items)}
Below(n) == {m \in Nodes : <<"node", m>> \in Range(heap[n].items)}

\* Containers inside those of ns, however deep.
RECURSIVE Closure(_)
Closure(ns) == IF Inside(ns) = ns THEN ns ELSE Closure(Inside(ns))

Circular == \E n \in Closure({Root}) : n \in Closure(Below(n))

RECURSIVE Unfold(_)

\* The value a graph without circles stands for.
Unfold(it) ==
    IF ~ IsNode(it) THEN it
    ELSE LET node == heap[it[2]]
         IN  IF node.type = "array" THEN <<"array">> \o [i \in DOMAIN node.items |-> Unfold(node.items[i])]
             ELSE <<"object">> \o [i \in DOMAIN node.items |-> <<Keys[i], Unfold(node.items[i])>>]

(* json_dumps returns NULL exactly for circular  *)
(* values if there is memory, otherwise the text of the value; and it      *)
(* leaves no visited flag behind, so that the next call is not misled.     *)
DumpsExactly ==
    pc = "end" =>
      /\ visited = {} /\ length < size
      /\ ~ short => IF Circular THEN result = NULL ELSE result = Spell(Unfold(<<"node", Root>>))
=============================================================================
