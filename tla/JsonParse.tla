----------------------------- MODULE JsonParse -----------------------------
(***************************************************************************)
(* json_loads of jansson2.7/load.c above its lexer: the recursive descent  *)
(* of parse_json, parse_value, parse_object and parse_array with no flags  *)
(* set, as JsonUtility calls it.  One action is what happens between two   *)
(* calls of lex_scan; the call stack is the stack of the containers that   *)
(* are not complete.  Memory may run out wherever it is asked for, and     *)
(* what the parser holds is counted: values and malloc'ed strings.         *)
(***************************************************************************)
EXTENDS JsonGrammar

CONSTANT NoValue

StringTokens == Strings \cup {"nul"}    \* "nul": a string that contains \u0000
Tokens == StringTokens \cup Atoms \cup Punctuation \cup {"invalid", "eof"}

VARIABLES
    text,       \* tokens scanned so far
    token,      \* lex->token
    fresh,      \* lex_scan has run since the last action
    pc,         \* where in the parser
    stack,      \* containers being parsed: [value, key]
    value,      \* what the last parse_value returned
    values,     \* values allocated and not freed
    strings,    \* strings allocated and not freed
    short       \* memory was refused

vars == <<text, token, fresh, pc, stack, value, values, strings, short>>
counts == <<values, strings, short>>

Init ==
    /\ text = <<>> /\ token = "invalid" /\ fresh = FALSE
    /\ pc = "root" /\ stack = <<>> /\ value = NoValue
    /\ values = 0 /\ strings = 0 /\ short = FALSE

RECURSIVE Cells(_)

\* Values that json_decref of the last reference frees: true is static.
Cells(v) ==
    CASE v[1] = "true" -> 0
      [] v[1] = "array" -> FoldLeft(LAMBDA n, e : n + Cells(e), 1, Tail(v))
      [] v[1] = "object" -> FoldLeft(LAMBDA n, m : n + Cells(m[2]), 1, Tail(v))
      [] OTHER -> 1

InUse(v) == IF v = NoValue THEN 0 ELSE Cells(v)

Top == Last(stack)
TopIs(type) == stack # <<>> /\ Top.value[1] = type

-----------------------------------------------------------------------------
(* The lexer.  A string token is freed by the next scan unless the parser  *)
(* took it; a string it has no memory for is an invalid token.             *)

\* The string of a string token is still the lexer's.
Kept == token \in StringTokens

lex_scan ==
    /\ ~ fresh /\ pc \notin {"failed", "end"} /\ (pc = "after" => stack = <<>>)
    /\ \E t \in IF Len(text) >= MaxTokens \/ token = "eof" THEN {"eof"} ELSE Tokens :
         /\ text' = Append(text, t)
         /\ \/ /\ token' = t
               /\ strings' = strings - (IF Kept THEN 1 ELSE 0)
                                     + (IF t \in StringTokens THEN 1 ELSE 0)
               /\ UNCHANGED short
            \/ /\ t \in StringTokens
               /\ token' = "invalid" /\ short' = TRUE
               /\ strings' = strings - (IF Kept THEN 1 ELSE 0)
    /\ fresh' = TRUE
    /\ UNCHANGED <<pc, stack, value, values>>

Reading(at) == fresh /\ pc = at
Goto(at) == pc' = at /\ fresh' = FALSE

\* A NULL result: the caller frees what it holds, action Unwind.
Fail == pc' = "failed" /\ UNCHANGED <<text, token, fresh, stack, value, strings>>
OutOfMemory == Fail /\ short' = TRUE /\ UNCHANGED values
SyntaxError == Fail /\ UNCHANGED <<values, short>>

-----------------------------------------------------------------------------
(* The parser.                                                             *)

\* parse_json: without JSON_DECODE_ANY the text is an array or an object.
parse_json ==
    /\ Reading("root")
    /\ IF token \in {"[", "{"}
         THEN pc' = "value" /\ UNCHANGED <<text, token, fresh, stack, value, counts>>
         ELSE SyntaxError

\* parse_value of a token that is a value by itself: json_integer and the like.
parseScalar ==
    /\ Reading("value") /\ token \in Atoms
    /\ \/ /\ value' = <<token>> /\ values' = values + Cells(<<token>>)
          /\ pc' = "after" /\ fresh' = FALSE
          /\ UNCHANGED <<text, token, stack, strings, short>>
       \/ token # "true" /\ OutOfMemory

\* parse_value of a string: the new value takes the lexer's string over.
parseString ==
    /\ Reading("value") /\ token \in Strings
    /\ \/ /\ value' = <<"string", token>> /\ values' = values + 1
          /\ strings' = strings - 1
          /\ token' = "taken"
          /\ Goto("after")
          /\ UNCHANGED <<text, stack, short>>
       \/ OutOfMemory

\* parse_object and parse_array up to their first lex_scan.
parseContainer ==
    /\ Reading("value") /\ token \in {"[", "{"}
    /\ \/ LET type == IF token = "[" THEN "array" ELSE "object"
          IN  /\ stack' = Append(stack, [value |-> <<type>>, key |-> NoValue])
              /\ values' = values + 1
              /\ Goto("first")
              /\ UNCHANGED <<text, token, value, strings, short>>
       \/ OutOfMemory

unexpected ==
    /\ Reading("value") /\ token \notin Atoms \cup Strings \cup {"[", "{"}
    /\ SyntaxError

\* A container is complete: parse_array or parse_object returns it.
Return ==
    /\ value' = Top.value
    /\ stack' = Front(stack)
    /\ Goto("after")
    /\ UNCHANGED <<text, token, counts>>

Closing == IF Top.value[1] = "array" THEN "]" ELSE "}"

\* After the opening bracket: an empty container, or its first item.  The loop
\* of parse_array ends at the end of the text.
parseFirst ==
    /\ Reading("first")
    /\ IF token = Closing THEN Return
       ELSE /\ pc' = IF TopIs("array") /\ token # "eof" THEN "value" ELSE "key"
            /\ UNCHANGED <<text, token, fresh, stack, value, counts>>

\* A key: the parser steals the lexer's string.
parseKey ==
    /\ Reading("key")
    /\ IF TopIs("object") /\ token \in Strings
         THEN /\ stack' = [stack EXCEPT ![Len(stack)].key = token]
              /\ token' = "taken"
              /\ Goto("colon")
              /\ UNCHANGED <<text, value, counts>>
         ELSE SyntaxError

parseColon ==
    /\ Reading("colon")
    /\ IF token = ":"
         THEN Goto("value") /\ UNCHANGED <<text, token, stack, value, counts>>
         ELSE SyntaxError

\* The value is stored: json_object_set_nocheck, json_array_append.  The key is
\* copied and freed, an older value of the key is dropped.
store ==
    /\ pc = "after" /\ ~ fresh /\ stack # <<>> /\ value # NoValue
    /\ \/ /\ LET new == IF TopIs("array") THEN Append(Top.value, value)
                        ELSE Put(Top.value, Top.key, value)
             IN  /\ stack' = [stack EXCEPT ![Len(stack)] = [value |-> new, key |-> NoValue]]
                 /\ values' = values + Cells(new) - Cells(Top.value) - Cells(value)
          /\ strings' = strings - (IF Top.key = NoValue THEN 0 ELSE 1)
          /\ value' = NoValue
          /\ pc' = "next"
          /\ UNCHANGED <<text, token, fresh, short>>
       \/ OutOfMemory

\* After an item: another one, or the end of the container.
parseNext ==
    /\ Reading("next")
    /\ CASE token = "," ->
              /\ Goto(IF TopIs("array") THEN "element" ELSE "key")
              /\ UNCHANGED <<text, token, stack, value, counts>>
         [] token = Closing -> Return
         [] OTHER -> SyntaxError

\* while(lex->token) of parse_array.
parseElement ==
    /\ Reading("element")
    /\ IF token = "eof" THEN SyntaxError
       ELSE pc' = "value" /\ UNCHANGED <<text, token, fresh, stack, value, counts>>

\* parse_json after its value: nothing may follow.
parseEnd ==
    /\ Reading("after") /\ stack = <<>>
    /\ IF token = "eof"
         THEN pc' = "end" /\ UNCHANGED <<text, token, fresh, stack, value, counts>>
         ELSE SyntaxError

\* Mutant: the key is not freed when its value cannot be parsed.
UnwindForgetsKey(frame) == 0

\* What the error path of parse_object frees besides the object.
KeyOf(frame) == IF frame.key = NoValue THEN 0 ELSE 1

\* The error paths: each call on the stack drops its container and its key, and
\* the value it could not store; at the end lex_close frees the lexer's string.
Unwind ==
    /\ pc = "failed"
    /\ value' = NoValue
    /\ IF stack # <<>>
         THEN /\ values' = values - Cells(Top.value) - InUse(value)
              /\ strings' = strings - KeyOf(Top)
              /\ stack' = Front(stack)
              /\ UNCHANGED <<text, token, fresh, pc, short>>
         ELSE /\ values' = values - InUse(value)
              /\ strings' = strings - (IF Kept THEN 1 ELSE 0)
              /\ pc' = "end"
              /\ UNCHANGED <<text, token, fresh, stack, short>>

Next ==
    \/ lex_scan \/ parse_json \/ parseScalar \/ parseString \/ parseContainer
    \/ unexpected \/ parseFirst \/ parseKey \/ parseColon \/ store
    \/ parseNext \/ parseElement \/ parseEnd \/ Unwind

Spec == Init /\ [][Next]_vars

-----------------------------------------------------------------------------
(* json_loads returns the value of the text, and NULL for anything that is *)
(* no JSON text or begins none; a run out of memory may also yield NULL.   *)
(* Whatever happens, what it allocated is the value it returns and nothing *)
(* else: every error path of load.c frees what its call holds.             *)
LoadsExactly ==
    pc = "end" =>
      /\ strings = 0
      /\ values = InUse(value)
      /\ IF value # NoValue THEN <<Front(text), value>> \in Documents
         ELSE short \/ \A t \in Texts : ~ IsPrefix(text, Append(t, "eof"))
=============================================================================
