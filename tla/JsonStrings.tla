---------------------------- MODULE JsonStrings ----------------------------
(***************************************************************************)
(* The strings of jansson: UTF-8 (jansson2.7/utf.c), how dump_string of    *)
(* dump.c writes them with JSON_ENSURE_ASCII, and how the second pass of   *)
(* lex_scan_string of load.c decodes them.  A string is a sequence of      *)
(* bytes, put together byte by byte; the operators are the functions.  In  *)
(* the written text an escape is a pair: <<"escape", byte>>, or <<"u",     *)
(* unit>> for the four hexadecimal digits of a UTF-16 code unit.            *)
(***************************************************************************)
EXTENDS Integers, SequencesExt

CONSTANTS
    Bytes,      \* bytes a string is made of, none 0
    MaxLength   \* bound: bytes of a string

VARIABLE string

Init == string = <<>>

\* The caller's string: any bytes.
Next == Len(string) < MaxLength /\ \E b \in Bytes : string' = Append(string, b)

Spec == Init /\ [][Next]_string

-----------------------------------------------------------------------------
(* utf.c.                                                                  *)

utf8_encode(cp) ==
    CASE cp < 128 -> <<cp>>
      [] 128 <= cp /\ cp < 2048 -> <<192 + cp \div 64, 128 + (cp % 64)>>
      [] 2048 <= cp /\ cp < 65536 ->
           <<224 + cp \div 4096, 128 + ((cp \div 64) % 64), 128 + (cp % 64)>>
      [] 65536 <= cp ->
           <<240 + cp \div 262144, 128 + ((cp \div 4096) % 64),
             128 + ((cp \div 64) % 64), 128 + (cp % 64)>>

\* Length of the sequence a byte begins, 0 if it begins none.
utf8_check_first(u) ==
    CASE u < 128 -> 1
      [] 194 <= u /\ u <= 223 -> 2
      [] 224 <= u /\ u <= 239 -> 3
      [] 240 <= u /\ u <= 244 -> 4
      [] OTHER -> 0

Invalid == -1

overlong(value, size) ==
    \/ size = 2 /\ value < 128
    \/ size = 3 /\ value < 2048
    \/ size = 4 /\ value < 65536

\* The code point of a sequence of 2 to 4 bytes, or Invalid.
utf8_check_full(seq) ==
    LET size == Len(seq)
        first == Head(seq) % (CASE size = 2 -> 32 [] size = 3 -> 16 [] size = 4 -> 8)
        value == FoldLeft(LAMBDA v, u : v * 64 + (u % 64), first, Tail(seq))
    IN  IF \/ \E i \in 2 .. size : seq[i] \notin 128 .. 191
           \/ value > 1114111
           \/ value \in 55296 .. 57343
           \/ overlong(value, size)
          THEN Invalid ELSE value

\* The code point at the beginning of the bytes, or Invalid; its length is that
\* of utf8_check_first.
utf8_iterate(bytes) ==
    LET count == utf8_check_first(Head(bytes))
    IN  CASE count = 0 \/ count > Len(bytes) -> Invalid
          [] count = 1 -> Head(bytes)
          [] OTHER -> utf8_check_full(SubSeq(bytes, 1, count))

First(bytes) == SubSeq(bytes, 1, utf8_check_first(Head(bytes)))
AfterFirst(bytes) == SubSeq(bytes, utf8_check_first(Head(bytes)) + 1, Len(bytes))

RECURSIVE utf8_check_string(_)

utf8_check_string(bytes) ==
    bytes = <<>> \/ (utf8_iterate(bytes) # Invalid /\ utf8_check_string(AfterFirst(bytes)))

-----------------------------------------------------------------------------
(* dump_string.                                                            *)

Quote == 34
Backslash == 92
ShortEscapes == {Quote, Backslash, 8, 9, 10, 12, 13}

isEscaped(cp) == cp \in {Quote, Backslash} \/ cp < 32 \/ cp > 127

\* Mutant: a character beyond the BMP is written as one code unit.
OneUnit(cp) == <<<<"u", cp % 65536>>>>

\* One code unit, or a surrogate pair.
Units(cp) ==
    IF cp < 65536 THEN <<<<"u", cp>>>>
    ELSE <<<<"u", 55296 + (cp - 65536) \div 1024>>, <<"u", 56320 + (cp % 1024)>>>>

Escape(cp) == IF cp \in ShortEscapes THEN <<<<"escape", cp>>>> ELSE Units(cp)

RECURSIVE dump_string(_)

dump_string(bytes) ==
    IF bytes = <<>> THEN <<>>
    ELSE LET cp == utf8_iterate(bytes)
             text == IF isEscaped(cp) THEN Escape(cp)
                     ELSE [i \in DOMAIN First(bytes) |-> <<"raw", bytes[i]>>]
         IN  text \o dump_string(AfterFirst(bytes))

-----------------------------------------------------------------------------
(* lex_scan_string.                                                        *)

IsUnit(text, range) == text # <<>> /\ Head(text)[1] = "u" /\ Head(text)[2] \in range
LeadingUnits == 55296 .. 56319
TrailingUnits == 56320 .. 57343

RECURSIVE decode(_)

\* The bytes of the text; a code unit of the surrogate range that is no part of a
\* pair is an error, here the byte Invalid.
decode(text) ==
    IF text = <<>> THEN <<>>
    ELSE LET unit == Head(text)[2]
             rest == Tail(text)
         IN  CASE IsUnit(text, LeadingUnits) ->
                    IF IsUnit(rest, TrailingUnits)
                      THEN utf8_encode((unit - 55296) * 1024 + (Head(rest)[2] - 56320) + 65536)
                             \o decode(Tail(rest))
                      ELSE <<Invalid>>
               [] IsUnit(text, TrailingUnits) -> <<Invalid>>
               [] Head(text)[1] = "u" /\ unit \notin LeadingUnits \cup TrailingUnits ->
                    utf8_encode(unit) \o decode(rest)
               [] OTHER -> <<unit>> \o decode(rest)

-----------------------------------------------------------------------------
(* The well-formed UTF-8 byte sequences (Unicode, table 3-7).              *)

Tails == 128 .. 191
Sequences2 == <<194 .. 223, Tails>>
WellFormedForms ==
    {<<1 .. 127>>, Sequences2,
     <<{224}, 160 .. 191, Tails>>, <<225 .. 236, Tails, Tails>>,
     <<{237}, 128 .. 159, Tails>>, <<238 .. 239, Tails, Tails>>,
     <<{240}, 144 .. 191, Tails, Tails>>, <<241 .. 243, Tails, Tails, Tails>>,
     <<{244}, 128 .. 143, Tails, Tails>>}

RECURSIVE WellFormed(_)

WellFormed(bytes) ==
    bytes = <<>> \/ \E form \in WellFormedForms :
                     /\ Len(form) <= Len(bytes)
                     /\ \A i \in DOMAIN form : bytes[i] \in form[i]
                     /\ WellFormed(SubSeq(bytes, Len(form) + 1, Len(bytes)))

(* json_string accepts exactly the well-formed strings, and a string that  *)
(* is dumped and loaded again is the same bytes, whatever it needs to be   *)
(* escaped (dump.c:91-161, load.c:382-448, utf.c).                         *)
StringsSurvive ==
    /\ utf8_check_string(string) <=> WellFormed(string)
    /\ WellFormed(string) => decode(dump_string(string)) = string
=============================================================================
