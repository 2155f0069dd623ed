------------------------------ MODULE JsonLex ------------------------------
(***************************************************************************)
(* The lexer of jansson2.7/load.c: stream_get and its push-back, lex_scan, *)
(* lex_scan_number and lex_scan_string.  One action is what happens        *)
(* between two characters, so each handles the character c that was read   *)
(* last.  A character stands for its class; "true" stands for the letters  *)
(* of that word, and the four hexadecimal digits of an escape are one      *)
(* character, named for the kind of code unit they give.  That a byte is   *)
(* not saved because memory is short, which lex_save ignores, is left out. *)
(***************************************************************************)
EXTENDS Integers, SequencesExt

CONSTANTS
    MaxBytes,   \* bound: characters of the text
    MaxDigits   \* digits of an integer that fits json_int_t, and of the exponent of a double

Digits == {"0", "1"}
Letters == {"e", "n", "u", "true"}
Blanks == {"space"}
Punctuation == {","}                    \* { } [ ] : and the comma
CodeUnits == {"high", "low", "plain"}   \* what \uXXXX gives
Escapable == {"quote", "backslash", "n"}

End == {"EOF", "ERROR"}

VARIABLES
    buffer,     \* stream->buffer: the UTF-8 sequence read last
    pos,        \* stream->buffer_pos
    state,      \* stream->state
    c,          \* the character the code looks at
    saved,      \* lex->saved_text
    token,      \* lex->token
    string,     \* lex->value.string
    pc,
    read,       \* characters read since the first of this token
    bytes       \* characters of the text so far

stream == <<buffer, pos, state, read, bytes>>
vars == <<stream, c, saved, token, string, pc>>

Init ==
    /\ buffer = <<>> /\ pos = 0 /\ state = "OK" /\ read = <<>> /\ bytes = 0
    /\ c = "EOF" /\ saved = <<>> /\ token = "INVALID" /\ string = <<>>
    /\ pc = "start"

-----------------------------------------------------------------------------
(* The stream.                                                             *)

\* Bytes of the buffer that were not given out, or were put back.
Rest == SubSeq(buffer, pos + 1, Len(buffer))

\* Characters the text may go on with: the classes a place tells apart.
Offered(at) ==
    CASE at = "start" -> Digits \cup Letters \cup Blanks \cup Punctuation
                           \cup {"quote", "-", "control", "lead"}
      [] at = "string" -> {"quote", "backslash", "e", "control", "lead"}
      [] at = "escape" -> Escapable \cup {"u", "e"}
      [] at = "hex" -> CodeUnits \cup {"quote"}
      [] at = "identifier" -> Letters \cup {"0", ",", "lead"}
      [] OTHER -> Digits \cup {"e", ".", "+", "-", ","}

\* A two-byte sequence is read as a whole and given out byte by byte.
Sequence(ch) == IF ch = "lead" THEN <<"lead", "continuation">> ELSE <<ch>>

\* stream_get for the place it is called from; the end of the text and a broken
\* sequence last.
stream_get(at, before) ==
    \/ /\ state # "OK" /\ c' = state
       /\ read' = before
       /\ UNCHANGED <<buffer, pos, state, bytes>>
    \/ /\ state = "OK" /\ pos < Len(buffer)
       /\ c' = buffer[pos + 1] /\ pos' = pos + 1
       /\ read' = before
       /\ UNCHANGED <<buffer, state, bytes>>
    \/ /\ state = "OK" /\ pos = Len(buffer)
       /\ \/ /\ \E ch \in Offered(at) :
                  /\ c' = ch /\ buffer' = Sequence(ch) /\ pos' = 1
                  /\ read' = before \o Sequence(ch)
                  /\ bytes' = bytes + Len(Sequence(ch))
                  /\ bytes' <= MaxBytes
             /\ UNCHANGED state
          \/ /\ \E end \in End : state' = end /\ c' = end
             /\ read' = before
             /\ UNCHANGED <<buffer, pos, bytes>>

\* stream_unget: the last byte given out is put back.
stream_unget ==
    /\ pos' = IF c \in End THEN pos ELSE pos - 1
    /\ UNCHANGED <<buffer, state, read, bytes, c>>

Unsaved(text) == IF c \in End THEN text ELSE Front(text)

\* lex_get_save after text was saved.
lex_get_save(at, text) ==
    /\ stream_get(at, read)
    /\ saved' = IF c' \in End THEN text ELSE Append(text, c')
    /\ pc' = at
    /\ UNCHANGED <<token, string>>

\* lex_scan returns: the parser goes on unless the text is at an end.
Return(t) ==
    /\ token' = t
    /\ pc' = IF t \in {"INVALID", "EOF"} THEN "done" ELSE "start"

\* Mutant: the character after the token is put back but stays in its text.
put_back_saved(t) == stream_unget /\ Return(t) /\ UNCHANGED <<saved, string>>

\* lex_unget_unsave, and the token ends before c.
lex_unget_unsave(t) ==
    /\ stream_unget
    /\ saved' = Unsaved(saved)
    /\ Return(t)
    /\ UNCHANGED string

ReturnHere(t) == Return(t) /\ UNCHANGED <<stream, c, saved, string>>

-----------------------------------------------------------------------------
(* lex_scan.                                                               *)

lex_scan ==
    /\ pc = "start"
    /\ stream_get("start", Rest)
    /\ saved' = <<>>
    /\ string' = <<>>
    /\ pc' = "first"
    /\ UNCHANGED token

skipBlank ==
    /\ pc = "first" /\ c \in Blanks
    /\ stream_get("start", Rest)
    /\ UNCHANGED <<saved, token, string, pc>>

\* The first character decides what is scanned; one that begins no token is
\* saved with the rest of its sequence (lex_save_cached).
scanFirst ==
    /\ pc = "first"
    /\ \/ c = "EOF" /\ ReturnHere("EOF")
       \/ c = "ERROR" /\ ReturnHere("INVALID")
       \/ /\ c \in Punctuation
          /\ saved' = <<c>> /\ Return(c)
          /\ UNCHANGED <<stream, c, string>>
       \/ c = "quote" /\ lex_get_save("string", <<c>>)
       \/ c = "-" /\ lex_get_save("integer", <<c>>)
       \/ c = "0" /\ lex_get_save("zero", <<c>>)
       \/ c \in Digits \ {"0"} /\ lex_get_save("digits", <<c>>)
       \/ c \in Letters /\ lex_get_save("identifier", <<c>>)
       \/ /\ c \in {"control", "lead"}
          /\ saved' = <<c>> \o Rest /\ pos' = Len(buffer)
          /\ Return("INVALID")
          /\ UNCHANGED <<buffer, state, read, bytes, c, string>>

scanIdentifier ==
    /\ pc = "identifier"
    /\ IF c \in Letters THEN lex_get_save("identifier", saved)
       ELSE lex_unget_unsave(IF Unsaved(saved) = <<"true">> THEN "true" ELSE "INVALID")

-----------------------------------------------------------------------------
(* lex_scan_number.                                                        *)

\* What follows the integer part: the point is read without being saved.
AfterInteger ==
    CASE c = "." -> /\ stream_get("fraction", read)
                    /\ pc' = "fraction"
                    /\ UNCHANGED <<saved, token, string>>
      [] c = "e" -> lex_get_save("exponent", saved)
      [] OTHER -> lex_unget_unsave(
                    IF Cardinality({i \in DOMAIN Unsaved(saved) : saved[i] \in Digits}) > MaxDigits
                      THEN "INVALID" ELSE "INTEGER")

\* jsonp_strtod refuses a number that is larger than any double: by its exponent, no
\* text here being long enough to be so without.
Overflows(text) ==
    \E e, j \in DOMAIN text :
        /\ text[e] = "e" /\ "1" \in Range(SubSeq(text, 1, e))
        /\ "-" \notin Range(SubSeq(text, e, j))
        /\ e < j /\ text[j] = "1" /\ Len(text) - j >= MaxDigits

scanReal == lex_unget_unsave(IF Overflows(Unsaved(saved)) THEN "INVALID" ELSE "REAL")

scanInteger ==
    \/ /\ pc = "integer"
       /\ CASE c = "0" -> lex_get_save("zero", saved)
            [] c \in Digits \ {"0"} -> lex_get_save("digits", saved)
            [] OTHER -> lex_unget_unsave("INVALID")
    \/ pc = "zero" /\ IF c \in Digits THEN lex_unget_unsave("INVALID") ELSE AfterInteger
    \/ pc = "digits" /\ IF c \in Digits THEN lex_get_save("digits", saved) ELSE AfterInteger

\* c was read by lex_get: it is saved only now.
scanFraction ==
    \/ /\ pc = "fraction"
       /\ IF c \in Digits THEN lex_get_save("decimals", Append(saved, c))
          ELSE stream_unget /\ Return("INVALID") /\ UNCHANGED <<saved, string>>
    \/ /\ pc = "decimals"
       /\ CASE c \in Digits -> lex_get_save("decimals", saved)
            [] c = "e" -> lex_get_save("exponent", saved)
            [] OTHER -> scanReal

scanExponent ==
    \/ /\ pc = "exponent" /\ c \in {"+", "-"}
       /\ lex_get_save("power", saved)
    \/ /\ pc \in {"exponent", "power"} /\ ~ (pc = "exponent" /\ c \in {"+", "-"})
       /\ IF c \in Digits THEN lex_get_save("powers", saved) ELSE lex_unget_unsave("INVALID")
    \/ /\ pc = "powers"
       /\ IF c \in Digits THEN lex_get_save("powers", saved) ELSE scanReal

-----------------------------------------------------------------------------
(* lex_scan_string.                                                        *)

RECURSIVE DecodeFrom(_, _)

Broken(value) == value # <<>> /\ Last(value) = "broken"

\* The second pass over the saved text, from p to the closing quote; two code
\* units make one character, others of the surrogate range are an error.
DecodeFrom(text, p) ==
    LET Then(value, next) ==
          LET rest == DecodeFrom(text, next)
          IN  IF Broken(rest) THEN <<"broken">> ELSE value \o rest
        Unit(i) == IF text[i] = "backslash" /\ text[i + 1] = "u" THEN text[i + 2] ELSE "none"
    IN  CASE text[p] = "quote" -> <<>>
          [] Unit(p) = "plain" -> Then(<<"plain">>, p + 3)
          [] Unit(p) = "high" -> IF Unit(p + 3) = "low" THEN Then(<<"pair">>, p + 6) ELSE <<"broken">>
          [] Unit(p) = "low" -> <<"broken">>
          [] text[p] = "backslash" -> Then(<<"escaped", text[p + 1]>>, p + 2)
          [] OTHER -> Then(<<text[p]>>, p + 1)

scanString ==
    /\ pc = "string"
    /\ CASE c = "quote" ->
              LET value == DecodeFrom(saved, 2)
              IN  /\ string' = value
                  /\ Return(IF Broken(value) THEN "INVALID" ELSE "STRING")
                  /\ UNCHANGED <<stream, c, saved>>
         [] c \in End -> ReturnHere("INVALID")
         [] c = "control" -> lex_unget_unsave("INVALID")
         [] c = "backslash" -> lex_get_save("escape", saved)
         [] OTHER -> lex_get_save("string", saved)

scanEscape ==
    \/ /\ pc = "escape"
       /\ CASE c = "u" -> lex_get_save("hex", saved)
            [] c \in Escapable -> lex_get_save("string", saved)
            [] OTHER -> ReturnHere("INVALID")
    \/ /\ pc = "hex"
       /\ IF c \in CodeUnits THEN lex_get_save("string", saved) ELSE ReturnHere("INVALID")

Next ==
    \/ lex_scan \/ skipBlank \/ scanFirst \/ scanIdentifier
    \/ scanInteger \/ scanFraction \/ scanExponent
    \/ scanString \/ scanEscape

Spec == Init /\ [][Next]_vars

-----------------------------------------------------------------------------
(* What a token is: RFC 7159.                                              *)

All(text, set) == text # <<>> /\ Range(text) \subseteq set
After(text, firsts) == IF text # <<>> /\ text[1] \in firsts THEN Tail(text) ELSE text

IsInteger(text) ==
    LET digits == After(text, {"-"})
    IN  All(digits, Digits) /\ (digits[1] = "0" => Len(digits) = 1)

IsFraction(text) == text # <<>> /\ text[1] = "." /\ All(Tail(text), Digits)
IsExponent(text) == text # <<>> /\ text[1] = "e" /\ All(After(Tail(text), {"+", "-"}), Digits)

IsReal(text) ==
    \E i, j \in 1 .. Len(text) :
      LET fraction == SubSeq(text, i + 1, j)
          exponent == SubSeq(text, j + 1, Len(text))
      IN  /\ i <= j /\ i < Len(text)
          /\ IsInteger(SubSeq(text, 1, i))
          /\ fraction = <<>> \/ IsFraction(fraction)
          /\ exponent = <<>> \/ IsExponent(exponent)

\* One character of a string: how it is written and what it means.
Characters ==
    {<<<<"e">>, <<"e">>>>, <<<<"lead", "continuation">>, <<"lead", "continuation">>>>,
     <<<<"backslash", "u", "plain">>, <<"plain">>>>,
     <<<<"backslash", "u", "high", "backslash", "u", "low">>, <<"pair">>>>}
    \cup {<<<<"backslash", ch>>, <<"escaped", ch>>>> : ch \in Escapable}

\* What a text between quotes stands for; {} if it is no string.
Strings(text) ==
    LET n == Len(text)
        values[i \in 2 .. n] ==
          IF i = n THEN {<<>>}
          ELSE UNION {{ch[2] \o v : v \in values[i + Len(ch[1])]} :
                        ch \in {each \in Characters : /\ i + Len(each[1]) <= n
                                                      /\ SubSeq(text, i, i + Len(each[1]) - 1) = each[1]}}
    IN  IF n > 1 /\ text[1] = "quote" /\ text[n] = "quote" THEN values[2] ELSE {}

Kind(text) ==
    CASE text = <<"true">> -> "true"
      [] text \in {<<p>> : p \in Punctuation} -> ","
      [] IsInteger(text) -> "INTEGER"
      [] IsReal(text) -> "REAL"
      [] Strings(text) # {} -> "STRING"
      [] OTHER -> "INVALID"

Delimiters == Punctuation \cup Blanks

(* lex_scan returns the longest token of the text, keeps exactly its       *)
(* characters and puts back exactly what follows it; it rejects a text     *)
(* only if it does not begin with a token and a delimiter, or with an      *)
(* integer or a real number out of range.  A string is decoded to the      *)
(* characters written.                                                     *)
ScansTokens ==
    (pc \in {"start", "done"} /\ saved # <<>>) =>
      /\ read = saved \o Rest
      /\ token = "STRING" => string \in Strings(saved)
      /\ IF token # "INVALID" THEN Kind(saved) = token
         ELSE \A n \in 1 .. Len(read) :
                LET text == SubSeq(read, 1, n)
                IN  Kind(text) # "INVALID" =>
                      \/ n < Len(read) /\ read[n + 1] \notin Delimiters
                      \/ IsInteger(text) /\ Len(After(text, {"-"})) > MaxDigits
                      \/ IsReal(text) /\ Overflows(text)
=============================================================================
