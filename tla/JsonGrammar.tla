---------------------------- MODULE JsonGrammar ----------------------------
(***************************************************************************)
(* What a JSON text is and what it means, as a set of pairs of a text and  *)
(* its value: the promise of jansson's json_loads and json_dumps.  A text  *)
(* is a sequence of tokens.  A value is a tuple that begins with its type; *)
(* an object lists its pairs of key and value in the order of their first  *)
(* appearance, and the last value given for a key counts.                  *)
(***************************************************************************)
EXTENDS Integers, SequencesExt

CONSTANTS
    Strings,    \* tokens that are strings
    MaxTokens   \* bound: tokens of a text

Atoms == {"integer", "true"}
Punctuation == {"{", "}", "[", "]", ":", ","}

\* The object with one more pair, or with another value for a key it has.
Put(object, key, value) ==
    LET at == {i \in 2 .. Len(object) : object[i][1] = key}
    IN  IF at = {} THEN Append(object, <<key, value>>)
        ELSE [object EXCEPT ![CHOOSE i \in at : TRUE] = <<key, value>>]

PutAll(members) ==
    FoldLeft(LAMBDA object, m : Put(object, m[1], m[2]), <<"object">>, members)

Wrap(open, text, close) == <<open>> \o text \o <<close>>

Join(first, rest) == {<<f[1] \o <<",">> \o r[1], f[2] \o r[2]>> : f \in first, r \in rest}

Singly(pairs) == {<<p[1], <<p[2]>>>> : p \in pairs}

RECURSIVE Values(_), Elements(_), Members(_)

\* The texts of n tokens that are a value, each with that value.
Values(n) ==
    CASE n <= 0 -> {}
      [] n = 1 -> {<<<<s>>, <<"string", s>>>> : s \in Strings} \cup {<<<<a>>, <<a>>>> : a \in Atoms}
      [] n = 2 -> {<<<<"[", "]">>, <<"array">>>>, <<<<"{", "}">>, <<"object">>>>}
      [] OTHER -> {<<Wrap("[", e[1], "]"), <<"array">> \o e[2]>> : e \in Elements(n - 2)}
                  \cup {<<Wrap("{", m[1], "}"), PutAll(m[2])>> : m \in Members(n - 2)}

Elements(n) ==
    Singly(Values(n)) \cup UNION {Join(Singly(Values(i)), Elements(n - i - 1)) : i \in 1 .. n - 2}

Members(n) ==
    LET Member(i) == {<<<<s, ":">> \o v[1], <<s, v[2]>>>> : s \in Strings, v \in Values(i - 2)}
    IN  Singly(Member(n)) \cup UNION {Join(Singly(Member(i)), Members(n - i - 1)) : i \in 3 .. n - 4}

RECURSIVE Spell(_)

\* The shortest text of a value.
Spell(v) ==
    LET Parts == CASE v[1] = "array" -> [i \in 1 .. Len(v) - 1 |-> Spell(v[i + 1])]
                   [] OTHER -> [i \in 1 .. Len(v) - 1 |->
                                  <<v[i + 1][1], ":">> \o Spell(v[i + 1][2])]
        List(parts) == FoldLeft(LAMBDA text, p : text \o <<",">> \o p, Head(parts), Tail(parts))
        Commas(parts) == IF parts = <<>> THEN <<>> ELSE List(parts)
    IN  CASE v[1] = "string" -> <<v[2]>>
          [] v[1] = "array" -> Wrap("[", Commas(Parts), "]")
          [] v[1] = "object" -> Wrap("{", Commas(Parts), "}")
          [] OTHER -> <<v[1]>>

\* The texts and values of one array or object.
Documents == UNION {Values(n) \ Values(1) : n \in 2 .. MaxTokens}
Texts == {d[1] : d \in Documents}
=============================================================================
