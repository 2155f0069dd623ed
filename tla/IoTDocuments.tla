--------------------------- MODULE IoTDocuments ----------------------------
(***************************************************************************)
(* The documents the nodes exchange: commands (IoT/IoTCommand.h), rules    *)
(* (IoTRule.h) and device descriptions (IoTDevice.h), made and read with   *)
(* Utility/JsonUtility.cpp.  A document is its JSON value: that the text   *)
(* in between keeps the value is shown for json_dumps and json_loads by    *)
(* JsonDump and JsonParse.  One node makes a document or sends one of its  *)
(* own making, another reads it.                                           *)
(*                                                                         *)
(* A string that is no UTF-8, as a device may answer, cannot become a JSON *)
(* string.  std::string of a NULL pointer throws.                          *)
(***************************************************************************)
EXTENDS Integers, SequencesExt, FiniteSetsExt, TLC

CONSTANTS
    Texts,      \* strings that are UTF-8
    Raw,        \* a string that is not
    Numbers,    \* ActionFrequency, ReadFrequency
    NULL,
    Thrown      \* an exception

CommandTypes == {"Req", "Res", "Wri", "Man"}
RuleFields == <<"Type", "Name", "ReadFrom", "ReadID", "ReadValue",
                "WriteTo", "WriteID", "WriteValue", "WriteRul">>
ComTypes == {"Button", "Content", "Unknown"}

VARIABLES
    made,       \* <<kind, what the maker was given>>, NULL for any other document
    document,   \* what it sent: a JSON value, or NULL for a text that is none
    got         \* what the reader has, Thrown after an exception

vars == <<made, document, got>>

Init == made = NULL /\ document = NULL /\ got = NULL

-----------------------------------------------------------------------------
(* JSON values: <<"string", s>>, <<"number", n>>, <<"array", v, ...>> and  *)
(* <<"object", <<key, v>>, ...>>; jansson answers NULL for what is not     *)
(* there or not of the right type.                                         *)

Is(v, type) == v # NULL /\ v[1] = type

json_string(s) == IF s = Raw THEN NULL ELSE <<"string", s>>
json_string_value(v) == IF Is(v, "string") THEN v[2] ELSE NULL

Where(v, key) == {i \in 2 .. Len(v) : v[i][1] = key}
json_object_get(v, key) ==
    IF Is(v, "object") /\ Where(v, key) # {} THEN v[CHOOSE i \in Where(v, key) : TRUE][2] ELSE NULL

json_array_get(v, i) == IF Is(v, "array") /\ i < Len(v) THEN v[i + 1] ELSE NULL

-----------------------------------------------------------------------------
(* JsonUtility.                                                            *)

\* NULL stands for the exception that std::string of it throws.
GetFirstKeyName(root) == IF Is(root, "object") /\ Len(root) > 1 THEN root[2][1] ELSE NULL
FirstObject(root) == IF GetFirstKeyName(root) = NULL THEN NULL ELSE root[2][2]

GetValueInFirstObject(root, key) == json_string_value(json_object_get(FirstObject(root), key))

\* Mutant: a string that cannot be made is stored all the same.
SetNoValue(root, key, value) ==
    LET object == FirstObject(root)
    IN  IF Is(object, "object") /\ Where(object, key) # {}
          THEN [root EXCEPT ![2][2][CHOOSE i \in Where(object, key) : TRUE] =
                              <<key, json_string(value)>>]
          ELSE root

\* Only a key the first object has is set; json_object_set of no value fails, and
\* the old one stays.
SetValueInFirstObject(root, key, value) ==
    LET object == FirstObject(root)
    IN  IF Is(object, "object") /\ Where(object, key) # {} /\ json_string(value) # NULL
          THEN [root EXCEPT ![2][2][CHOOSE i \in Where(object, key) : TRUE] =
                              <<key, json_string(value)>>]
          ELSE root

\* A sequence of <<key, value>> set one after the other.
SetValues(root, values) ==
    FoldLeft(LAMBDA r, kv : SetValueInFirstObject(r, kv[1], kv[2]), root, values)

GetArrayLengthInFirstObject(root, name) ==
    LET array == json_object_get(FirstObject(root), name)
    IN  IF Is(array, "array") THEN Len(array) - 1 ELSE 0

GetArrayValueInFirstObject(root, name, i, key) ==
    json_string_value(json_object_get(
      json_array_get(json_object_get(FirstObject(root), name), i), key))

Document(name, members) == <<"object", <<name, <<"object">> \o members>>>>

\* std::to_string, atoi and stoi: the first makes 0 of what is no number, the
\* other throws.
to_string(n) == ToString(n)
stoi(text) == IF \E n \in Numbers : ToString(n) = text
                THEN CHOOSE n \in Numbers : ToString(n) = text ELSE Thrown
atoi(text) == IF stoi(text) = Thrown THEN 0 ELSE stoi(text)

\* The fields a reader asks for, or Thrown if one of them is not there.
Read(root, keys) ==
    IF \E i \in DOMAIN keys : GetValueInFirstObject(root, keys[i]) = NULL THEN Thrown
    ELSE [i \in DOMAIN keys |-> GetValueInFirstObject(root, keys[i])]

-----------------------------------------------------------------------------
(* IoTCommand.                                                             *)

CommandTemplate ==
    Document("IOTCMD", <<<<"Type", json_string("None")>>, <<"ID", json_string("0")>>,
                         <<"Value", json_string("0")>>>>)

PackCommand(type, id, value) ==
    SetValues(CommandTemplate, <<<<"Type", type>>, <<"ID", id>>, <<"Value", value>>>>)

\* IoTCommand(content): a document of another name leaves the members as they
\* are, and so does an unknown type the type.
ReadCommand(root) ==
    CASE GetFirstKeyName(root) = NULL -> Thrown
      [] GetFirstKeyName(root) # "IOTCMD" -> <<"unset", "", "">>
      [] OTHER ->
           LET fields == Read(root, <<"Type", "ID", "Value">>)
           IN  IF fields = Thrown \/ fields[1] \in CommandTypes THEN fields
               ELSE [fields EXCEPT ![1] = "unset"]

(* IoTRule.                                                                *)

RuleTemplate ==
    Document("IOTRUL", [i \in DOMAIN RuleFields |-> <<RuleFields[i], json_string("")>>]
                         \o <<<<"ActionFrequency", json_string("")>>>>)

PackRule(fields, frequency) ==
    SetValues(RuleTemplate, [i \in DOMAIN RuleFields |-> <<RuleFields[i], fields[i]>>]
                              \o <<<<"ActionFrequency", to_string(frequency)>>>>)

\* IoTRule(jsonContent).
ReadRule(root) ==
    IF root = NULL THEN NULL
    ELSE LET fields == Read(root, RuleFields \o <<"ActionFrequency">>)
         IN  IF fields = Thrown THEN fields
             ELSE [fields EXCEPT ![Len(RuleFields) + 1] = atoi(@)]

(* IoTDevice.                                                              *)

\* A description as the administrator of a device writes it: no code makes one.
Description(id, components) ==
    LET Part(c) == <<"object", <<"ID", json_string(c.id)>>, <<"Name", json_string(c.id)>>,
                     <<"Group", json_string(c.id)>>, <<"Type", json_string(c.type)>>>>
                   \o (IF c.frequency = NULL THEN <<>>
                       ELSE <<<<"ReadFrequency", json_string(c.frequency)>>>>)
    IN  Document("DeviceInfo",
          <<<<"DeviceID", json_string(id)>>, <<"DeviceName", json_string(id)>>,
            <<"FunctionGroup", json_string(id)>>,
            <<"Component", <<"array">> \o [i \in DOMAIN components |-> Part(components[i])]>>>>)

ReadComponent(root, i) ==
    LET Value(key) == GetArrayValueInFirstObject(root, "Component", i, key)
        type == IF Value("Type") \in {"Button", "Content"} THEN Value("Type") ELSE "Unknown"
    IN  IF \/ \E key \in {"ID", "Name", "Group", "Type"} : Value(key) = NULL
           \/ type = "Content" /\ (Value("ReadFrequency") = NULL \/ stoi(Value("ReadFrequency")) = Thrown)
          THEN Thrown
          ELSE [id |-> Value("ID"), type |-> type,
                frequency |-> IF type = "Content" THEN stoi(Value("ReadFrequency")) ELSE NULL]

\* SetJSDescription.
ReadDevice(root) ==
    LET fields == Read(root, <<"DeviceID", "DeviceName", "FunctionGroup">>)
        components == [i \in 1 .. GetArrayLengthInFirstObject(root, "Component")
                         |-> ReadComponent(root, i)]
    IN  IF fields = Thrown \/ Thrown \in Range(components) THEN Thrown
        ELSE <<fields[1], components>>

-----------------------------------------------------------------------------
Strings == Texts \cup {Raw}
Components == [id : Texts, type : ComTypes, frequency : {NULL, "soon"} \cup {to_string(n) : n \in Numbers}]

\* Rules whose fields are all one string, but one of them.
Fillings == {[i \in DOMAIN RuleFields |-> IF i = at THEN s ELSE other] :
               at \in DOMAIN RuleFields, s \in Strings, other \in Texts}

\* One document is sent and read; a text that is no JSON is none.
Make(m, d) == document = NULL /\ got = NULL /\ made' = m /\ document' = d /\ UNCHANGED got

makeCommand ==
    \E type \in CommandTypes, id \in Strings, value \in Strings :
      Make(<<"command", <<type, id, value>>>>, PackCommand(type, id, value))

makeRule ==
    \E fields \in Fillings, n \in Numbers :
      Make(<<"rule", Append(fields, n)>>, PackRule(fields, n))

describe ==
    \E id \in Texts, components \in UNION {[1 .. n -> Components] : n \in 0 .. 2} :
      Make(<<"device", <<id, components>>>>, Description(id, components))

\* A text of another maker: an array, an empty object, an object
\* whose first member is no object, lacks a field or has one that is no string.
Foreign ==
    {<<"array">>, <<"object">>, <<"object", <<"IOTCMD", json_string("x")>>>>,
     Document("IOTCMD", <<>>),
     Document("IOTCMD", <<<<"Type", json_string("Req")>>, <<"ID", <<"number", 1>>>>,
                          <<"Value", json_string("x")>>>>),
     Document("IOTCMD", <<<<"Type", json_string("Other")>>, <<"ID", json_string("x")>>,
                          <<"Value", json_string("x")>>>>)}

receiveForeign == \E d \in Foreign : Make(NULL, d)

\* Every reader is given the document.
read ==
    /\ got = NULL
    /\ got' = [command |-> ReadCommand(document), rule |-> ReadRule(document),
               device |-> ReadDevice(document)]
    /\ UNCHANGED <<made, document>>

Next == makeCommand \/ makeRule \/ describe \/ receiveForeign \/ read

Spec == Init /\ [][Next]_vars

-----------------------------------------------------------------------------
\* A string that is no UTF-8 is replaced by what the template has.
Sent(s, template) == IF s = Raw THEN template ELSE s

Readable(c) == c.type = "Content" => c.frequency # NULL /\ stoi(c.frequency) # Thrown

Meant(c) == [c EXCEPT !.frequency = IF c.type = "Content" THEN stoi(@) ELSE NULL]

(* A reader gets what the maker put in, field by field, except that the    *)
(* default of the template replaces a string that is no UTF-8 (a value of  *)
(* a device is then reported as 0).  A reader fails as a whole or not at   *)
(* all: one component that cannot be read fails the description.           *)
DocumentsArrive ==
    (got # NULL /\ made # NULL) =>
      LET given == made[2]
      IN  CASE made[1] = "command" ->
                 /\ got.command = <<given[1], Sent(given[2], "0"), Sent(given[3], "0")>>
                 /\ got.rule = Thrown /\ got.device = Thrown
            [] made[1] = "rule" ->
                 /\ got.rule = [i \in DOMAIN given |-> Sent(given[i], "")]
                 /\ got.command[1] = "unset" /\ got.device = Thrown
            [] made[1] = "device" ->
                 IF \E i \in DOMAIN given[2] : ~ Readable(given[2][i])
                   THEN got.device = Thrown
                   ELSE got.device = <<given[1], [i \in DOMAIN given[2] |-> Meant(given[2][i])]>>
=============================================================================
