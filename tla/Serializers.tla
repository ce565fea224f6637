----------------------------- MODULE Serializers -----------------------------
(***************************************************************************)
(* base_serializers.hpp: serialize and deserialize of every type that      *)
(* generated code can put together, and the JSON text between them.        *)
(*                                                                         *)
(* Types, values and JSON are tuples whose first component says what they  *)
(* are.  A text is a sequence of tokens; the text of a string is its       *)
(* characters between quotes, that of a number or a literal is one token.  *)
(***************************************************************************)
EXTENDS Naturals, Sequences, FiniteSets, SequencesExt

CONSTANTS
  Ints,       \* tokens that are integers in JSON
  Floats,     \* tokens that are other numbers in JSON
  Doubles,    \* the doubles: one with the name of a token of Floats is what it denotes
  Printed,    \* Printed[d]: the first 31 characters of d with six decimals
  AsDouble    \* AsDouble[i]: the double that an integer converts to

ASSUME NumbersAssumption ==
  /\ Ints \cap Floats = {} /\ Floats \subseteq Doubles
  /\ DOMAIN Printed = Doubles /\ AsDouble \in [Ints -> Doubles]

\* Types: <<"string">>, <<"int">>, <<"double">>, <<"bool">>, <<"null">>,
\* <<"empty">>, <<"optional", T>>, <<"vector", T>>, <<"map", T>> with strings as keys,
\* <<"variant", A, B>>.
\* Values: <<type's name, token or characters>>, <<"null">>, <<"empty">>,
\* <<"absent">> for an optional without a value (one that has a value is that
\* value), <<"vector", sequence>>, <<"map", sequence of <<key, value>> >>.  A variant
\* is the value of its alternative.

Absent == <<"absent">>

-----------------------------------------------------------------------------
(* serialize *)

Quote == "\""

\* std::string: no escaping.
Quoted(chars) == <<Quote>> \o chars \o <<Quote>>

\* The texts with a mark between them.
Joined(texts, mark) ==
  FoldLeft(LAMBDA acc, t : IF acc = <<>> THEN t ELSE acc \o <<mark>> \o t, <<>>, texts)

RECURSIVE Serialize(_)

\* std::vector: elements without a text are left out.
VectorText(items) ==
  <<"[">>
  \o Joined(SelectSeq([i \in DOMAIN items |-> Serialize(items[i])], LAMBDA t : t # <<>>), ",")
  \o <<"]">>

\* std::map: values without a text are not.
MapText(entries) ==
  <<"{">>
  \o Joined([i \in DOMAIN entries |-> Quoted(entries[i][1]) \o <<":">> \o Serialize(entries[i][2])], ",")
  \o <<"}">>

Serialize(v) ==
  CASE v[1] = "string" -> Quoted(v[2])
    [] v[1] \in {"int", "bool"} -> <<v[2]>>
    [] v[1] = "double" -> <<Printed[v[2]]>>
    [] v[1] = "null" -> <<"null">>
    [] v[1] \in {"absent", "empty"} -> <<>>
    [] v[1] = "vector" -> VectorText(v[2])
    [] v[1] = "map" -> MapText(v[2])

-----------------------------------------------------------------------------
(* nlohmann::json::parse.  JSON values: <<"str", characters>>, <<"int",      *)
(* token>>, <<"float", token>>, <<"literal", token>>, <<"array", sequence>>, *)
(* <<"object", sequence of <<key, value>> >>.  Read(s) is the value that s    *)
(* begins with and the text after it, as a set, empty if there is none.    *)

Literals == {"true", "false", "null"}

ReadString(s) ==
  IF s = <<>> \/ s[1] # Quote \/ ~Contains(Tail(s), Quote) THEN {}
  ELSE LET end == SelectInSeq(Tail(s), LAMBDA c : c = Quote) + 1
       IN  {<<SubSeq(s, 2, end - 1), SubSeq(s, end + 1, Len(s))>>}

RECURSIVE Read(_), ReadItems(_), ReadMembers(_)

Starts(s, tokens) == s # <<>> /\ s[1] \in tokens

\* The elements up to the closing bracket, of a sequence that has some.
ReadItems(s) ==
  UNION {IF Starts(r[2], {"]"}) THEN {<<(<<r[1]>>), Tail(r[2])>>}
         ELSE IF Starts(r[2], {","}) THEN {<<(<<r[1]>> \o q[1]), q[2]>> : q \in ReadItems(Tail(r[2]))}
         ELSE {} : r \in Read(s)}

ReadMember(s) ==
  UNION {IF Starts(k[2], {":"}) THEN {<<(<<k[1], r[1]>>), r[2]>> : r \in Read(Tail(k[2]))} ELSE {} :
           k \in ReadString(s)}

ReadMembers(s) ==
  UNION {IF Starts(r[2], {"}"}) THEN {<<(<<r[1]>>), Tail(r[2])>>}
         ELSE IF Starts(r[2], {","}) THEN {<<(<<r[1]>> \o q[1]), q[2]>> : q \in ReadMembers(Tail(r[2]))}
         ELSE {} : r \in ReadMember(s)}

Read(s) ==
  CASE Starts(s, Ints) -> {<<(<<"int", s[1]>>), Tail(s)>>}
    [] Starts(s, Floats) -> {<<(<<"float", s[1]>>), Tail(s)>>}
    [] Starts(s, Literals) -> {<<(<<"literal", s[1]>>), Tail(s)>>}
    [] Starts(s, {Quote}) -> {<<(<<"str", r[1]>>), r[2]>> : r \in ReadString(s)}
    [] Starts(s, {"["}) ->
         IF Starts(Tail(s), {"]"}) THEN {<<(<<"array", <<>> >>), SubSeq(s, 3, Len(s))>>}
         ELSE {<<(<<"array", r[1]>>), r[2]>> : r \in ReadItems(Tail(s))}
    [] Starts(s, {"{"}) ->
         IF Starts(Tail(s), {"}"}) THEN {<<(<<"object", <<>> >>), SubSeq(s, 3, Len(s))>>}
         ELSE {<<(<<"object", r[1]>>), r[2]>> : r \in ReadMembers(Tail(s))}
    [] OTHER -> {}

\* The JSON values that are denoted by all of s: one or none.
Json(s) == {r[1] : r \in {q \in Read(s) : q[2] = <<>>}}

-----------------------------------------------------------------------------
(* deserialize: the value, or the exception that leaves it.  ParseError is  *)
(* the library's, type_error is thrown by json itself.                     *)

Got(v) == <<"got", v>>
Throws(exception) == <<exception>>

\* What a loop that stores element after element ends with.
Elements(outcomes, name) ==
  IF \A i \in DOMAIN outcomes : outcomes[i][1] = "got"
    THEN Got(<<name, [i \in DOMAIN outcomes |-> outcomes[i][2]]>>)
    ELSE outcomes[CHOOSE i \in DOMAIN outcomes :
           outcomes[i][1] # "got" /\ \A k \in 1..i - 1 : outcomes[k][1] = "got"]

RECURSIVE Deserialize(_, _)

DeserializeString(j) ==
  IF j = <<"object", <<>> >> THEN Got(<<"string", <<>> >>)
  ELSE IF j[1] = "str" THEN Got(<<"string", j[2]>>) ELSE Throws("ParseError")

DeserializeBool(j) ==
  IF j[1] = "literal" /\ j[2] # "null" THEN Got(<<"bool", j[2]>>) ELSE Throws("type_error")

DeserializeInt(j) == IF j[1] = "int" THEN Got(<<"int", j[2]>>) ELSE Throws("ParseError")

DeserializeDouble(j) ==
  CASE j[1] = "float" -> Got(<<"double", j[2]>>)
    [] j[1] = "int" -> Got(<<"double", AsDouble[j[2]]>>)
    [] OTHER -> Throws("type_error")

DeserializeNull(j) ==
  IF j = <<"literal", "null">> THEN Got(<<"null">>) ELSE Throws("ParseError")

\* An empty json compares equal to null.
DeserializeOptional(T, j) ==
  IF j = <<"literal", "null">> THEN Got(Absent) ELSE Deserialize(T, j)

\* payload[i] throws for everything that has a size but is no array: an
\* object has as many as it has members, a string, number or boolean one.
DeserializeVector(T, j) ==
  CASE j[1] = "array" ->
         Elements([i \in DOMAIN j[2] |-> Deserialize(T, j[2][i])], "vector")
    [] j \in {<<"literal", "null">>, <<"object", <<>> >>} -> Got(<<"vector", <<>> >>)
    [] OTHER -> Throws("type_error")

DeserializeMap(T, j) ==
  IF j[1] # "object" THEN Throws("ParseError")
  ELSE LET e == Elements([i \in DOMAIN j[2] |-> Deserialize(T, j[2][i][2])], "map")
       IN  IF e[1] # "got" THEN e
           ELSE Got(<<"map", [i \in DOMAIN j[2] |-> <<j[2][i][1], e[2][2][i]>>]>>)

\* (mutant) the alternatives are tried from the last one
DeserializeVariantBackwards(A, B, j) ==
  LET first == Deserialize(B, j)
  IN  IF first[1] = "ParseError" THEN Deserialize(A, j) ELSE first

\* The first alternative that does not throw a ParseError; a type_error is
\* not caught.
DeserializeVariant(A, B, j) ==
  LET first == Deserialize(A, j)
  IN  IF first[1] = "ParseError" THEN Deserialize(B, j) ELSE first

Deserialize(T, j) ==
  CASE T[1] = "string" -> DeserializeString(j)
    [] T[1] = "bool" -> DeserializeBool(j)
    [] T[1] = "int" -> DeserializeInt(j)
    [] T[1] = "double" -> DeserializeDouble(j)
    [] T[1] = "null" -> DeserializeNull(j)
    [] T[1] = "empty" -> Got(<<"empty">>)
    [] T[1] = "optional" -> DeserializeOptional(T[2], j)
    [] T[1] = "vector" -> DeserializeVector(T[2], j)
    [] T[1] = "map" -> DeserializeMap(T[2], j)
    [] T[1] = "variant" -> DeserializeVariant(T[2], T[3], j)

=============================================================================
