----------------------------- MODULE HttpValues -----------------------------
(***************************************************************************)
(* The calls whose handlers answer with a value of a type, as generated    *)
(* code does, and what deserialize makes of the reply.                     *)
(***************************************************************************)
EXTENDS HttpMessages, Serializers

ASSUME AnswersAssumption == \A c \in Calls : c.answer = Serialize(c.result)

\* json::parse throws an exception of its own for what is no JSON.
ValueRead(type, payload) ==
  IF Json(payload) = {} THEN Throws("parse_error")
  ELSE Deserialize(type, CHOOSE j \in Json(payload) : TRUE)

-----------------------------------------------------------------------------
\* Values without a quote to escape, an optional without value or a double
\* that six decimals and 31 characters do not hold.
RECURSIVE Plain(_)
Plain(v) ==
  CASE v[1] = "string" -> None(v[2], {Quote})
    [] v[1] = "double" -> Printed[v[2]] = v[2] /\ v[2] \in Floats
    [] v[1] \in {"absent", "empty"} -> FALSE
    [] v[1] = "vector" -> \A i \in DOMAIN v[2] : Plain(v[2][i])
    [] v[1] = "map" -> \A i \in DOMAIN v[2] : None(v[2][i][1], {Quote}) /\ Plain(v[2][i][2])
    [] OTHER -> TRUE

\* The kinds of JSON that values of a type are written as, and those that
\* deserialize turns down with a ParseError.
JsonKinds == {"str", "int", "float", "bool", "null", "array", "object"}

RECURSIVE Written(_), TurnedDown(_)
Written(T) ==
  CASE T[1] = "string" -> {"str"}
    [] T[1] = "int" -> {"int"}
    [] T[1] = "double" -> {"float"}
    [] T[1] \in {"bool", "null"} -> {T[1]}
    [] T[1] = "empty" -> {}
    [] T[1] = "optional" -> Written(T[2])
    [] T[1] = "vector" -> {"array"}
    [] T[1] = "map" -> {"object"}
    [] T[1] = "variant" -> Written(T[2]) \cup Written(T[3])

TurnedDown(T) ==
  CASE T[1] = "string" -> JsonKinds \ {"str", "object"}
    [] T[1] = "int" -> JsonKinds \ {"int"}
    [] T[1] = "null" -> JsonKinds \ {"null"}
    [] T[1] = "map" -> JsonKinds \ {"object"}
    [] T[1] = "optional" -> TurnedDown(T[2]) \ {"null"}
    [] T[1] = "variant" -> TurnedDown(T[2]) \cap TurnedDown(T[3])
    [] OTHER -> {}

\* Everything a later alternative is written as is turned down by the earlier
\* one, and null is only written for an optional that has no value.
RECURSIVE Unambiguous(_)
Unambiguous(T) ==
  CASE T[1] = "variant" ->
         /\ Unambiguous(T[2]) /\ Unambiguous(T[3])
         /\ Written(T[3]) \subseteq TurnedDown(T[2])
    [] T[1] = "optional" -> Unambiguous(T[2]) /\ "null" \notin Written(T[2])
    [] T[1] \in {"vector", "map"} -> Unambiguous(T[2])
    [] OTHER -> TRUE

\* A plain value of an unambiguous type comes back from a reply as it is.
ValuesComeBack ==
  stage = "response" /\ Plain(call.result) /\ Unambiguous(call.type) =>
    ValueRead(call.type, response.payload) = Got(call.result)

=============================================================================
