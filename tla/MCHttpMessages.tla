--------------------------- MODULE MCHttpMessages ---------------------------
(* Instances of HttpMessages and HttpValues for TLC. *)
EXTENDS HttpValues

-----------------------------------------------------------------------------
(* URLs: the start of one, followed by anything. *)

MCNumbers == {"8080", "65535", "65536", "0"}

MCValueOf == ("8080" :> 8080) @@ ("65535" :> 65535) @@ ("65536" :> 65536) @@ ("0" :> 0)

MCDefaultPort == ("http" :> 80) @@ ("https" :> 443) @@ ("sap" :> 9875)

Mark == <<":", "/", "/">>

Starts4 == {<<>>, <<"http", ":", "/">>, <<"h">> \o Mark, <<"https">> \o Mark, <<"sap">> \o Mark}

UpTo(n, S) == UNION {[1..k -> S] : k \in 0..n}

Texts ==
  {a \o b : a \in Starts4, b \in UpTo(4, {":", "/", "h", "65535", "65536"})}
  \cup {<<"http">> \o Mark \o b : b \in UpTo(5, {":", "/", "h", "8080", "0", " ", "-", "+"})}

MCTokens == {":", "/", " ", "-", "+", "http", "https", "sap", "h"} \cup MCNumbers

\* A text without adjacent numbers.
Wellformed(t) == \A i \in 1..Len(t) - 1 : ~{t[i], t[i + 1]} \subseteq MCNumbers

-----------------------------------------------------------------------------
(* Values. *)

MCInts == {"7"}
MCFloats == {"7.000000", "0.500000", "0.123457", "1e30"}
MCDoubles == MCFloats \cup {"0.1234567", "1e300", "nan"}

MCPrinted ==
  [d \in MCDoubles |-> CASE d = "0.1234567" -> "0.123457" [] d = "1e300" -> "1e30" [] OTHER -> d]

MCAsDouble == "7" :> "7.000000"

TString == <<"string">>
TInt == <<"int">>
TDouble == <<"double">>
TBool == <<"bool">>
TNull == <<"null">>
Opt(T) == <<"optional", T>>
Vec(T) == <<"vector", T>>
Map(T) == <<"map", T>>
Var(A, B) == <<"variant", A, B>>

Types ==
  {TString, TInt, TDouble, TBool, TNull, <<"empty">>, Opt(TInt), Opt(TNull), Vec(TString), Vec(Opt(TInt)), Vec(Vec(TInt)),
   Vec(TBool), Map(TInt), Map(Opt(TString)), Map(Vec(TInt)), Vec(Map(TString)), Vec(Opt(TNull))}
  \cup {Var(A, B) : A, B \in {TString, TInt, TDouble, TBool, TNull, Map(TInt), Vec(TInt), Opt(TInt)}}
  \cup {Vec(Var(TInt, TString)), Map(Var(TNull, TBool)), Opt(Var(TString, Vec(TInt))), Var(TInt, Var(TString, TBool))}

Strings == {<<>>, <<"a">>, <<"a", Quote, ",", Quote, "a">>}

RECURSIVE Values(_)
Values(T) ==
  CASE T[1] = "string" -> {<<"string", s>> : s \in Strings}
    [] T[1] = "int" -> {<<"int", i>> : i \in MCInts}
    [] T[1] = "double" -> {<<"double", d>> : d \in MCDoubles}
    [] T[1] = "bool" -> {<<"bool", "true">>, <<"bool", "false">>}
    [] T[1] \in {"null", "empty"} -> {T}
    [] T[1] = "optional" -> {Absent} \cup Values(T[2])
    [] T[1] = "vector" -> {<<"vector", s>> : s \in UpTo(2, Values(T[2]))}
    [] T[1] = "map" ->
         {<<"map", [i \in DOMAIN s |-> << <<IF i = 1 THEN "a" ELSE "b">>, s[i]>>]>> :
            s \in UpTo(2, Values(T[2]))}
    [] T[1] = "variant" -> Values(T[2]) \cup Values(T[3])

-----------------------------------------------------------------------------
(* Calls: one side of a call varies while the other one is the default. *)

Default ==
  [text |-> <<"http">> \o Mark \o <<"h", "/", "h">>, method |-> "GET", payload |-> <<>>,
   headers |-> <<>>, cut |-> NoCut, type |-> TInt, result |-> <<"int", "7">>,
   answer |-> Serialize(<<"int", "7">>), status |-> "OK", content_type |-> "application/json",
   reply_headers |-> NoHeaders]

UrlCalls == {[Default EXCEPT !.text = t] : t \in {u \in Texts : Wellformed(u)}}

\* Cuts of a request with these headers, of a value in front or behind a token.
Cuts(payload, headers) ==
  LET lines == OwnHeaders(payload) \o headers
  IN  {NoCut} \cup {<<k>> : k \in 2..Len(lines)} \cup {<<k, n>> : k \in 2..Len(lines) - 1, n \in 0..1}

MethodCalls ==
  UNION {{[Default EXCEPT !.method = m, !.payload = p, !.cut = c] : m \in Methods, c \in Cuts(p, <<>>)} :
         p \in {<<>>, <<"x", "y">>}}

Cors == << <<"Access-Control-Request-Headers", <<"X", "Y">> >>,
           <<"Access-Control-Request-Method", <<"PUT", "!">> >> >>

RequestHeaders ==
  {<<>>, <<Cors[1]>>, <<Cors[2]>>, Cors, <<Cors[2], Cors[1]>>,
   << <<"method", <<"x", " ", "y">> >>, <<"Host", <<"h", "i">> >>, Cors[1]>>}

HandlerNames == {"Access-Control-Allow-Headers", "Access-Control-Allow-Methods",
                 "Content-Length", "Content-Type", "Connection", "extra-header"}

HeaderCalls ==
  UNION {{[Default EXCEPT !.headers = h, !.cut = c, !.reply_headers = [n \in S |-> <<"mine">>]] :
            c \in Cuts(<<>>, h), S \in SUBSET HandlerNames} :
         h \in RequestHeaders}

Statuses == {"CONTINUE", "OK", "CREATED", "NO_CONTENT", "MOVED_PERMANENTLY", "FOUND",
  "NOT_MODIFIED", "BAD_REQUEST", "NOT_FOUND", "FORBIDDEN", "NOT_REACHABLE", "NOT_IMPLEMENTED",
  "INTERNAL_SERVER_ERROR", "SERVICE_UNAVAILABLE"}

StatusCalls ==
  {[Default EXCEPT !.status = s, !.content_type = t] :
     s \in Statuses, t \in {"application/json", "application/sdp", "text/plain"}}

ValueCalls ==
  UNION {{[Default EXCEPT !.type = T, !.result = v, !.answer = Serialize(v)] : v \in Values(T)} : T \in Types}

MCCalls == UrlCalls \cup MethodCalls \cup HeaderCalls \cup StatusCalls \cup ValueCalls

=============================================================================
