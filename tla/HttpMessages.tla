---------------------------- MODULE HttpMessages ----------------------------
(***************************************************************************)
(* The texts of one call: from the text of a URL to a request, and from    *)
(* what the server reads of it and what the handler answers to a reply.    *)
(*                                                                         *)
(* A message is its first line, its header lines and its payload; a header *)
(* line is a name and the tokens of its value.                             *)
(***************************************************************************)
EXTENDS Url, SequencesExt

\* The calls to look at: text is the URL.  headers are headers that a client
\* other than the library's may add (a browser does).  cut says where the
\* first of two packets ends; NoCut if all comes at once.  The handler answers
\* with a status, a text, its type and headers of its own.
CONSTANTS
  Tokens,   \* the tokens of URLs
  Calls

NoCut == <<>>

Methods == {"GET", "POST", "PUT", "DELETE", "OPTIONS", "PATCH", "???"}

HeaderLine == STRING \X Seq(STRING)

\* The headers of the library's client.
OwnHeaders(payload) ==
  << <<"Host", <<"localhost">> >>, <<"Content-Length", <<ToString(Len(payload))>> >>,
     <<"Application-Agent", <<"Flex-Audio-Client/1.0">> >> >>
  \o (IF payload = <<>> THEN <<>> ELSE << <<"Content-Type", <<"application/json">> >> >>)
  \o << <<"Connection", <<"close">> >> >>

\* Where the first packet may end: behind k whole lines (in the name of the next
\* one, in the blank line and in the payload it is the same), or in the value of
\* the line after them with n of its tokens.  Content-Length is the second line:
\* what a packet does that ends before it is complete, which is to have part of
\* the request handed over, to be rejected or to make std::stoul throw, is
\* HttpServer's subject (WholeRequests, ThrowsOnlyOnBadLength).
IsCut(cut, lines) ==
  \/ \E k \in 2..Len(lines) : cut = <<k>>
  \/ \E k \in 2..Len(lines) - 1 : \E n \in 0..Len(lines[k + 1][2]) : cut = <<k, n>>

ASSUME TokensAssumption == {":", "/"} \cup Protocols \subseteq Tokens
ASSUME CallsAssumption == \A c \in Calls :
  /\ c.text \in Seq(Tokens) /\ c.method \in Methods
  /\ c.headers \in Seq(HeaderLine) /\ IsFiniteSet(DOMAIN c.reply_headers)
  /\ c.cut = NoCut \/ IsCut(c.cut, OwnHeaders(c.payload) \o c.headers)
  /\ c.status # Blank

VARIABLES
  call,       \* what is asked for and what will be answered
  stage,      \* how far the call is
  url,        \* what URL::parse returned
  request,    \* the text of the request
  seen,       \* what the server's HttpParser reads
  reply,      \* the text of the reply
  response    \* what the client's HttpParser reads

vars == <<call, stage, url, request, seen, reply, response>>

Unset == "unset"

Init ==
  /\ call \in Calls
  /\ stage = "text"
  /\ url = Unset /\ request = Unset /\ seen = Unset
  /\ reply = Unset /\ response = Unset

-----------------------------------------------------------------------------
(* HttpParser: m_headers is a function from names to values. *)

Names(lines) == {lines[i][1] : i \in DOMAIN lines}

IsFirst(lines, name, i) ==
  i \in DOMAIN lines /\ lines[i][1] = name /\ \A k \in 1..i - 1 : lines[k][1] # name

ValueIn(lines, name) == lines[CHOOSE i \in DOMAIN lines : IsFirst(lines, name, i)][2]

\* (mutant) a later line with the same name counts
InsertedLast(headers, lines) ==
  [n \in DOMAIN headers \cup Names(lines) |->
     IF n \in Names(lines) THEN ValueIn(Reverse(lines), n) ELSE headers[n]]

\* parse_headers: std::map::insert keeps what is there.
Inserted(headers, lines) ==
  [n \in DOMAIN headers \cup Names(lines) |->
     IF n \in DOMAIN headers THEN headers[n] ELSE ValueIn(lines, n)]

NoHeaders == [n \in {} |-> <<>>]

\* One parse: the first line is stored under the name of a header.
ParseHeaders(headers, line, lines) ==
  Inserted([n \in DOMAIN headers \cup {"method"} |-> IF n = "method" THEN line ELSE headers[n]],
           lines)

\* The first two words of a line that has more.
Word(line, n) ==
  LET b1 == Find(line, <<Blank>>, 0)
      b2 == Find(line, <<Blank>>, b1 + 1)
  IN  IF n = 1 THEN Before(line, b1) ELSE SubSeq(line, b1 + 2, b2)

Words(line) == 1 + Cardinality({i \in DOMAIN line : line[i] = Blank})

Trim(line) ==
  IF line # <<>> /\ line[Len(line)] = Blank THEN SubSeq(line, 1, Len(line) - 1) ELSE line

\* get_status_code
StatusOf(line) == IF Words(line) < 3 THEN "BAD_REQUEST" ELSE Word(line, 2)[1]

-----------------------------------------------------------------------------
(* The client's side, and the URL it starts from. *)

ParseUrl ==
  /\ stage = "text"
  /\ url' = Parse(call.text)
  /\ stage' = IF url'.error = "OK" THEN "url" ELSE "failed"
  /\ UNCHANGED <<call, request, seen, reply, response>>

\* The text of a request, and for other clients the headers they add.
RequestText(method, endpoint, payload, headers) ==
  [line |-> <<method, Blank>> \o endpoint \o <<Blank, "HTTP/1.1">>,
   headers |-> OwnHeaders(payload) \o headers,
   payload |-> payload]

\* send_request_connected, with the URL's endpoint.
SendRequestConnected ==
  /\ stage = "url"
  /\ stage' = "request"
  /\ request' = RequestText(call.method, url.endpoint, call.payload, call.headers)
  /\ UNCHANGED <<call, url, seen, reply, response>>

-----------------------------------------------------------------------------
(* The server's side. *)

\* The header lines that are read of the first packet, when the request came
\* in two.  A line without a colon, cut in its name, is none.
CutLines ==
  LET k == call.cut[1]
      next == request.headers[k + 1]
  IN  SubSeq(request.headers, 1, k)
      \o (IF Len(call.cut) = 1 THEN <<>>
          ELSE << <<next[1], SubSeq(next[2], 1, call.cut[2])>> >>)

\* What the session's parser knew before the last packet.
HeadersBefore ==
  IF call.cut = NoCut THEN NoHeaders ELSE ParseHeaders(NoHeaders, request.line, CutLines)

\* What the parser reads of a request if it read some of it before.
RequestRead(before, r) ==
  LET headers == ParseHeaders(before, r.line, r.headers)
      type == Word(headers["method"], 1)[1]
  IN  [type |-> IF type \in Methods THEN type ELSE "???",
       endpoint |-> Word(headers["method"], 2),
       headers |-> headers,
       payload |-> r.payload]

\* The session parses what it has when a packet comes.
ServerReads ==
  /\ stage = "request"
  /\ stage' = "seen"
  /\ seen' = RequestRead(HeadersBefore, request)
  /\ UNCHANGED <<call, url, request, reply, response>>

\* (mutant) a status that is not listed has no name
StatusNameOrNone(status) ==
  CASE status = "NOT_FOUND" -> <<"Not", Blank, "Found">>
    [] status = "OK" -> <<"OK">>
    [] OTHER -> <<>>

\* status_code_to_string
StatusName(status) ==
  CASE status = "NOT_FOUND" -> <<"Not", Blank, "Found">>
    [] status = "OK" -> <<"OK">>
    [] status = "BAD_REQUEST" -> <<"Bad", Blank, "Request">>
    [] status = "INTERNAL_SERVER_ERROR" -> <<"Internal", Blank, "Server", Blank, "Error">>
    [] status = "FORBIDDEN" -> <<"Forbidden">>
    [] OTHER -> <<"unknown:", Blank, status>>

Now == <<"now">>

\* (mutant) the flag of the other header is tested
EchoSwapped(extra, headers, allow, asked) ==
  IF asked \in DOMAIN headers /\ "Access-Control-Allow-Headers" \notin DOMAIN extra
    THEN << <<allow, headers[asked]>> >> ELSE <<>>

\* What the request asked for is allowed unless the handler said something.
Echo(extra, headers, allow, asked) ==
  IF asked \in DOMAIN headers /\ allow \notin DOMAIN extra
    THEN << <<allow, headers[asked]>> >> ELSE <<>>

\* The headers of the handler, in some order.
ExtraLines(extra) ==
  LET names == SetToSeq(DOMAIN extra)
  IN  [i \in 1..Cardinality(DOMAIN extra) |-> <<names[i], extra[names[i]]>>]

\* The headers of every reply.
ReplyHeaders(payload, content_type) ==
  << <<"Date", Now>>, <<"Server", <<"m_server_name">> >>, <<"Last-Modified", Now>>,
     <<"Content-Length", <<ToString(Len(payload))>> >>, <<"Content-Type", <<content_type>> >>,
     <<"Access-Control-Allow-Origin", <<"http://", "ip4">> >> >>

\* create_reply_string
CreateReply(status, payload, headers, extra, content_type) ==
  [line |-> Trim(<<"HTTP/1.1", Blank, status, Blank>> \o StatusName(status)),
   headers |->
     ReplyHeaders(payload, content_type)
     \o ExtraLines(extra)
     \o Echo(extra, headers, "Access-Control-Allow-Headers", "Access-Control-Request-Headers")
     \o Echo(extra, headers, "Access-Control-Allow-Methods", "Access-Control-Request-Method")
     \o << <<"Connection", <<"Closed">> >> >>,
   payload |-> payload]

\* The handler answers.
HandlerAnswers ==
  /\ stage = "seen"
  /\ stage' = "reply"
  /\ reply' = CreateReply(call.status, call.answer, seen.headers,
                          call.reply_headers, call.content_type)
  /\ UNCHANGED <<call, url, request, seen, response>>

\* There is no handler: an empty object, and none of its headers.
NotFound ==
  /\ stage = "seen"
  /\ stage' = "not_found"
  /\ reply' = CreateReply("NOT_FOUND", <<"{", "}">>, seen.headers, NoHeaders, "application/json")
  /\ UNCHANGED <<call, url, request, seen, response>>

-----------------------------------------------------------------------------
ResponseRead(r) ==
  LET headers == ParseHeaders(NoHeaders, r.line, r.headers)
  IN  [status |-> StatusOf(headers["method"]), payload |-> r.payload, headers |-> headers]

ClientReads ==
  /\ stage \in {"reply", "not_found"}
  /\ stage' = IF stage = "reply" THEN "response" ELSE "end"
  /\ response' = ResponseRead(reply)
  /\ UNCHANGED <<call, url, request, seen, reply>>

Next ==
  \/ ParseUrl \/ SendRequestConnected \/ ServerReads
  \/ HandlerAnswers \/ NotFound \/ ClientReads

Spec == Init /\ [][Next]_vars

-----------------------------------------------------------------------------
\* Parsing finds the one way in which a text is a URL, and reports an error if
\* there is none: which of the two errors depends on the protocol alone.
UrlIsWhatItSays ==
  stage # "text" => IsWhatItSays(url, call.text)

\* What to_string prints of a URL leads back to its host and its endpoint, but
\* by the printed protocol and at that protocol's port; printed again it is
\* the same text.
PrintedUrlLeadsBack ==
  stage # "text" /\ url.error = "OK" => LeadsBack(url)

\* The headers in whose value the first packet did not end.
Whole(name) ==
  Len(call.cut) = 2 => request.headers[call.cut[1] + 1][1] # name

\* The server reads the method, the payload and the endpoint that were asked
\* for: the endpoint up to its first blank.  Of the headers it reads the first
\* with a name, whole if no packet ended in it; none of them hides the first
\* line.  The request comes in one packet, or in two the first of which ends
\* behind the line of Content-Length.
RequestIsReadAsAsked ==
  stage \in {"seen", "reply", "not_found", "response", "end"} =>
    /\ seen.type = call.method
    /\ seen.payload = call.payload
    /\ IsPrefix(seen.endpoint \o <<Blank>>, url.endpoint \o <<Blank>>) /\ None(seen.endpoint, {Blank})
    /\ \A n \in Names(request.headers) \ {"method"} :
         Whole(n) => seen.headers[n] = ValueIn(request.headers, n)

\* What the handler answered with.
Extra == IF stage \in {"reply", "response"} THEN call.reply_headers ELSE NoHeaders

\* A browser's question which headers and methods it may use is answered once:
\* by the handler if it said something, else with what was asked for, unless a
\* packet ended in that.
AnswersTo(allow, asked) ==
  IF allow \in DOMAIN Extra THEN {Extra[allow]}
  ELSE IF asked \in Names(call.headers) THEN {ValueIn(call.headers, asked)}
  ELSE {}

\* No two of the lines have this name, and these are the values.
GivenOnce(lines, name, values) ==
  /\ {lines[i][2] : i \in {k \in DOMAIN lines : lines[k][1] = name}} = values
  /\ \A i, k \in DOMAIN lines : lines[i][1] = name /\ lines[k][1] = name => i = k

AskedAndAnswered ==
  stage \in {"reply", "not_found", "response", "end"} =>
    \A a \in {<<"Access-Control-Allow-Headers", "Access-Control-Request-Headers">>,
              <<"Access-Control-Allow-Methods", "Access-Control-Request-Method">>} :
      Whole(a[2]) => GivenOnce(reply.headers, a[1], AnswersTo(a[1], a[2]))

\* The client reads the status and the payload that the handler gave, whatever
\* status that is, and the length and type of the payload cannot be hidden by
\* headers of the handler.
ReplyIsReadAsAnswered ==
  stage = "response" =>
    /\ response.status = call.status
    /\ response.payload = call.answer
    /\ response.headers["Content-Length"] = <<ToString(Len(call.answer))>>
    /\ response.headers["Content-Type"] = <<call.content_type>>

=============================================================================
