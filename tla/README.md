# A verification development for iuring_httpserver

The library puts an HTTP server and an HTTP client on top of iuring, a wrapper
of io_uring. This directory holds TLA+ models of it, the TLC runs that check
them on small instances, and proofs, checked by TLAPS, for all instances.
`PROJECT.json` lists the runs, the mutants that show that each property can be
broken, the lines of the source every definition stands for, the hazards, the
findings and the theorems.

## 1. The system

All callbacks run on the thread that polls io_uring, so one callback is one
atomic step. What happens between two steps is not in the code's hands: the
order of completions, how TCP cuts and glues bytes, when endpoint handlers
answer, when peers go away. That is where the models are nondeterministic.

| component | state it keeps | operations | works with |
|---|---|---|---|
| `HttpClientManager` | the vector of clients | `send_request` by address and by URL, `allocate_http_client` | resolver, `HttpClient` |
| `HttpClient` | `m_socket`, `m_ip`, `m_can_be_recycled` | `send_request`; the connect, send, receive and close callbacks; `restart`, `mark_dead` | iuring, `HttpParser`, the application's result handler |
| `HttpParser` | `m_headers`, `m_payload`, `m_header_size` | `parse` and the get functions | `HttpSession`, `HttpClient` |
| `HttpSession` | `m_partial_data`, a parser | `handle_incoming_http_packet` | `HttpServer` |
| `HttpServer` | `m_active_sessions` by port | `init`, accept and receive callbacks, dispatch, replies | iuring, sessions, endpoint handlers |
| endpoint routing (in `HttpServer`) | `m_handler_map` | `register_endpoint_handler`, `find_handler` | dispatch |
| `MbedTLS` | one ssl context, `m_socket`; a state and unread data for each connection | `init`, `add_encrypted_data`, `send_cb`, `recv_cb`, the wrapper's `send` | mbedtls, `HttpServer` |
| `URL` | protocol, host, port, endpoint | `parse`, `to_string` | `HttpClientManager`, `HttpClient` |
| request and reply texts | none | `send_request_connected`, `create_reply_string`, `status_code_to_string` | `HttpClient`, `HttpServer` |
| `base_serializers` | none | `serialize`, `deserialize` of every type of generated code | applications, which use them for payloads |

What is hard in each of them, and what makes it correct:

* **Client.** Callbacks capture a pooled client by a raw `this` and read its
  members when they run. The pool must never hand out a client with a callback
  to come, not even while a result handler starts the next request from inside
  a callback of that client. Each of resolve, connect, send and receive can
  fail, and each error path calls the result handler itself: once, never twice.
* **Server.** A session collects packets until a request is complete and parses
  all it has again for each packet. Header sizes of -1 are compared unsigned,
  an earlier parse's headers survive a later one, a handler may keep its reply
  handler, clients close in the middle of a request. Correct is: handlers get
  whole requests, in order, and each is answered once.
* **Routing.** Endpoints are tried in the order of a map's strings, wildcards
  among them. Correct is: the last registration counts, a spelled-out endpoint
  is not hidden by a wildcard, parameters are those of the match.
* **TLS.** One ssl context and one `m_socket` serve every connection, and one
  record is read for each packet. Correct is: what is read and written belongs
  to the connection being served.
* **Client and server together.** Either side can fail without the other one
  knowing: a send that is reported as failed may have delivered the request, a
  reply that could not be sent is dropped without notice. Correct is: a request
  is handled at most once, a response means that it was, and it is known who
  waits for ever and what is left behind.
* **Texts.** What one side writes the other one reads with find, split, insert
  and stoi. Correct is: a URL denotes what was parsed from it, a request and a
  reply are read as what they were written for, a value comes back as it was.

## 2. Modules

| module | what it is |
|---|---|
| `RequestLedger` | what the client manager promises: every request is answered exactly once, with an answer of its own |
| `HttpClientManager` | the client side in detail; it implements `RequestLedger` |
| `HttpClientManagerProofs` | its theorems |
| `HttpParser` | the parser and the session's test for completeness, as operators on token sequences |
| `HttpService` | what the server promises: requests handed over whole, once and in order, each answered once |
| `HttpServer` | sessions, dispatch and replies without TLS, on top of `HttpParser`; under conditions it implements `HttpService` |
| `HttpServerProofs` | its theorems for any streams: types, bytes, answers |
| `HttpServiceProofs` | its theorems for streams of well-formed requests: whole requests, `HttpService` |
| `Router` | registration, matching, parameters |
| `RouterProofs` | its theorems |
| `MbedTLS` | the TLS layer between iuring and the server, for several connections |
| `MbedTLSProofs` | its theorems for connections that overlap in any way |
| `MbedTLSSerialProofs` | its theorems for one connection after the other |
| `RemoteCall` | what client and server promise together: at most once |
| `HttpExchange` | `HttpClientManager` and `HttpServer` with a network between them; it implements `RemoteCall` |
| `HttpExchangeProofs` | its theorems, from those of its two parts |
| `Url` | `URL::parse` and `to_string`, and what a URL is |
| `HttpMessages` | the texts of one call: URL, request, reply; on top of `Url` |
| `HttpMessagesProofs` | the theorems of both |
| `Serializers` | `base_serializers.hpp` and the JSON text between the two sides |
| `HttpValues` | the calls whose answers are values of a type: `HttpMessages` with `Serializers` |
| `MC...` | instances for TLC |

`HttpServer` uses `HttpParser`; `HttpExchange` instantiates `HttpClientManager`
and `HttpServer`, and its steps are theirs with what they need of the network.

### HttpClientManager

`clients` is `m_http_client_registration`; a client is its flag, socket and
address. `io` holds the operations submitted to io_uring and not completed; an
operation carries what its lambda captures, so `ConnectDone`, `SendDone`,
`RecvDone` and `CloseDone` read `clients[o.client].socket` when they run, as the
code does. A socket has the name of the request that created it; `peer` and
`wire` record whom it is connected to and what was sent on it, so that a mix-up
shows in the results. `HandlerRuns` is the application's result handler, which
may call `send_request` again before it returns; in `RecvDone` that happens
before the close is submitted. A response is a number of parts: two for the
status line, one that ends the header block, the rest is body, and the one
receive gets any number of them.

### HttpParser and HttpServer

Bytes are tokens. A target and a Content-Length are two tokens each, so packets
can end inside them; a cut inside any other token has the same outcome as a cut
before it. `Gathered` appends a packet and parses the whole again, with
`ParsedLength` keeping an earlier value as `std::map::insert` does. `Outcome` is
the session's verdict in the order of the code: no Content-Length is a complete
request whether or not the header block has ended, and a header size of -1 is
larger than anything. The two tokens of a length carry the number that
`std::stoul` makes of the text up to them, or `Refused` where it throws: no value
yet, no digits, a number out of range. (-1 is no such text: it gives the greatest
number there is.) `Receive`
is one call of `handle_incoming_http_packet` with its early returns and the
erase at its end. An endpoint handler answers in `HandleEndpoint` or later, in
`DeferredReply`. The lambda it is given (`HttpServer.cpp:313`) can be called any
number of times and sends each time; here and in `MbedTLS` an application is
assumed to call it at most once. `server = "threw"` is an exception that leaves the receive
callback.

### Router

An endpoint is a sequence of slashes and texts, one text at most between two
slashes; a text that begins with a brace is a wildcard. `SplitLoop` is the loop
of `split`, a recursive function of the number of characters read, and
`ParametersLoop` that of `endpoint_matches`. `Rank` is the order of the map's
strings; the instance derives it from the tokens, with the slash before texts and
texts before the brace. That texts come before the brace is true of letters and
digits; one that begins with `|`, `}`, `~` or a character that is not ASCII is
tried after the wildcards, which `WildcardsComeLast` excludes where it matters. A
wildcard matches an empty segment, too: `/{y}//` behind `/{x}/{y}` is never
reached, and `ReachableUnlessCovered` says so.

### MbedTLS

A record is what TLS sends at a time; `network` holds the records on the way.
mbedtls is modelled by how the code uses it: a handshake that takes two records
of the client, one record for each read, an error for a record of another
session, keys that stay when the context breaks after the handshake.
`AddEncryptedData` is the whole of `add_encrypted_data`: a new connection resets
the context, a closed one is ignored, the packet is queued, `m_socket` changes,
the handshake runs as far as it can and one record is read. `send_cb` writes to
`m_socket`, so `Arrives(m_socket, ..)` in `DeferredReply` is where a reply that
was kept goes. The HTTP layer is reduced to what matters here: it gathers
`Records` records to a request (`gathered`; `handed` are the requests it was
given) and its handler answers at once or later. `flights` are the sessions in
which a client was sent the server's part of a handshake.

### HttpExchange

`send_request` creates a socket for each request, so the connections of the
server have the names of the requests. The steps of `HttpClientManager` and of
`HttpServer` are taken as they are; what is added is the network: a connection
is established when the server listens, a send that succeeds has given all
bytes to the network and one that fails any number of them (`BytesLeave` may
happen after `SendReturns`), a reply is received when it was sent. `lost` are
the connections on which `send_reply`, which ignores its result, failed for the
first reply, the only one a client receives;
`closed` are the sockets the client has closed, of which the server may be told
(`CloseArrives`). `RemoteCall` is implemented with `called`, `handled` and
`returned` read off `issued`, `dispatched` and `results`: a request that a packet
ending in its header block made the server hand over in part (`HandedOverInPart`)
counts as not handled and a response to it as an error (`Handled`, `Returned`).

### Url, HttpMessages, Serializers and HttpValues

A text is a sequence of tokens; separators, blanks, signs and quotes are tokens
of their own, a word or a number is one. `Parse` looks for the parts of a URL in
the order of the code, with `Find` as `std::string::find`; `Readings` says what
a URL is without any order, as the ways to split a text into a protocol, a host,
a port and an endpoint. `Stoi` skips blanks, reads a plus or minus sign and stops where the
number ends, as `std::stoi` does.

`Serializers` gives a value's text and, with `Read` for `json::parse`, what
`deserialize` makes of it: a value, the library's `ParseError`, or an exception
of json itself, which only `deserialize_recurs_variant` tells apart.

A behaviour of `HttpMessages` is one call: its text is parsed as a URL, the
client writes a request for that endpoint, the server reads it in one packet or
two, a handler (or none) answers with a text, the client reads the reply. Header
lines stay lines; what is modelled is which of two lines with one name counts
(`Inserted`), what a packet boundary in a line does (`CutLines`), and how the
first line is stored among the headers. The boundary is anywhere behind the line
of Content-Length (`IsCut`), the second of the library's client; what one before
that does, the server handing over part of a request or stopping, is the subject
of `HttpServer`, where `server_cut_header` finds it. `call` holds everything that is chosen.
In `HttpValues` the text of the answer is a value of a type, serialized
(`AnswersAssumption`), and the application reads the reply as that type
(`ValueRead`).

## 3. Runs

| run | instance | shows |
|---|---|---|
| `client_requests` | 3 requests to 2 hosts, responses of 4 parts; 13557 states | no client is shared, callbacks see their socket, responses are a request's own, a result is given once or something that leads to it is pending; `RequestLedger` with its liveness; the pool drains |
| `client_partial_response` | the same, 5 parts | finding: part of a response is a success |
| `client_leaked` | the same | finding: a failed client is never reusable |
| `server_service` | a client with 3 requests and one with 2, one endpoint unknown, packets end behind a header block or in a body, clients may close; 494 states | whole requests in order; `HttpService`; every request answered |
| `server_anycut` | a client with 2 pipelined requests and one whose length is out of range, packets end anywhere; 592636 states | no byte lost or mixed, each dispatch answered once, no complete request waits, the only reasons for an exception |
| `server_cut_header` | packets end anywhere, clients wait | finding: a request cut in its headers |
| `router_routes` | 8 endpoints that overlap, 12 targets, 2 methods, 3 registrations, with and without assertions; 218425 states | latest handler, parameters, NOT_FOUND, priority of spelled-out endpoints, reachability, stability |
| `tls_one_by_one` | 2 connections, one after the other, 2 requests of 3 records, any gluing; 3711 states | the context and `m_socket` belong to the connection served; no record lost; replies in order; who waits for ever |
| `tls_together` | 2 connections at once, impatient clients, any gluing; 42179 states | nothing handed over or answered twice |
| `tls_two_clients` | 2 connections at once | finding: a reply on another client's connection |
| `exchange` | 2 requests to one host, one with a payload of two parts and one without a handler, responses of 3 parts; packets end behind a header block, in a body, and inside a header block without an endpoint, without a Content-Length or without its value; 35180 states | at most once; nothing left to do for a closed socket; who waits for ever; whose data stays in `m_active_sessions`. The first two and the last except requests handed over in part |
| `call_texts` | 204200 states: every text of up to 4 or 5 tokens behind the beginning of a URL, 7 methods, requests with up to 3 added headers, whole or cut at any line behind Content-Length, 6 headers of the handler in any combination, 14 statuses, 85 types with values of up to 2 elements | each text is read as what it was written for, up to the exceptions the properties name |

Why these bounds are enough to be interesting: three requests are needed for a
client to be recycled while another request is pending and a third is started
from inside a callback; two hosts tell a stale address from a right one. Two
connections are enough to mix sessions, and two requests on one of them to see
what a first one leaves behind; a Content-Length of two digits and a body of two
parts let a packet end before, inside and behind both. The length out of range
is refused only when its second token comes, which a cut may hold back. Three registrations give
an override and a competitor. Three records in a request let one be read, one
wait, and another packet come. In `exchange` one request can be handled, refused or
lost while the other one reuses its client, and there is a cut for each thing that
a packet ending in the header block can do: behind the target or the end of the
first line a cut does what one behind the version does, which is to hand the
request over. In `call_texts` one side of a call
varies while the others are fixed, since no property relates, say, a URL to a
status; two elements are enough for a comma, an empty element and a clash of
types, and a text of five tokens for a port with a sign or a blank and a second
separator after it. All counters are bounded by the constants
(`Requests`, `Stream`, `MaxRegistrations`, `Records`), none by a state
constraint. `CHECK_DEADLOCK FALSE` is set throughout since every instance ends
when its requests are made.

### Fairness

* Client: io_uring completes every operation of every request. For a receive
  this assumes that the server answers or closes; the code has no timeout.
  Which outcome a completion has is not constrained.
* Server: on every connection where something can happen (a packet arrives, a
  client sends, a handler answers) something happens. No client is made to close.
* TLS: the same.
* Exchange: both sides' completions run, and what was sent without an error
  arrives. Not assumed: that a handler which kept its reply handler answers, that
  a request whose send failed arrives, that a client learns of a lost reply.
  `WaitsForHandlerOrLostReply` shows, for packets that end in the header block or
  behind it, that a caller waits for ever only for a handler that kept its reply
  handler, for a reply that was lost, or because an exception has left the
  receive callback (a packet ended between Content-Length and its value). The
  early returns make nobody wait: what was rejected is parsed again with the next
  packet. `SessionsDrain` shows that, unless the server stopped like that, only two
  kinds of data stay in `m_active_sessions`: that of requests whose send failed,
  since the client never closes those sockets, and the rest of requests that a cut
  in the header block made the server hand over in part. That packets end only
  behind header blocks and inside bodies is assumed in `server_service`
  (`BodyCuts`) and in the theorems that say so.

### Findings

Each violation run checks one statement of the repository.

* A response in several pieces is reported as a success with what the first
  receive held (`HttpClient.cpp:86`).
* A client whose connect or send failed is never closed or marked dead
  (`HttpClient.cpp:28`); `IdleUnlessFailed` and `PoolDrains` show that this is the
  only way to lose one.
* A packet that ends inside the header block before Content-Length makes two
  requests of one (`HttpServer.cpp:362`).
* A reply handler that was kept replies on the TLS connection whose packet came
  last (`MbedTLS.cpp:139`).

Seen while modelling and visible in the models, without a run of their own:
bytes of a pipelined request that arrive with the end of the one before are
dropped with the session (`HttpServer.cpp:432`; `server_service` has clients that
wait); a new connection's reset takes the keys of a TLS connection in use
(`MbedTLS.cpp:231`; `tls_one_by_one` has connections that do not overlap); a
second record in a packet is not read before the next packet (`MbedTLS.cpp:267`;
the third case of `MbedTLS!EveryRequestAnswered`).
Sessions are keyed by what `get_port()` of the connection's socket returns
(`HttpServer.cpp:394`), so connections of two hosts with one port would share
one; `ServerLosesNothing` has distinct ports as its hypothesis, and the instances
give each connection its own. A target without a leading slash fails the
assertion in `split` (`HttpServer.cpp:49`), which is the first disjunct of
`Router!HandleEndpoint`; `ParsedUrlsAreWellFormed` shows that the endpoint of a
parsed URL is never such a target. `URL::to_string` drops the port and prints
`sap` as `https` (`URL.cpp:30`; `LeadsBack`). A header value that a packet ended in
stays cut (`HttpParser.hpp:168`; `HttpMessages!Whole`). Strings are not escaped, an
absent optional in a map leaves text that is no JSON, and a variant with a
`bool`, `double` or `vector` before another alternative fails with json's own
exception (`base_serializers.hpp:107`, `209`, `255`; `Plain` and `Unambiguous` name
what is left out).

## 4. Proofs

For every value of the constants that satisfies the modules' assumptions:

* **Client** (`HttpClientManagerProofs`). `TypeCorrect`, `ClientsAreNotShared`,
  `CallbacksSeeTheirSocket`, `ResponsesAreOwn`, `ResultsOnceOrPending`, and
  `ManagerImplementsLedger`, the safety part of the refinement. None of the
  properties is inductive alone. The invariant is `IInv`: `PoolInv` says that
  the client of a pending operation exists, is not recyclable and has the socket
  and address of that operation's request, and that no two operations share a
  client or a request; `WireInv` says what was sent on which socket; `AnswerInv`
  who was answered. Since a client in use is not recyclable,
  `allocate_http_client` leaves it alone (`AllocateProperties`), so whatever a
  nested `send_request` does is a step of the pool that disturbs no other
  operation (`PoolStep`, `HandlerRunsArePoolSteps`), and each callback finds what
  its request left there. `OnlyFailuresLoseClients` (`IdleUnlessFailed`) follows
  with `IInv`: a step leaves a client as it is, puts it to use, or ends its use
  with a close or a failure (`IdleHandlerStep`).
* **Server** (`HttpServerProofs`, `HttpServiceProofs`). `ServerTypeCorrect`;
  `ServerLosesNothing`: if connections have ports of their own (`PortsDistinct`),
  then for any streams, cut anywhere, every byte received is in exactly one
  dispatch, in order, or waits in its session (`SegmentInv`: the session's data is
  the segment of the stream since the last dispatch); `ServerAnswersOnce`.
  `ServerThrowsOnlyOnBadLength` and `ServerKeepsNoRequestWaiting` are about any
  streams, too: the first one lists the values that `std::stoul` refuses, the
  second one is about sessions that began with a request as it should be written
  (`WellFormed`: a request line, then nothing or a length that is the length of
  the body), whatever is sent before, behind and on other connections. What the
  parser makes of a beginning of such a request is in `BlockEnds`, `LengthRead` and
  `EndpointFound`. The strengthenings are `ThrowInv` (a refused length is in a
  session only after the exception) and `WaitInv` (what a session that began with
  a request knows of its
  length: nothing yet, or a number that is not too large, since the digits that
  came are the first ones). `ServerHandsOverWholeRequests` and
  `ServerImplementsService` need that all requests are written so
  (`WellFormedStreams`, which is evaluated in the instances) and `Sequential`: packets end behind header blocks or
  inside bodies and clients wait for answers; `server_cut_header` shows why. The
  invariant `ServiceInv` counts: at most one request of a connection is on its
  way, its number is one more than that of the dispatches, and the session is
  empty or has read its length in full (`Gathers`).
* **TLS** (`MbedTLSProofs`, `MbedTLSSerialProofs`), for any number of
  connections, requests and records in a packet. `TypeCorrect` and `NeverTwice`
  hold however connections overlap. Their invariant is `IInv`: what is on the
  network, in a connection's queue and with the HTTP layer is no more than what
  the client sent (`CountInv`); a reply handler is kept only for a request that was
  handed over (`KeptInv`), is not kept once its reply arrived (`AnsweredInv`) and
  no two replies are to one request (`OnceInv`); with a handler kept there is an
  `m_socket` (`SocketInv`, the assertion of `send_cb`). `OneClientOwnsTheContext`,
  `ClientsAreServed`, `EveryRecordIsSomewhere` and `EveryReplyIsTheNext` have as a
  hypothesis that clients come one after the other (`~Concurrent`), the last one
  also that they stay for their answers (`Patient`): without the first a new
  connection resets the context in use (`tls_two_clients`). `SerialInv` says that
  at most one connection is live and how its client, the records on the way, the
  connection's state and the context belong together in each phase (`BeforeHello`,
  `InHandshake`, `InSession`, `GivenUp`); `PatientInv` that a client's replies
  came in order and at most the last request handed over is not answered.
* **Client and server together** (`HttpExchangeProofs`), for any number of
  requests and any texts of them, if packets end behind header blocks or inside
  bodies (`BodyCutsOnly`). The steps of the exchange are steps of the client
  (`ClientSteps`) or of the server (`ServerSteps`), so the invariants above hold
  of it as they are; `NetworkInv` adds that bytes on the network belong to a
  request that was made and that a socket is closed, about to be closed, or its
  reply lost only after there was a reply. Under that condition
  `RequestsAreHandedOverWhole`, so the exceptions that the properties make are for
  packets that end inside header blocks only. `ClosedSocketsAreDone` follows from
  counting the one request of a connection. `RequestsAreHandledAtMostOnce` is the
  step simulation of `RemoteCall`: a step of the client's ledger is a `Call` or a
  `Return` (`ClientCallsAndReturns`; a response only of a request that was handled,
  `OkMeansHandled`), a packet that completes a request is a `Handle`
  (`PacketHandles`), all others change nothing.
* **Router** (`RouterProofs`), for any endpoints, targets, methods and any order
  of the map. `TypeCorrect` and `LatestHandlers` from `MapInv`: an entry of the map
  is the number of the last registration for its method and endpoint, and of
  nothing later; `RoutesAreStable`: the first match among more candidates is the
  old one or the new endpoint. The others need what `split` makes of every string:
  `LoopState` says what it has after n characters, `ClosedStays` that a segment it
  closed is in the result, `TextAt` which segment a text becomes, and
  `FitsMatches` that two endpoints match by segments exactly if they agree token
  by token, wildcards and a slash at the end aside (`Fits`). `NotFoundIsHonest` is
  that equivalence. `ParametersGiveTheTargetBack` counts wildcards
  (`ParametersFacts`: the parameter of a wildcard has as its place the number of
  wildcards up to it). `SpelledOutEndpointsWin` assumes `WildcardsComeLast`: up
  to its first wildcard an endpoint has the tokens of a spelled-out one that
  matches the same requests (`AgreeUpToWildcard`), and there it comes later in the
  order. `HandlersAreReachable` assumes `EveryEndpointIsAskedFor`: for each
  endpoint there is a target with its tokens and, for wildcards, a text that no
  endpoint spells out. Both hypotheses hold of the instance and are evaluated
  there.
* **Texts** (`HttpMessagesProofs`), for texts, headers and payloads of any length
  over any tokens. `ParsedUrlsAreWellFormed`: a URL that `parse` returns has a known
  protocol, a host without separators, a port from 1 to 65535 and an endpoint that
  begins with a slash. `ParsingFindsTheOnlyReading`: it is the one way to split the
  text into such parts, and without such a way there is an error. The argument is
  that `find` returns the first occurrence (`FindIsFirst`, `NothingBeforeFound`),
  and that a host ends at the first colon or slash in any reading
  (`OneReading`). `PrintedUrlsLeadBack` and `ParsedUrlsLeadBack`: what `to_string`
  prints is parsed to the same host and endpoint, by the printed protocol and at
  its default port. `UrlsAreWhatTheySay` and `PrintedUrlsOfCallsLeadBack` say this
  of the URLs of calls. `RequestsAreReadAsAsked`, `QuestionsAreAnsweredOnce` and
  `RepliesAreReadAsAnswered` are the properties of requests and replies in section
  3. The invariant is `FlowInv`: what was written and read at each stage is a
  function of the call, so the rest is about such functions: the first line with
  a name counts whatever follows it (`FirstLineCounts`, `LinesTogether`), the
  lines of a name in a reply come from one of its parts only (`GivenTogether`),
  and the words of a first line are found between its first blanks
  (`RequestLine`, `StatusLine`). What they assume of calls is `CallsAssumption`: a
  known method, a first packet that ends behind the line of Content-Length if the
  request comes in two, finitely many headers of the handler. They say nothing of a
  request that is cut before that.

Only model-checked:

* liveness under fairness: the temporal parts of `RequestLedger` and
  `HttpService`, `PoolDrains`, `EveryRequestAnswered` and the like;
* `ValuesComeBack`, since values are nested and `Serializers` and `HttpValues`
  define what is made of them recursively: an induction over data;
* the violation runs, which are counterexamples.

## 5. Not modelled

* `get_parameter_value`, `get_protocol`, `create_json_error_msg`,
  `to_string(URLParameters)`, `matches_regex`, `is_positive_integer_as_string`,
  `ContainerUtils`, `base_endpoint`, `ServerConfig`: lookups, formatting and data
  without behaviour of their own.
* Logging, dates, certificates, tests and mocks.
* Header names that differ in case: the code compares them exactly, the models
  have one spelling of each.
* Characters inside a word: a name in capitals, a percent sign, an escape in a
  JSON string of another program.
* `HttpClient` used without the manager, and its destruction.
* iuring, mbedtls and slogger are not part of the repository; the first two are
  modelled as far as the code relies on them.

## 6. Plan

1. Proofs: that the JSON text of a value is read as that value, if `Serializers`
   is given the depth of a value as a number to do induction on.
2. `HttpsServer`: `HttpServer` on top of `MbedTLS`, with packets that are records;
   which of the properties of section 3 survive.
3. `HttpClient` without the manager: `send_request` twice on one client, `restart`
   while an operation is pending.
