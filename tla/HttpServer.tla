----------------------------- MODULE HttpServer -----------------------------
(***************************************************************************)
(* HttpServer without TLS: the accept and receive callbacks, the sessions  *)
(* of m_active_sessions, dispatch to the endpoint handlers and the replies.*)
(*                                                                         *)
(* All callbacks run on the thread that polls io_uring.  What the server   *)
(* does not control is how TCP cuts and glues the bytes the clients send,  *)
(* when a handler answers and when a client goes away.                     *)
(***************************************************************************)
EXTENDS HttpParser

CONSTANTS
  Conns,       \* connections
  Ports,
  PortOf,      \* PortOf[c]: what get_port() returns for c's socket
  Ids,         \* names of the requests
  Stream,      \* Stream[c]: all the tokens c's client sends
  Ends,        \* Ends[c]: the positions in Stream[c] at which a request ends
  CutAfter,    \* the kinds of tokens TCP may end a packet after
  Pipelined,   \* do clients send a request before the last one is answered?
  MayClose,    \* may clients close, also in the middle of a request?
  Routed       \* requests whose endpoint a handler was registered for

Token == TokenOf(Ids)

ASSUME PortOfAssumption == PortOf \in [Conns -> Ports]
ASSUME StreamAssumption == Stream \in [Conns -> Seq(Token)]
ASSUME EndsAssumption ==
  \A c \in Conns :
    /\ Ends[c] \in Seq(1..Len(Stream[c]))
    /\ \A i, j \in 1..Len(Ends[c]) : i < j => Ends[c][i] < Ends[c][j]

VARIABLES
  server,      \* "new", "listening", or "threw": an exception left a callback
  conn,        \* conn[c]: "idle", "open" or "closed"
  sent,        \* sent[c]: how many requests the client has sent
  received,    \* received[c]: how many tokens the server has received
  sessions,    \* m_active_sessions
  dispatched,  \* dispatched[c]: what handle_endpoint was called with for c's socket
  deferred,    \* reply handlers kept by endpoint handlers, with the captured socket
  replies      \* replies[c]: what was sent on c's socket

vars == <<server, conn, sent, received, sessions, dispatched, deferred, replies>>

\* data is m_partial_data, clen the Content-Length entry of m_headers.
Session == [data : Seq(Token), clen : Nat \cup {Absent, Refused}]

\* What operator[] creates when the port has no entry.
NewSession == [data |-> <<>>, clen |-> Absent]

\* A session that is not in the map.  An entry always has data, so the new
\* session doubles as no entry.
NoSession == NewSession

\* endpoint and payload are what the handler sees.  data is bookkeeping: the
\* bytes the session held, and upto how much of the connection had arrived.
Dispatch == [endpoint : Seq(Token), payload : Seq(Token), data : Seq(Token), upto : Nat]

Reply == [to : Nat \ {0}, status : {"handler", "NOT_FOUND"}]

Init ==
  /\ server = "new"
  /\ conn = [c \in Conns |-> "idle"]
  /\ sent = [c \in Conns |-> 0]
  /\ received = [c \in Conns |-> 0]
  /\ sessions = [p \in Ports |-> NoSession]
  /\ dispatched = [c \in Conns |-> <<>>]
  /\ deferred = {}
  /\ replies = [c \in Conns |-> <<>>]

-----------------------------------------------------------------------------
\* init: create the listening socket and submit the accept.
Listen ==
  /\ server = "new"
  /\ server' = "listening"
  /\ UNCHANGED <<conn, sent, received, sessions, dispatched, deferred, replies>>

\* The accept callback creates the client's socket and submits a receive.
Accept(c) ==
  /\ server = "listening"
  /\ conn[c] = "idle"
  /\ conn' = [conn EXCEPT ![c] = "open"]
  /\ UNCHANGED <<server, sent, received, sessions, dispatched, deferred, replies>>

\* How many tokens the client has sent.
SentUpTo(c) == IF sent[c] = 0 THEN 0 ELSE Ends[c][sent[c]]

ClientSend(c) ==
  /\ conn[c] = "open"
  /\ sent[c] < Len(Ends[c])
  /\ Pipelined \/ Len(replies[c]) >= sent[c]
  /\ sent' = [sent EXCEPT ![c] = @ + 1]
  /\ UNCHANGED <<server, conn, received, sessions, dispatched, deferred, replies>>

-----------------------------------------------------------------------------
\* find_handler: the endpoints of known requests are registered, with a
\* wildcard at the end that a truncated endpoint matches as well.
Found(d) ==
  /\ KnownMethod(d)
  /\ Endpoint(d)[1].kind = "target"
  /\ Endpoint(d)[1].of \in Routed

SendReply(c, i, status) ==
  replies' = [replies EXCEPT ![c] = Append(@, [to |-> i, status |-> status])]

\* handle_endpoint.  A handler answers at once or keeps the reply handler; an
\* endpoint without one is answered at once.
HandleEndpoint(c, d) ==
  /\ dispatched' = [dispatched EXCEPT ![c] =
       Append(@, [endpoint |-> Endpoint(d), payload |-> Payload(d),
                  data |-> d, upto |-> received'[c]])]
  /\ LET i == Len(dispatched[c]) + 1
     IN  \/ /\ Found(d)
            /\ SendReply(c, i, "handler")
            /\ UNCHANGED deferred
         \/ /\ Found(d)
            /\ deferred' = deferred \cup {<<c, i>>}
            /\ UNCHANGED replies
         \/ /\ ~Found(d)
            /\ SendReply(c, i, "NOT_FOUND")
            /\ UNCHANGED deferred

\* (mutant) one session for everyone
SessionKeyAny(c) == CHOOSE p \in Ports : TRUE

SessionKey(c) == PortOf[c]

\* A session to whose data packet was appended, parsed.
Gathered(old, packet) ==
  LET data == old.data \o packet
  IN  [data |-> data, clen |-> ParsedLength(old.clen, data)]

\* (mutant) the gathered data is cleared, but the parser keeps its headers
ForgetData(s) == [NoSession EXCEPT !.clen = s.clen]

\* m_active_sessions.erase, after handle_endpoint has returned.
Erase(s) == NoSession

\* HttpServer's handle_incoming_http_packet, and the session's inside it:
\* the packet is added to the session of c's port and all of it parsed again.
Receive(c, packet) ==
  /\ received' = [received EXCEPT ![c] = @ + Len(packet)]
  /\ \E s \in {Gathered(sessions[SessionKey(c)], packet)} :
       \* waiting for more, or no endpoint in the first line: return early
       \/ /\ \/ Outcome(s.clen, s.data) = "INCOMPLETE"
             \/ Outcome(s.clen, s.data) = "COMPLETE" /\ ~HasEndpoint(s.data)
          /\ sessions' = [sessions EXCEPT ![SessionKey(c)] = s]
          /\ UNCHANGED <<server, dispatched, deferred, replies>>
       \* std::stoul throws, and nothing up to the caller of io_uring catches it
       \/ /\ Outcome(s.clen, s.data) = "throws"
          /\ sessions' = [sessions EXCEPT ![SessionKey(c)] = s]
          /\ server' = "threw"
          /\ UNCHANGED <<dispatched, deferred, replies>>
       \* a request: hand it over, then erase the session
       \/ /\ Outcome(s.clen, s.data) = "COMPLETE" /\ HasEndpoint(s.data)
          /\ HandleEndpoint(c, s.data)
          /\ sessions' = [sessions EXCEPT ![SessionKey(c)] = Erase(s)]
          /\ UNCHANGED server
  /\ UNCHANGED <<conn, sent>>

\* What TCP may deliver next on a connection.
Packets(c) ==
  {SubSeq(Stream[c], received[c] + 1, last) :
     last \in {l \in received[c] + 1 .. SentUpTo(c) : Stream[c][l].kind \in CutAfter}}

\* The receive callback; the receive is submitted again.
RecvPacket(c) ==
  /\ server = "listening"
  /\ conn[c] = "open"
  /\ \E packet \in Packets(c) : Receive(c, packet)

\* The client goes away, and what has not arrived yet is lost.  Receiving no
\* bytes, the callback returns without touching the session.
RecvClose(c) ==
  /\ server = "listening"
  /\ conn[c] = "open"
  /\ MayClose
  /\ conn' = [conn EXCEPT ![c] = "closed"]
  /\ UNCHANGED <<server, sent, received, sessions, dispatched, deferred, replies>>

\* (mutant) the lambda holds the socket of another connection
DeferredReplyElsewhere(c, i) ==
  /\ server = "listening"
  /\ <<c, i>> \in deferred
  /\ deferred' = deferred \ {<<c, i>>}
  /\ \E d \in Conns : dispatched[d] # <<>> /\ SendReply(d, i, "handler")
  /\ UNCHANGED <<server, conn, sent, received, sessions, dispatched>>

\* An endpoint handler calls the reply handler it kept.  The lambda can be
\* called again and would send again: that an application calls it at most
\* once is an assumption, which nothing in the library enforces.
DeferredReply(c, i) ==
  /\ server = "listening"
  /\ <<c, i>> \in deferred
  /\ deferred' = deferred \ {<<c, i>>}
  /\ SendReply(c, i, "handler")
  /\ UNCHANGED <<server, conn, sent, received, sessions, dispatched>>

ConnStep(c) ==
  \/ Accept(c) \/ ClientSend(c) \/ RecvPacket(c)
  \/ \E i \in 1..Len(dispatched[c]) : DeferredReply(c, i)

Next == Listen \/ \E c \in Conns : ConnStep(c) \/ RecvClose(c)

Spec == Init /\ [][Next]_vars

(***************************************************************************)
(* The polling loop runs every completion, the network delivers what is    *)
(* sent, a handler answers in the end and clients make their requests: on  *)
(* a connection where something can happen, something happens.  Nothing    *)
(* makes a client close.                                                   *)
(***************************************************************************)
Fairness == WF_vars(Listen) /\ \A c \in Conns : WF_vars(ConnStep(c))

FairSpec == Spec /\ Fairness

-----------------------------------------------------------------------------
\* The shape of the state.  A session without data is not in the map: nothing
\* of an earlier request is left in it.
TypeOK ==
  /\ server \in {"new", "listening", "threw"}
  /\ conn \in [Conns -> {"idle", "open", "closed"}]
  /\ sent \in [Conns -> Nat]
  /\ \A c \in Conns : sent[c] <= Len(Ends[c])
  /\ received \in [Conns -> Nat]
  /\ \A c \in Conns : received[c] <= SentUpTo(c)
  /\ sessions \in [Ports -> Session]
  /\ \A p \in Ports : sessions[p].data = <<>> => sessions[p] = NoSession
  /\ dispatched \in [Conns -> Seq(Dispatch)]
  /\ deferred \subseteq Conns \X (Nat \ {0})
  /\ replies \in [Conns -> Seq(Reply)]

\* Where the data the i-th dispatch of c was made from begins.
From(c, i) == IF i = 1 THEN 0 ELSE dispatched[c][i - 1].upto

Segment(c, from, upto) == SubSeq(Stream[c], from + 1, upto)

\* However the stream is cut, every byte received on a connection goes into
\* exactly one of its dispatches, in order, or is waiting in its session:
\* nothing is lost, duplicated, reordered or taken over from another client.
NothingLostOrMixed ==
  \A c \in Conns :
    /\ \A i \in 1..Len(dispatched[c]) :
         dispatched[c][i].data = Segment(c, From(c, i), dispatched[c][i].upto)
    /\ sessions[PortOf[c]].data =
         Segment(c, From(c, Len(dispatched[c]) + 1), received[c])

\* Every call of handle_endpoint is answered on its own connection once, or
\* its reply handler is still kept by the endpoint handler.
AnsweredOnce ==
  \A c \in Conns :
    /\ \A j \in 1..Len(replies[c]) :
         /\ replies[c][j].to \in 1..Len(dispatched[c])
         /\ <<c, replies[c][j].to>> \notin deferred
    /\ \A j, k \in 1..Len(replies[c]) : replies[c][j].to = replies[c][k].to => j = k
    /\ \A i \in 1..Len(dispatched[c]) :
         <<c, i>> \in deferred \/ \E j \in 1..Len(replies[c]) : replies[c][j].to = i

RequestStart(c, k) == IF k = 1 THEN 0 ELSE Ends[c][k - 1]

\* A packet ended between the name of the Content-Length header and its value.
LengthIsCut(d) == d # <<>> /\ d[Len(d)].kind = "clen"

\* The client gave the Content-Length header no value, or one that, as far as
\* it had arrived, is no number that fits.
LengthIsBad(d) ==
  \E i \in DOMAIN d :
    \/ d[i].kind = "clen" /\ i < Len(d) /\ d[i + 1].kind # "digit"
    \/ d[i].kind \in {"digit", "more"} /\ d[i].num = Refused

\* An exception of the parser leaves the receive callback for one of these two
\* reasons only.  If a client's lengths are numbers from their first digit on,
\* that leaves the cut behind the name: one inside the digits makes none.
ThrowsOnlyOnBadLength ==
  server = "threw" =>
    \E p \in Ports : LengthIsCut(sessions[p].data) \/ LengthIsBad(sessions[p].data)

\* The requests as their clients meant them.
RequestOf(c, k) == SubSeq(Stream[c], RequestStart(c, k) + 1, Ends[c][k])

RequestTokens(c, k, kinds) ==
  LET q == RequestOf(c, k) IN Text(q, {i \in DOMAIN q : q[i].kind \in kinds})

Meant(c, k) == [endpoint |-> RequestTokens(c, k, {"target", "tail"}),
                payload |-> RequestTokens(c, k, {"body"})]

MeantRequests == [c \in Conns |-> [k \in 1..Len(Ends[c]) |-> Meant(c, k)]]

\* A request as a client writes it: a request line, then no header at all or
\* the length of the body, of one digit or cut behind its first ones.
RequestLine(q) ==
  /\ q[1].kind = "method" /\ q[2].kind = "target" /\ q[3].kind = "tail"
  /\ q[4].kind = "version" /\ q[5].kind = "eol"

LengthLine(q, h) ==
  /\ q[6].kind = "clen" /\ q[7].kind = "digit" /\ q[h - 1].kind = "eol"
  /\ \/ h = 9 /\ q[7].num = Len(q) - h
     \/ h = 10 /\ q[8].kind = "more" /\ q[7].num \in 0..q[8].num /\ q[8].num = Len(q) - h

\* h is where the header block ends.
Written(q, h) ==
  /\ h \in 6..Len(q)
  /\ RequestLine(q)
  /\ \/ h = 6 /\ Len(q) = 6
     \/ LengthLine(q, h)
  /\ q[h].kind = "blank"
  /\ \A i \in h + 1 .. Len(q) : q[i].kind = "body"

WellFormed(c, k) == \E h \in 6..Len(RequestOf(c, k)) : Written(RequestOf(c, k), h)

WellFormedStreams == \A c \in Conns : \A k \in 1..Len(Ends[c]) : WellFormed(c, k)

\* However the streams are cut, and whatever else its client or others send: a
\* session that began with a well-formed request is not kept waiting for more
\* once it holds all of it.
NoCompleteRequestWaits ==
  \A c \in Conns : \A k \in 1..Len(Ends[c]) :
    WellFormed(c, k) /\ From(c, Len(dispatched[c]) + 1) = RequestStart(c, k)
      => received[c] < Ends[c][k]

Handed(c) == [i \in 1..Len(dispatched[c]) |->
                [endpoint |-> dispatched[c][i].endpoint,
                 payload |-> dispatched[c][i].payload]]

\* IHttpServer.hpp: a session "gathers all http packets until a complete
\* request is formed".  What a handler is called with is a whole request: the
\* n-th call on a connection has the endpoint and all the body of its n-th one.
WholeRequests ==
  \A c \in Conns :
    /\ Len(dispatched[c]) <= Len(Ends[c])
    /\ \A i \in 1..Len(dispatched[c]) : Handed(c)[i] = MeantRequests[c][i]

\* HttpServer implements HttpService as long as a packet never ends inside a
\* request's header block and clients wait for the answer.
Service == INSTANCE HttpService WITH
  Requests <- MeantRequests,
  handed <- [c \in Conns |-> Handed(c)],
  answered <- [c \in Conns |-> [j \in 1..Len(replies[c]) |-> replies[c][j].to]]

ImplementsService == Service!SafeSpec

\* Every request is answered in the end, unless its client closes: no session
\* waits for bytes that do not come, and no early return drops a request.
EveryRequestAnswered ==
  \A c \in Conns : \A k \in 1..Len(Ends[c]) :
    <>(conn[c] = "closed" \/ \E j \in 1..Len(replies[c]) : replies[c][j].to = k)

=============================================================================
