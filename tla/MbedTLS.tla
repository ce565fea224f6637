------------------------------- MODULE MbedTLS -------------------------------
(***************************************************************************)
(* MbedTLS below HttpServer: one mbedtls ssl context and one m_socket for  *)
(* all connections, and for each connection its state and the encrypted    *)
(* data that mbedtls has not read yet.                                     *)
(*                                                                         *)
(* A record is what TLS sends at a time.  mbedtls itself is modelled by    *)
(* how the code uses it: a handshake of two records from the client, one   *)
(* record for a read, an error for a record of another session.  A record  *)
(* that arrived in part waits inside mbedtls, so records are never cut.    *)
(***************************************************************************)
EXTENDS Integers, Sequences, FiniteSets

CONSTANTS
  Conns,        \* connections, each with a client of its own
  NoConn,       \* the null m_socket, and no session
  Requests,     \* how many requests a client sends
  Records,      \* how many records a request takes
  Concurrent,   \* may a client come while another one is there?
  Patient,      \* do clients stay until the requests they sent are answered?
  Glue          \* may a packet hold more than one record?

ASSUME NoConnAssumption == NoConn \notin Conns
ASSUME SizesAssumption == Requests \in Nat /\ Records \in Nat \ {0}
ASSUME EnvironmentAssumption == {Concurrent, Patient, Glue} \subseteq BOOLEAN

VARIABLES
  server,      \* "new", "listening", or "failed": init returned an error
  client,      \* client[c]: "idle", "hello", "open" or "closed"
  sent,        \* sent[c]: how many data records c's client has sent
  network,     \* network[c]: the records on the way to the server
  conns,       \* conns[c]: the connection data of c's socket
  ssl,         \* the ssl context
  m_socket,    \* the connection whose wrapper m_socket is
  gathered,    \* gathered[c]: how many records of a request c's HttpSession holds
  handed,      \* handed[c]: how many requests of c were handed to their handlers
  deferred,    \* reply handlers kept by endpoint handlers
  flights,     \* flights[c]: the sessions whose handshake c's client was sent
  got          \* got[c]: the replies that arrived at c's client

session == <<gathered, handed, deferred>>

vars == <<server, client, sent, network, conns, ssl, m_socket, session, flights, got>>

Record == [kind : {"hello", "finished", "data", "close_notify", "eof"}, of : Conns]

\* NONE: the socket has no connection data yet.
SocketState == {"NONE", "INITIAL", "HANDSHAKE", "READY", "CLOSED"}

ConnectionData == [state : SocketState, encrypted_data : Seq(Record)]

\* session is the connection whose keys the context holds.
Context == [phase : {"fresh", "broken"}, session : {NoConn}]
      \cup [phase : {"flight", "ready", "broken"}, session : Conns]

\* A reply to c's k-th request, encrypted in a session.
Reply == [session : Conns, to : Conns \X (1..Requests)]

FreshContext == [phase |-> "fresh", session |-> NoConn]

Init ==
  /\ server = "new"
  /\ client = [c \in Conns |-> "idle"]
  /\ sent = [c \in Conns |-> 0]
  /\ network = [c \in Conns |-> <<>>]
  /\ conns = [c \in Conns |-> [state |-> "NONE", encrypted_data |-> <<>>]]
  /\ ssl = FreshContext
  /\ m_socket = NoConn
  /\ gathered = [c \in Conns |-> 0]
  /\ handed = [c \in Conns |-> 0]
  /\ deferred = {}
  /\ flights = [c \in Conns |-> {}]
  /\ got = [c \in Conns |-> <<>>]

-----------------------------------------------------------------------------
\* init: any of its calls of mbedtls may fail, and then HttpServer's init
\* returns the error without listening.
Start ==
  /\ server = "new"
  /\ server' \in {"listening", "failed"}
  /\ UNCHANGED <<client, sent, network, conns, ssl, m_socket, session, flights, got>>

-----------------------------------------------------------------------------
(* The clients. *)

\* The connection is over and the server knows it.
Gone(c) == client[c] = "closed" /\ network[c] = <<>>

Send(c, records) == network' = [network EXCEPT ![c] = @ \o records]

Rec(c, kind) == [kind |-> kind, of |-> c]

Connect(c) ==
  /\ server = "listening"
  /\ client[c] = "idle"
  /\ Concurrent \/ \A d \in Conns \ {c} : client[d] = "idle" \/ Gone(d)
  /\ client' = [client EXCEPT ![c] = "hello"]
  /\ Send(c, <<Rec(c, "hello")>>)
  /\ UNCHANGED <<server, sent, conns, ssl, m_socket, session, flights, got>>

Finish(c) ==
  /\ client[c] = "hello"
  /\ c \in flights[c]
  /\ client' = [client EXCEPT ![c] = "open"]
  /\ Send(c, <<Rec(c, "finished")>>)
  /\ UNCHANGED <<server, sent, conns, ssl, m_socket, session, flights, got>>

\* A client begins a request when the last one is answered.
SendData(c) ==
  /\ client[c] = "open"
  /\ sent[c] < Requests * Records
  /\ sent[c] < (Len(got[c]) + 1) * Records
  /\ sent' = [sent EXCEPT ![c] = @ + 1]
  /\ Send(c, <<Rec(c, "data")>>)
  /\ UNCHANGED <<server, client, conns, ssl, m_socket, session, flights, got>>

Close(c) ==
  /\ client[c] \in {"hello", "open"}
  /\ Patient => sent[c] < (Len(got[c]) + 1) * Records
  /\ client' = [client EXCEPT ![c] = "closed"]
  /\ \/ client[c] = "open" /\ Send(c, <<Rec(c, "close_notify"), Rec(c, "eof")>>)
     \/ Send(c, <<Rec(c, "eof")>>)
  /\ UNCHANGED <<server, sent, conns, ssl, m_socket, session, flights, got>>

-----------------------------------------------------------------------------
(* mbedtls. s is a call of it: context, what recv_cb can still give, whose *)
(* flights were given to send_cb and the result, "run" while there is none.*)

\* A record that does not belong there breaks the context, which keeps its
\* keys if the handshake was over.
Break(s) ==
  [s EXCEPT !.ssl = [phase |-> "broken", session |-> IF @.phase = "ready" THEN @.session ELSE NoConn],
            !.data = Tail(@), !.ret = "error"]

HandshakeStep(s) ==
  CASE s.ret # "run" -> s
    [] s.ret = "run" /\ s.ssl.phase = "broken" -> [s EXCEPT !.ret = "error"]
    [] s.ret = "run" /\ s.ssl.phase = "ready" -> [s EXCEPT !.ret = "ok"]
    [] s.ret = "run" /\ s.ssl.phase \in {"fresh", "flight"} ->
         IF s.data = <<>> THEN [s EXCEPT !.ret = "want_read"]
         ELSE IF s.ssl.phase = "fresh" /\ Head(s.data).kind = "hello"
           THEN [s EXCEPT !.ssl = [phase |-> "flight", session |-> Head(s.data).of],
                          !.data = Tail(@), !.flights = @ \cup {Head(s.data).of}]
         ELSE IF s.ssl.phase = "flight" /\ Head(s.data) = Rec(s.ssl.session, "finished")
           THEN [s EXCEPT !.ssl.phase = "ready", !.data = Tail(@)]
         ELSE Break(s)

\* mbedtls_ssl_handshake: a hello, a finished, and done.
SslHandshake(s) == HandshakeStep(HandshakeStep(HandshakeStep(s)))

\* mbedtls_ssl_read: the handshake if it is not over, then one record.
SslRead(s) ==
  LET h == SslHandshake([s EXCEPT !.ret = "run"])
  IN  IF h.ret # "ok" THEN h
      ELSE IF h.data = <<>> THEN [h EXCEPT !.ret = "want_read"]
      ELSE IF Head(h.data) \in {Rec(h.ssl.session, "data"), Rec(h.ssl.session, "close_notify")}
        THEN [h EXCEPT !.ret = Head(h.data).kind, !.data = Tail(@)]
      ELSE Break(h)

-----------------------------------------------------------------------------
(* add_encrypted_data. *)

\* (mutant) the context is not reset for a new connection
ResetContextNever(state) == ssl

\* mbedtls_ssl_session_reset for a connection that is INITIAL.
ResetContext(state) == IF state = "INITIAL" THEN FreshContext ELSE ssl

\* (mutant) what has not been read yet is thrown away
PushReplaces(c, packet) == packet

Push(c, packet) == conns[c].encrypted_data \o packet

\* (mutant) a handshake that waits for more is taken for one that is over
StateAfterWaiting(h, r) ==
  IF h.ret = "error" THEN "HANDSHAKE"
  ELSE IF r.ret \in {"close_notify", "error"} THEN "CLOSED" ELSE "READY"

\* A handshake that failed or waits for more leaves the connection as it is;
\* a close or an error of the read closes it.
StateAfter(h, r) ==
  IF h.ret # "ok" THEN "HANDSHAKE"
  ELSE IF r.ret \in {"close_notify", "error"} THEN "CLOSED" ELSE "READY"

\* The handshake loop, which a READY connection skips, then one call of
\* mbedtls_ssl_read.
RunMbedTLS(state, s) ==
  LET h == IF state = "HANDSHAKE" THEN SslHandshake(s) ELSE [s EXCEPT !.ret = "ok"]
      r == IF h.ret = "ok" THEN SslRead(h) ELSE h
  IN  [ssl |-> r.ssl, data |-> r.data, flights |-> r.flights, ret |-> r.ret,
       state |-> StateAfter(h, r)]

\* send_cb writes to the socket of m_socket.
Arrives(c, reply) ==
  got' = [got EXCEPT ![c] = IF client[c] = "closed" THEN @ ELSE Append(@, reply)]

\* (mutant) is it complete? is asked before the record is added
CompletedBefore(c) == gathered[c] = Records

\* Is the request complete with one more record?
Completed(c) == gathered[c] + 1 = Records

\* (mutant) the session is not erased when its request is complete
HandleDataKeepsSession(c, keys) ==
  LET k == handed[c] + 1
  IN  \/ /\ ~Completed(c)
         /\ gathered' = [gathered EXCEPT ![c] = @ + 1]
         /\ UNCHANGED <<handed, deferred, got>>
      \/ /\ Completed(c)
         /\ handed' = [handed EXCEPT ![c] = k]
         /\ \/ Arrives(c, [session |-> keys, to |-> <<c, k>>]) /\ UNCHANGED deferred
            \/ deferred' = deferred \cup {<<c, k>>} /\ UNCHANGED got
         /\ UNCHANGED gathered

\* The unencrypted data is given to the HTTP layer, which gathers the records
\* of a request.  Its handler answers at once or keeps the reply handler.
HandleData(c, keys) ==
  LET k == handed[c] + 1
  IN  \/ /\ ~Completed(c)
         /\ gathered' = [gathered EXCEPT ![c] = @ + 1]
         /\ UNCHANGED <<handed, deferred, got>>
      \/ /\ Completed(c)
         /\ gathered' = [gathered EXCEPT ![c] = 0]
         /\ handed' = [handed EXCEPT ![c] = k]
         /\ \/ Arrives(c, [session |-> keys, to |-> <<c, k>>]) /\ UNCHANGED deferred
            \/ deferred' = deferred \cup {<<c, k>>} /\ UNCHANGED got

AddEncryptedData(c, packet) ==
  LET state == IF conns[c].state = "NONE" THEN "INITIAL" ELSE conns[c].state
      begun == IF state = "INITIAL" THEN "HANDSHAKE" ELSE state
  IN  IF state = "CLOSED"
        THEN UNCHANGED <<conns, ssl, m_socket, session, flights, got>>
        ELSE \E s \in {RunMbedTLS(begun, [ssl |-> ResetContext(state), data |-> Push(c, packet),
                                          flights |-> {}, ret |-> "run"])} :
               /\ ssl' = s.ssl
               /\ m_socket' = c
               /\ conns' = [conns EXCEPT ![c] = [state |-> s.state, encrypted_data |-> s.data]]
               /\ flights' = [flights EXCEPT ![c] = @ \cup s.flights]
               /\ \/ s.ret = "data" /\ HandleData(c, s.ssl.session)
                  \/ s.ret # "data" /\ UNCHANGED <<session, got>>

\* The receive callback of HttpServer with m_tls.  At the end of the stream
\* it passes on no bytes.
Receive(c) ==
  /\ \/ /\ network[c] # <<>> /\ Head(network[c]).kind = "eof"
        /\ AddEncryptedData(c, <<>>)
        /\ network' = [network EXCEPT ![c] = Tail(@)]
     \/ \E n \in 1..(IF Glue THEN Len(network[c]) ELSE 1) :
          /\ n <= Len(network[c])
          /\ \A i \in 1..n : network[c][i].kind # "eof"
          /\ AddEncryptedData(c, SubSeq(network[c], 1, n))
          /\ network' = [network EXCEPT ![c] = SubSeq(@, n + 1, Len(@))]
  /\ UNCHANGED <<server, client, sent>>

\* An endpoint handler calls the reply handler it kept: the wrapper's send
\* writes into the context, whose send_cb writes to what m_socket is now.
\* Without keys nothing is sent, nor, it may be, by a context that broke.  As
\* in HttpServer, an application is assumed to call it at most once.
DeferredReply(c, k) ==
  /\ <<c, k>> \in deferred
  /\ deferred' = deferred \ {<<c, k>>}
  /\ \/ /\ ssl.phase \in {"ready", "broken"} /\ ssl.session # NoConn
        /\ Arrives(m_socket, [session |-> ssl.session, to |-> <<c, k>>])
     \/ ssl.phase # "ready" /\ UNCHANGED got
  /\ UNCHANGED <<server, client, sent, network, conns, ssl, m_socket, gathered, handed, flights>>

ConnStep(c) ==
  \/ Connect(c) \/ Finish(c) \/ SendData(c) \/ Receive(c)
  \/ \E k \in 1..Requests : DeferredReply(c, k)

Next == Start \/ \E c \in Conns : ConnStep(c) \/ Close(c)

Spec == Init /\ [][Next]_vars

(***************************************************************************)
(* Completions are handled, handlers answer and clients go on: on a        *)
(* connection where something can happen, something happens.  Nothing      *)
(* makes a client close.                                                   *)
(***************************************************************************)
Fairness == \A c \in Conns : WF_vars(ConnStep(c))

FairSpec == Spec /\ Fairness

-----------------------------------------------------------------------------
\* The shape of the state.
TypeOK ==
  /\ server \in {"new", "listening", "failed"}
  /\ client \in [Conns -> {"idle", "hello", "open", "closed"}]
  /\ sent \in [Conns -> 0..Requests * Records]
  /\ network \in [Conns -> Seq(Record)]
  /\ conns \in [Conns -> ConnectionData]
  /\ ssl \in Context
  /\ m_socket \in Conns \cup {NoConn}
  /\ gathered \in [Conns -> 0..Records - 1]
  /\ handed \in [Conns -> 0..Requests]
  /\ deferred \subseteq Conns \X (1..Requests)
  /\ flights \in [Conns -> SUBSET Conns]
  /\ got \in [Conns -> Seq(Reply)]

\* The replies that arrive at a client are, in order, the replies to its
\* requests, encrypted in its session.
RepliesAreInOrder ==
  \A c \in Conns : \A j \in DOMAIN got[c] :
    got[c][j] = [session |-> c, to |-> <<c, j>>] /\ j <= handed[c]

\* How many data records there are in s, and how many of c the HTTP layer had.
DataIn(s) == Cardinality({i \in DOMAIN s : s[i].kind = "data"})

Taken(c) == handed[c] * Records + gathered[c]

\* Every data record is on its way, waits to be read by mbedtls or was given
\* to the HTTP layer, once.
NoRecordIsLost ==
  \A c \in Conns : conns[c].state # "CLOSED" =>
    sent[c] = DataIn(network[c]) + DataIn(conns[c].encrypted_data) + Taken(c)

\* Whoever comes when: nothing a client sent is there twice, and a request is
\* answered, on whatever connection, or its reply handler kept, at most once
\* and only when all of it was handed over.
AnswersTo(c, k) ==
  UNION {{<<d, j>> : j \in {i \in DOMAIN got[d] : got[d][i].to = <<c, k>>}} : d \in Conns}

NothingTwice ==
  \A c \in Conns :
    /\ DataIn(network[c]) + DataIn(conns[c].encrypted_data) + Taken(c) <= sent[c]
    /\ \A k \in 1..Requests :
         /\ Cardinality(AnswersTo(c, k)) <= (IF <<c, k>> \in deferred THEN 0 ELSE 1)
         /\ AnswersTo(c, k) # {} \/ <<c, k>> \in deferred => k <= handed[c]

\* As long as its client is there, a connection that is READY owns the ssl
\* context and m_socket: what is read and written is in its session.
ReadyOwnsTheContext ==
  \A c \in Conns : conns[c].state = "READY" /\ ~Gone(c) =>
    ssl = [phase |-> "ready", session |-> c] /\ m_socket = c

\* HttpServer.hpp: "Pass in an MbedTLS instance to switch to https".  Over
\* https, too, a reply that a client can read is a reply to its own request.
ReadableRepliesAreOwn ==
  \A c \in Conns : \A j \in DOMAIN got[c] :
    got[c][j].session = c => got[c][j].to[1] = c

\* The server gives a connection up only when its client has closed: the
\* context it shares with those before it does not fail it.
ServedUntilClosed ==
  \A c \in Conns : conns[c].state = "CLOSED" => client[c] = "closed"

\* A client that connects gets all its requests answered, unless it closes or
\* a packet held more than one record: then one may wait to be read for ever.
EveryRequestAnswered ==
  \A c \in Conns :
    client[c] = "hello" ~>
      [](\/ client[c] = "closed"
         \/ Len(got[c]) = Requests
         \/ DataIn(conns[c].encrypted_data) > 0)

=============================================================================
