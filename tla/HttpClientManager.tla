-------------------------- MODULE HttpClientManager --------------------------
(***************************************************************************)
(* The client side of the library: HttpClientManager, its pool of          *)
(* HttpClient objects and the chain of io_uring completions one request    *)
(* goes through (resolve, connect, send, receive, close).                  *)
(*                                                                         *)
(* Every callback runs on the thread that polls io_uring, so a callback is *)
(* one atomic step; what interleaves is the ORDER of the completions of    *)
(* different requests.  The callbacks capture the client by a raw this and *)
(* read its m_socket and m_ip when they run, not when they were installed, *)
(* so a client that were handed out twice would mix up two requests.       *)
(***************************************************************************)
EXTENDS Naturals, Sequences, FiniteSets

CONSTANTS
  Requests,     \* the calls of send_request the application makes, one id each
  Hosts,        \* addresses a request can be sent to
  Dest,         \* Dest[r]: the address request r is meant for
  NoSocket,     \* the null m_socket
  ResponseLen   \* a whole response is cut in this many parts

ASSUME DestAssumption == Dest \in [Requests -> Hosts]
ASSUME NoSocketAssumption == NoSocket \notin Requests
ASSUME ResponseLenAssumption == ResponseLen \in Nat \ {0, 1, 2}

VARIABLES
  clients,      \* m_http_client_registration: the HttpClient objects, in order
  io,           \* operations submitted to io_uring and not yet completed
  issued,       \* requests the application has made
  results,      \* results[r]: the arguments result handler r was called with
  peer,         \* peer[s]: the host socket s is connected to
  wire          \* wire[s]: the requests whose bytes were sent on socket s

vars == <<clients, io, issued, results, peer, wire>>

(***************************************************************************)
(* send_request creates exactly one socket, so a socket is named by the    *)
(* request that created it.  An operation carries what its lambda captures *)
(* (client, req) and the socket it was submitted on.                       *)
(***************************************************************************)
Sockets == Requests

Client == [can_be_recycled : BOOLEAN,
           socket : Sockets \cup {NoSocket},
           ip : Hosts]

Operation ==
       [op : {"resolve"}, req : Requests]
  \cup [op : {"connect"}, req : Requests, client : Nat \ {0}, sock : Sockets, ip : Hosts]
  \cup [op : {"send", "recv", "close"}, req : Requests, client : Nat \ {0}, sock : Sockets]

OnClient == {o \in io : o.op # "resolve"}

Status == {"OK", "BAD_REQUEST", "NOT_REACHABLE", "SERVICE_UNAVAILABLE"}

\* What a result handler is called with.  re and host are bookkeeping: the
\* requests the responding server had been sent on that socket, and the
\* host it runs on; both are empty for an error the library makes up itself.
Result == [status : Status, payload : 0..ResponseLen, re : SUBSET Requests, host : SUBSET Hosts]

LibraryError(status) == [status |-> status, payload |-> 0, re |-> {}, host |-> {}]

Init ==
  /\ clients = <<>>
  /\ io = {}
  /\ issued = {}
  /\ results = [r \in Requests |-> <<>>]
  /\ peer = [s \in Sockets |-> {}]
  /\ wire = [s \in Sockets |-> {}]

-----------------------------------------------------------------------------
(***************************************************************************)
(* allocate_http_client: the first client of the vector that can be        *)
(* recycled is restarted, otherwise a new one is appended.                 *)
(***************************************************************************)
\* (mutant) the can_be_recycled test is dropped
FreeClientsAny(cl) == DOMAIN cl

FreeClients(cl) == {i \in DOMAIN cl : cl[i].can_be_recycled}

FirstFree(cl) == CHOOSE i \in FreeClients(cl) : \A j \in FreeClients(cl) : i <= j

NewClient(ip) == [can_be_recycled |-> FALSE, socket |-> NoSocket, ip |-> ip]

\* (mutant) restart forgets to clear m_can_be_recycled
RestartStaysRecyclable(cl, i, ip) ==
  [cl EXCEPT ![i] = [NewClient(ip) EXCEPT !.can_be_recycled = TRUE]]

\* (mutant) restart forgets to take over the new address
RestartKeepsIp(cl, i, ip) == [cl EXCEPT ![i] = NewClient(cl[i].ip)]

Restart(cl, i, ip) == [cl EXCEPT ![i] = NewClient(ip)]

Allocate(cl, ip) ==
  IF FreeClients(cl) # {}
    THEN [id |-> FirstFree(cl), clients |-> Restart(cl, FirstFree(cl), ip)]
    ELSE [id |-> Len(cl) + 1, clients |-> Append(cl, NewClient(ip))]

-----------------------------------------------------------------------------
(***************************************************************************)
(* send_request(ip, ...): allocate a client and start HttpClient's         *)
(* send_request on it, which replaces m_socket by a fresh socket and       *)
(* submits the connect to m_ip.                                            *)
(***************************************************************************)
Launch(cl, ops, q) ==
  LET a == Allocate(cl, Dest[q])
  IN  [clients |-> [a.clients EXCEPT ![a.id].socket = q],
       io |-> ops \cup {[op |-> "connect", req |-> q, client |-> a.id, sock |-> q,
                         ip |-> a.clients[a.id].ip]},
       issued |-> issued \cup {q}]

\* send_request(url, ...): only the resolver is started.
LaunchUrl(cl, ops, q) ==
  [clients |-> cl,
   io |-> ops \cup {[op |-> "resolve", req |-> q]},
   issued |-> issued \cup {q}]

Calls(cl, ops) ==
  {Launch(cl, ops, q) : q \in Requests \ issued}
    \cup {LaunchUrl(cl, ops, q) : q \in Requests \ issued}

\* The result handler is application code.  It may start another request
\* before it returns, while the callback that runs it is still on the stack.
HandlerRuns(cl, ops) ==
  {[clients |-> cl, io |-> ops, issued |-> issued]} \cup Calls(cl, ops)

Becomes(s) ==
  /\ clients' = s.clients
  /\ io' = s.io
  /\ issued' = s.issued

Deliver(r, res) == results' = [results EXCEPT ![r] = Append(@, res)]

-----------------------------------------------------------------------------
\* The application calls either send_request outside any callback.
SendRequest ==
  /\ \E s \in Calls(clients, io) : Becomes(s)
  /\ UNCHANGED <<results, peer, wire>>

\* (mutant) the error path returns without calling the result handler
ResolveFailsSilently(o) ==
  /\ o.op = "resolve"
  /\ io' = io \ {o}
  /\ UNCHANGED <<clients, issued, results, peer, wire>>

\* resolve_hostname reports an error or an empty list of addresses.
ResolveFails(o) ==
  /\ o.op = "resolve"
  /\ Deliver(o.req, LibraryError("SERVICE_UNAVAILABLE"))
  /\ \E s \in HandlerRuns(clients, io \ {o}) : Becomes(s)
  /\ UNCHANGED <<peer, wire>>

\* The first address is used, with the URL's port.
ResolveDone(o) ==
  /\ o.op = "resolve"
  /\ Becomes(Launch(clients, io \ {o}, o.req))
  /\ UNCHANGED <<results, peer, wire>>

\* (mutant) the error path returns without calling the result handler
ConnectFailsSilently(o) ==
  /\ o.op = "connect"
  /\ io' = io \ {o}
  /\ UNCHANGED <<clients, issued, results, peer, wire>>

\* The client is left as it is: neither closed nor marked dead.
ConnectFails(o) ==
  /\ o.op = "connect"
  /\ Deliver(o.req, LibraryError("NOT_REACHABLE"))
  /\ \E s \in HandlerRuns(clients, io \ {o}) : Becomes(s)
  /\ UNCHANGED <<peer, wire>>

\* send_request_connected: the bytes of the captured request go to whatever
\* socket m_socket is now.
ConnectDone(o) ==
  /\ o.op = "connect"
  /\ LET s == clients[o.client].socket
     IN  /\ io' = (io \ {o}) \cup
                  {[op |-> "send", req |-> o.req, client |-> o.client, sock |-> s]}
         /\ wire' = [wire EXCEPT ![s] = @ \cup {o.req}]
  /\ peer' = [peer EXCEPT ![o.sock] = {o.ip}]
  /\ UNCHANGED <<clients, issued, results>>

SendFails(o) ==
  /\ o.op = "send"
  /\ Deliver(o.req, LibraryError("NOT_REACHABLE"))
  /\ \E s \in HandlerRuns(clients, io \ {o}) : Becomes(s)
  /\ UNCHANGED <<peer, wire>>

SendDone(o) ==
  /\ o.op = "send"
  /\ io' = (io \ {o}) \cup
           {[op |-> "recv", req |-> o.req, client |-> o.client,
             sock |-> clients[o.client].socket]}
  /\ UNCHANGED <<clients, issued, results, peer, wire>>

\* (mutant) parse does not stop when no end of the header block was found
ParseResponseNoEarlyReturn(n, s) ==
  [status |-> IF n >= 2 THEN "OK" ELSE "BAD_REQUEST",
   payload |-> n - 3,
   re |-> wire[s],
   host |-> peer[s]]

\* What HttpParser makes of the first n parts of a response: the status line
\* is cut in parts 1 and 2, part 3 ends the header block, the rest is body.
ParseResponse(n, s) ==
  [status |-> IF n >= 2 THEN "OK" ELSE "BAD_REQUEST",
   payload |-> IF n > 3 THEN n - 3 ELSE 0,
   re |-> wire[s],
   host |-> peer[s]]

\* One message is received, with n parts of the response in it (0: the peer
\* closed).  The handler is called with what it parses to, and only then is
\* the close of m_socket submitted; the receive is not re-submitted.
RecvDone(o, n) ==
  /\ o.op = "recv"
  /\ Deliver(o.req, ParseResponse(n, o.sock))
  /\ \E s \in HandlerRuns(clients, io \ {o}) :
       /\ clients' = s.clients
       /\ io' = s.io \cup
            {[op |-> "close", req |-> o.req, client |-> o.client,
              sock |-> s.clients[o.client].socket]}
       /\ issued' = s.issued
  /\ UNCHANGED <<peer, wire>>

\* (mutant) mark_dead is not called
CloseDoneForgets(o) ==
  /\ o.op = "close"
  /\ io' = io \ {o}
  /\ UNCHANGED <<clients, issued, results, peer, wire>>

\* mark_dead: from here on allocate_http_client may hand the client out.
CloseDone(o) ==
  /\ o.op = "close"
  /\ clients' = [clients EXCEPT ![o.client].can_be_recycled = TRUE]
  /\ io' = io \ {o}
  /\ UNCHANGED <<issued, results, peer, wire>>

Completion(o) ==
  \/ ResolveFails(o) \/ ResolveDone(o)
  \/ ConnectFails(o) \/ ConnectDone(o)
  \/ SendFails(o) \/ SendDone(o)
  \/ \E n \in 0..ResponseLen : RecvDone(o, n)
  \/ CloseDone(o)

Next == SendRequest \/ \E o \in io : Completion(o)

Spec == Init /\ [][Next]_vars

(***************************************************************************)
(* io_uring completes every operation submitted to it.  For a receive this *)
(* also assumes that the server answers or closes: the code has no timeout *)
(* of its own.                                                             *)
(***************************************************************************)
Fairness == \A r \in Requests : WF_vars(\E o \in io : o.req = r /\ Completion(o))

FairSpec == Spec /\ Fairness

-----------------------------------------------------------------------------
\* The shape of the state.
TypeOK ==
  /\ clients \in Seq(Client)
  /\ io \subseteq Operation
  /\ issued \subseteq Requests
  /\ results \in [Requests -> Seq(Result)]
  /\ peer \in [Sockets -> SUBSET Hosts]
  /\ wire \in [Sockets -> SUBSET Requests]

\* A client carries at most one request: two operations that captured the
\* same this never wait in io_uring together, and a client with a pending
\* operation is not offered for recycling.
OneRequestPerClient ==
  \A o \in OnClient :
    /\ \A p \in OnClient : o.client = p.client => o = p
    /\ ~clients[o.client].can_be_recycled

\* When a callback runs, the m_socket it reads is the socket its operation
\* was submitted on and the one its own request created: no request was
\* started on the client in between.
CallbackSeesItsSocket ==
  \A o \in OnClient : o.sock = o.req /\ clients[o.client].socket = o.sock

\* A response delivered to a result handler answers that handler's request,
\* alone, and comes from the host the request was meant for.
ResponseIsOwn ==
  \A r \in Requests : \A i \in DOMAIN results[r] :
    results[r][i].status \in {"OK", "BAD_REQUEST"} =>
      results[r][i].re = {r} /\ results[r][i].host = {Dest[r]}

\* The result handler is called when the request completes or when there is
\* an error on the way: at most once, and as long as it has not been called
\* an operation of the request is pending that can still lead to the call.
ResultOnceOrPending ==
  \A r \in issued :
    \/ Len(results[r]) = 1 /\ \A o \in io : o.req = r => o.op = "close"
    \/ results[r] = <<>> /\ \E o \in io : o.req = r /\ o.op # "close"

\* A client with nothing pending can be recycled, except for the clients
\* whose last request could not be connected or sent: those stay in the pool
\* for good.
Failed(i) ==
  LET r == clients[i].socket
  IN  r # NoSocket /\ results[r] # <<>> /\ results[r][1].status = "NOT_REACHABLE"

IdleUnlessFailed ==
  \A i \in DOMAIN clients :
    \/ \E o \in OnClient : o.client = i
    \/ clients[i].can_be_recycled
    \/ Failed(i)

\* The manager implements RequestLedger: an answer is a request's own when it
\* is the response to it from the host it was meant for, or an error.
OwnAnswer(r) ==
  {a \in Result : a.status \in {"OK", "BAD_REQUEST"} => a.re = {r} /\ a.host = {Dest[r]}}

Ledger == INSTANCE RequestLedger WITH Own <- [r \in Requests |-> OwnAnswer(r)]

ImplementsLedger == Ledger!SafeSpec

AnswersLikeLedger == Ledger!Spec

\* Once the application stops making requests, every client that is not lost
\* to a failure comes back to the pool.
PoolDrains == <>[](\A i \in DOMAIN clients : clients[i].can_be_recycled \/ Failed(i))

\* HttpClientManager.hpp says the result handler is called when the request
\* completes: a successful result would then hold the whole response body.
ResultIsComplete ==
  \A r \in Requests : \A i \in DOMAIN results[r] :
    results[r][i].status = "OK" => results[r][i].payload = ResponseLen - 3

\* HttpClient.cpp marks a client dead "so that the HttpClient can be reused":
\* a client that has nothing left to do would then be reusable.
IdleIsReusable ==
  \A i \in DOMAIN clients :
    clients[i].can_be_recycled \/ \E o \in OnClient : o.client = i

=============================================================================
