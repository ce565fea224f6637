---------------------------- MODULE HttpExchange ----------------------------
(***************************************************************************)
(* HttpClientManager talking to HttpServer: the two components, and a      *)
(* network between them that establishes connections, carries a request,   *)
(* carries the reply or loses it, and tells the server of a close.         *)
(*                                                                         *)
(* send_request makes a socket for every request, so the connections of    *)
(* the server are the sockets of the client and have the requests' names.  *)
(* Both sides' callbacks run in the processes that poll their io_uring.    *)
(***************************************************************************)
EXTENDS Naturals, Sequences, FiniteSets

CONSTANTS
  Requests, Hosts, Dest, NoSocket, ResponseLen,   \* as in HttpClientManager
  Stream,     \* Stream[r]: the tokens of the request the client sends for r
  CutAfter,   \* the kinds of tokens TCP may end a packet after
  Routed      \* the requests whose endpoint a handler was registered for

VARIABLES
  clients, io, issued, results, peer, wire,
  server, conn, sent, received, sessions, dispatched, deferred, replies,
  lost,       \* connections on which sending the first reply failed
  closed      \* sockets the client has closed

Client == INSTANCE HttpClientManager

Server == INSTANCE HttpServer WITH
  Conns <- Requests, Ports <- Requests, PortOf <- [r \in Requests |-> r],
  Ids <- Requests, Ends <- [r \in Requests |-> <<Len(Stream[r])>>],
  Pipelined <- FALSE, MayClose <- TRUE

ASSUME ClientAssumption ==
  /\ Dest \in [Requests -> Hosts]
  /\ NoSocket \notin Requests
  /\ ResponseLen \in Nat \ {0, 1, 2}

\* What the client sends for a request is one request, as it should be written.
ASSUME StreamAssumption ==
  /\ Stream \in [Requests -> Seq(Server!Token)]
  /\ Server!WellFormedStreams

clientVars == <<clients, io, issued, results, peer, wire>>

serverVars == <<server, conn, sent, received, sessions, dispatched, deferred, replies>>

vars == <<clientVars, serverVars, lost, closed>>

Init == Client!Init /\ Server!Init /\ lost = {} /\ closed = {}

-----------------------------------------------------------------------------
(* The client's steps, with what they need of the network. *)

SendRequest ==
  /\ Client!SendRequest
  /\ UNCHANGED <<serverVars, lost, closed>>

ResolveReturns(o) ==
  /\ Client!ResolveFails(o) \/ Client!ResolveDone(o)
  /\ UNCHANGED <<serverVars, lost, closed>>

\* A connection is established as soon as the server listens.
ConnectReturns(o) ==
  /\ Client!ConnectFails(o) \/ (server = "listening" /\ Client!ConnectDone(o))
  /\ UNCHANGED <<serverVars, lost, closed>>

\* A send that succeeds has given all bytes to the network; one that fails
\* may have given none, some or all of them.
SendReturns(o) ==
  /\ Client!SendFails(o) \/ (Client!SendDone(o) /\ sent[o.sock] = 1)
  /\ UNCHANGED <<serverVars, lost, closed>>

\* The receive returns some of the reply, at once.
ReplyArrives(o) ==
  /\ o.op = "recv"
  /\ replies[o.sock] # <<>>
  /\ o.sock \notin lost
  /\ \E n \in 1..ResponseLen : Client!RecvDone(o, n)
  /\ UNCHANGED <<serverVars, lost, closed>>

\* A reply that could not be sent: the client may get a part of it, or no
\* bytes when the connection breaks, or it is told nothing.
LostReplyNoticed(o) ==
  /\ o.op = "recv"
  /\ o.sock \in lost
  /\ \E n \in 0..ResponseLen - 1 : Client!RecvDone(o, n)
  /\ UNCHANGED <<serverVars, lost, closed>>

CloseReturns(o) ==
  /\ Client!CloseDone(o)
  /\ closed' = closed \cup {o.sock}
  /\ UNCHANGED <<serverVars, lost>>

-----------------------------------------------------------------------------
(* The server's steps. *)

\* send_reply gives the socket a callback that ignores the result.  Of several
\* replies on a connection only the first one matters: the client receives once.
ReplySentOrLost(c) ==
  \/ UNCHANGED lost
  \/ replies[c] = <<>> /\ replies'[c] # <<>> /\ lost' = lost \cup {c}

Listen ==
  /\ Server!Listen
  /\ UNCHANGED <<clientVars, lost, closed>>

Accept(c) ==
  /\ peer[c] # {}
  /\ Server!Accept(c)
  /\ UNCHANGED <<clientVars, lost, closed>>

\* The network takes over what the client has submitted.
BytesLeave(c) ==
  /\ wire[c] # {}
  /\ Server!ClientSend(c)
  /\ UNCHANGED <<clientVars, lost, closed>>

PacketArrives(c) ==
  /\ Server!RecvPacket(c)
  /\ ReplySentOrLost(c)
  /\ UNCHANGED <<clientVars, closed>>

CloseArrives(c) ==
  /\ c \in closed
  /\ Server!RecvClose(c)
  /\ UNCHANGED <<clientVars, lost, closed>>

HandlerReplies(c) ==
  /\ \E i \in 1..Len(dispatched[c]) : Server!DeferredReply(c, i)
  /\ ReplySentOrLost(c)
  /\ UNCHANGED <<clientVars, closed>>

-----------------------------------------------------------------------------
ClientCompletion(o) ==
  \/ ResolveReturns(o) \/ ConnectReturns(o) \/ SendReturns(o)
  \/ ReplyArrives(o) \/ CloseReturns(o)

Next ==
  \/ SendRequest \/ Listen
  \/ \E o \in io : ClientCompletion(o) \/ LostReplyNoticed(o)
  \/ \E c \in Requests :
       \/ Accept(c) \/ BytesLeave(c) \/ PacketArrives(c)
       \/ CloseArrives(c) \/ HandlerReplies(c)

Spec == Init /\ [][Next]_vars

\* The send of r was reported as failed.
SendFailed(r) == results[r] # <<>> /\ results[r][1].status = "NOT_REACHABLE"

Delivery(c) ==
  \/ Accept(c) \/ BytesLeave(c)
  \/ ~SendFailed(c) /\ PacketArrives(c)

(***************************************************************************)
(* Both polling loops run their completions, and what was sent without an  *)
(* error arrives.  Nothing makes a handler answer that kept its reply      *)
(* handler, nothing delivers a request whose send failed, and nothing      *)
(* tells a client that its reply was lost.                                 *)
(***************************************************************************)
Fairness ==
  /\ WF_vars(Listen)
  /\ \A r \in Requests :
       /\ WF_vars(\E o \in io : o.req = r /\ ClientCompletion(o))
       /\ WF_vars(Delivery(r))

FairSpec == Spec /\ Fairness

-----------------------------------------------------------------------------
\* A request was handed over when only a part of it had arrived, which a packet
\* that ends in its header block can cause.
HandedOverInPart(c) == dispatched[c] # <<>> /\ dispatched[c][1].upto < Len(Stream[c])

\* The exchange implements RemoteCall, in which a request that was handed over
\* in part was not handled, and what its caller got is no response.
MeantRequests == [r \in Requests |-> Server!Meant(r, 1)]

Handled(r) == IF HandedOverInPart(r) THEN <<>> ELSE Server!Handed(r)

Returned(r) ==
  IF results[r] = <<>> THEN "nothing"
  ELSE IF results[r][1].status = "OK" /\ ~HandedOverInPart(r) THEN "response" ELSE "error"

Call == INSTANCE RemoteCall WITH
  Meant <- MeantRequests,
  called <- issued,
  handled <- [r \in Requests |-> Handled(r)],
  returned <- [r \in Requests |-> Returned(r)]

\* However requests are cut: one that was not handed over in part is handled at
\* most once and whole, also if its caller was told of an error, and a caller
\* that got a response had its own request handled.
AtMostOnce == Call!SafeSpec

\* A reply handler kept for c.
Kept(c) == \E i \in 1..Len(dispatched[c]) : <<c, i>> \in deferred

\* When a client closes a socket the server has nothing left to do for it:
\* its session is gone, its request was answered and no handler will try to
\* send on that connection again.  The rest of a request that was handed over
\* in part may still come and may be handed over, too.
ClosedMeansDone ==
  \A c \in {r \in closed : ~HandedOverInPart(r)} :
    /\ sessions[c] = Server!NoSession
    /\ Len(replies[c]) = 1
    /\ ~Kept(c)

\* HttpClient has no timeout.  However requests are cut, nobody waits for ever
\* except for a handler that does not answer, for a reply that could not be
\* sent, or for a server that an exception has left: no cut makes an early
\* return the last thing that happens to a request.
WaitsForHandlerOrLostReply ==
  \A r \in Requests :
    r \in issued ~> [](results[r] # <<>> \/ Kept(r) \/ r \in lost \/ server = "threw")

\* Once there are no new requests, the data left in m_active_sessions is of
\* requests whose send failed on the way, which are never closed, and the rest
\* of requests that were handed over in part.  No close erases either.
SessionsDrain ==
  <>[](\/ server = "threw"
       \/ \A c \in Requests :
            sessions[c] # Server!NoSession => SendFailed(c) \/ HandedOverInPart(c))

=============================================================================
