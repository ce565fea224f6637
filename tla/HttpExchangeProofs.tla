-------------------------- MODULE HttpExchangeProofs --------------------------
(***************************************************************************)
(* Proofs about HttpExchange, for any number of requests and any texts of  *)
(* them, if packets end behind header blocks or inside bodies.             *)
(*                                                                         *)
(* The argument: the steps of the exchange are steps of the client or of   *)
(* the server, so the inductive invariants of both parts hold of it; what  *)
(* is left to show is what the network adds, that is in ExchangeInv.       *)
(***************************************************************************)
EXTENDS HttpExchange, TLAPS

ClientP == INSTANCE HttpClientManagerProofs

ServerP == INSTANCE HttpServiceProofs WITH
  Conns <- Requests, Ports <- Requests, PortOf <- [r \in Requests |-> r],
  Ids <- Requests, Ends <- [r \in Requests |-> <<Len(Stream[r])>>],
  Pipelined <- FALSE, MayClose <- TRUE

-----------------------------------------------------------------------------
(* The parts of the exchange are those the proofs are about, definition by *)
(* definition.                                                             *)

\* The client's part meets the assumptions of its theorems.
LEMMA ClientAssumptions ==
  ClientP!DestAssumption /\ ClientP!NoSocketAssumption /\ ClientP!ResponseLenAssumption
BY ClientAssumption
   DEF ClientP!DestAssumption, ClientP!NoSocketAssumption, ClientP!ResponseLenAssumption

\* Both instances of the client start alike.
LEMMA SameStart == Client!Init => ClientP!Init
BY DEF Client!Init, ClientP!Init, Client!Sockets, ClientP!Sockets

\* Both instances of the client make the same calls.
LEMMA SameCalls ==
  /\ Client!SendRequest => ClientP!SendRequest
  /\ \A o : Client!ResolveFails(o) => ClientP!ResolveFails(o)
  /\ \A o : Client!ResolveDone(o) => ClientP!ResolveDone(o)
  /\ \A o : Client!ConnectFails(o) => ClientP!ConnectFails(o)
  /\ \A o : Client!SendFails(o) => ClientP!SendFails(o)
  /\ \A o, n : Client!RecvDone(o, n) => ClientP!RecvDone(o, n)
<1> USE DEF Client!Becomes, ClientP!Becomes, Client!HandlerRuns, ClientP!HandlerRuns,
            Client!Calls, ClientP!Calls, Client!Launch, ClientP!Launch,
            Client!LaunchUrl, ClientP!LaunchUrl, Client!Allocate, ClientP!Allocate,
            Client!FreeClients, ClientP!FreeClients, Client!FirstFree, ClientP!FirstFree,
            Client!Restart, ClientP!Restart, Client!NewClient, ClientP!NewClient,
            Client!Deliver, ClientP!Deliver, Client!LibraryError, ClientP!LibraryError
<1>1. Client!SendRequest => ClientP!SendRequest
  BY DEF Client!SendRequest, ClientP!SendRequest
<1>2. \A o : Client!ResolveFails(o) => ClientP!ResolveFails(o)
  BY DEF Client!ResolveFails, ClientP!ResolveFails
<1>3. \A o : Client!ResolveDone(o) => ClientP!ResolveDone(o)
  BY DEF Client!ResolveDone, ClientP!ResolveDone
<1>4. \A o : Client!ConnectFails(o) => ClientP!ConnectFails(o)
  BY DEF Client!ConnectFails, ClientP!ConnectFails
<1>5. \A o : Client!SendFails(o) => ClientP!SendFails(o)
  BY DEF Client!SendFails, ClientP!SendFails
<1>6. \A o, n : Client!RecvDone(o, n) => ClientP!RecvDone(o, n)
  BY DEF Client!RecvDone, ClientP!RecvDone, Client!ParseResponse, ClientP!ParseResponse
<1> QED BY <1>1, <1>2, <1>3, <1>4, <1>5, <1>6

\* Both instances of the client complete operations alike.
LEMMA SameCompletions ==
  /\ \A o : Client!ConnectDone(o) => ClientP!ConnectDone(o)
  /\ \A o : Client!SendDone(o) => ClientP!SendDone(o)
  /\ \A o : Client!CloseDone(o) => ClientP!CloseDone(o)
BY DEF Client!ConnectDone, ClientP!ConnectDone, Client!SendDone, ClientP!SendDone,
       Client!CloseDone, ClientP!CloseDone

\* What the client does is a step of its own.
LEMMA ClientSteps == [Next]_vars => [ClientP!Next]_ClientP!vars
<1> SUFFICES ASSUME [Next]_vars PROVE ClientP!Next \/ UNCHANGED ClientP!vars
  OBVIOUS
<1>1. CASE SendRequest
  BY <1>1, SameCalls DEF SendRequest, ClientP!Next
<1>2. ASSUME NEW o \in io, ClientCompletion(o) \/ LostReplyNoticed(o)
      PROVE  ClientP!Next
  <2>1. CASE ResolveReturns(o) \/ ConnectReturns(o) \/ SendReturns(o) \/ CloseReturns(o)
    <3>1. ClientP!Completion(o)
      BY <2>1, SameCalls, SameCompletions
         DEF ResolveReturns, ConnectReturns, SendReturns, CloseReturns, ClientP!Completion
    <3> QED BY <3>1 DEF ClientP!Next
  <2>2. CASE ReplyArrives(o) \/ LostReplyNoticed(o)
    <3>1. PICK n \in 0..ResponseLen : Client!RecvDone(o, n)
      BY <2>2, ClientAssumption DEF ReplyArrives, LostReplyNoticed
    <3>2. ClientP!Completion(o)
      BY <3>1, SameCalls DEF ClientP!Completion
    <3> QED BY <3>2 DEF ClientP!Next
  <2> QED BY <1>2, <2>1, <2>2 DEF ClientCompletion
<1>3. CASE UNCHANGED clientVars
  BY <1>3 DEF clientVars, ClientP!vars
<1>4. Listen \/ UNCHANGED vars
        \/ (\E c \in Requests : Accept(c) \/ BytesLeave(c) \/ PacketArrives(c)
                                  \/ CloseArrives(c) \/ HandlerReplies(c))
      => UNCHANGED clientVars
  BY DEF Listen, Accept, BytesLeave, PacketArrives, CloseArrives, HandlerReplies,
         vars, clientVars
<1> QED BY <1>1, <1>2, <1>3, <1>4 DEF Next

-----------------------------------------------------------------------------
\* Both instances of the server start alike.
LEMMA SameServerStart == Server!Init => ServerP!Init
BY DEF Server!Init, ServerP!Init, Server!NoSession, ServerP!NoSession,
       Server!NewSession, ServerP!NewSession, Server!Absent, ServerP!Absent

\* Both instances of the parser read the same.
LEMMA SameParser ==
  /\ \A d : Server!Payload(d) = ServerP!Payload(d)
  /\ \A d : Server!Endpoint(d) = ServerP!Endpoint(d)
  /\ \A d : Server!HasEndpoint(d) <=> ServerP!HasEndpoint(d)
  /\ \A d : Server!KnownMethod(d) <=> ServerP!KnownMethod(d)
  /\ \A clen, d : Server!ParsedLength(clen, d) = ServerP!ParsedLength(clen, d)
  /\ \A clen, d : Server!Outcome(clen, d) = ServerP!Outcome(clen, d)
<1> USE DEF Server!Least, ServerP!Least, Server!Greatest, ServerP!Greatest,
            Server!Newline, ServerP!Newline, Server!HeaderEnds, ServerP!HeaderEnds,
            Server!HeaderSize, ServerP!HeaderSize, Server!Absent, ServerP!Absent,
            Server!Refused, ServerP!Refused
<1>1. \A d : Server!Payload(d) = ServerP!Payload(d)
  BY DEF Server!Payload, ServerP!Payload
<1>2. \A d, n : Server!Word(d, n) = ServerP!Word(d, n)
  BY DEF Server!Word, ServerP!Word, Server!Text, ServerP!Text,
         Server!FirstLine, ServerP!FirstLine, Server!WordStarts, ServerP!WordStarts,
         Server!Spaced, ServerP!Spaced,
         Server!Cardinality, ServerP!Cardinality
<1>3. \A d : Server!HasEndpoint(d) <=> ServerP!HasEndpoint(d)
  BY DEF Server!HasEndpoint, ServerP!HasEndpoint, Server!FirstLine, ServerP!FirstLine,
         Server!WordStarts, ServerP!WordStarts, Server!Spaced, ServerP!Spaced,
         Server!Cardinality, ServerP!Cardinality
<1>4. \A d : Server!KnownMethod(d) <=> ServerP!KnownMethod(d)
  BY <1>2 DEF Server!KnownMethod, ServerP!KnownMethod
<1>5. \A clen, d : Server!ParsedLength(clen, d) = ServerP!ParsedLength(clen, d)
  BY DEF Server!ParsedLength, ServerP!ParsedLength, Server!ClenLines, ServerP!ClenLines,
         Server!LengthAt, ServerP!LengthAt, Server!IsKind, ServerP!IsKind
<1>6. \A clen, d : Server!Outcome(clen, d) = ServerP!Outcome(clen, d)
  BY DEF Server!Outcome, ServerP!Outcome, Server!WantsMore, ServerP!WantsMore
<1>7. \A d : Server!Endpoint(d) = ServerP!Endpoint(d)
  BY <1>2 DEF Server!Endpoint, ServerP!Endpoint
<1> QED BY <1>1, <1>3, <1>4, <1>5, <1>6, <1>7

\* Both instances of the server receive alike.
LEMMA SameReceive == \A c : Server!RecvPacket(c) <=> ServerP!RecvPacket(c)
<1>1. \A c : Server!Packets(c) = ServerP!Packets(c)
  BY DEF Server!Packets, ServerP!Packets, Server!SentUpTo, ServerP!SentUpTo
<1>2. \A old, p : Server!Gathered(old, p) = ServerP!Gathered(old, p)
  BY SameParser DEF Server!Gathered, ServerP!Gathered
<1>3. \A c, d : Server!HandleEndpoint(c, d) <=> ServerP!HandleEndpoint(c, d)
  BY SameParser DEF Server!HandleEndpoint, ServerP!HandleEndpoint, Server!Found, ServerP!Found,
                    Server!SendReply, ServerP!SendReply
<1>4. \A c, p : Server!Receive(c, p) <=> ServerP!Receive(c, p)
  BY <1>2, <1>3, SameParser
     DEF Server!Receive, ServerP!Receive, Server!SessionKey, ServerP!SessionKey,
         Server!Erase, ServerP!Erase, Server!NoSession, ServerP!NoSession,
         Server!NewSession, ServerP!NewSession, Server!Absent, ServerP!Absent
<1> QED BY <1>1, <1>4 DEF Server!RecvPacket, ServerP!RecvPacket

\* Both instances of the server take the same steps.
LEMMA SameServerSteps ==
  /\ Server!Listen => ServerP!Listen
  /\ \A c : Server!Accept(c) => ServerP!Accept(c)
  /\ \A c : Server!ClientSend(c) => ServerP!ClientSend(c)
  /\ \A c : Server!RecvClose(c) => ServerP!RecvClose(c)
  /\ \A c, i : Server!DeferredReply(c, i) => ServerP!DeferredReply(c, i)
BY DEF Server!Listen, ServerP!Listen, Server!Accept, ServerP!Accept,
       Server!ClientSend, ServerP!ClientSend, Server!RecvClose, ServerP!RecvClose,
       Server!DeferredReply, ServerP!DeferredReply, Server!SendReply, ServerP!SendReply

\* Both instances of the server have the same texts.
LEMMA SameTexts ==
  /\ Server!Token = ServerP!Token
  /\ Server!WellFormedStreams <=> ServerP!WellFormedStreams
  /\ Server!NoSession = ServerP!NoSession
  /\ \A c : Server!Handed(c) = ServerP!Handed(c)
  /\ \A c, k : Server!Meant(c, k) = ServerP!Meant(c, k)
<1>1. Server!Token = ServerP!Token
  BY DEF Server!Token, ServerP!Token, Server!TokenOf, ServerP!TokenOf,
         Server!Kinds, ServerP!Kinds, Server!Refused, ServerP!Refused
<1>2. Server!WellFormedStreams <=> ServerP!WellFormedStreams
  BY DEF Server!WellFormedStreams, ServerP!WellFormedStreams,
         Server!WellFormed, ServerP!WellFormed, Server!Written, ServerP!Written,
         Server!RequestOf, ServerP!RequestOf, Server!RequestStart, ServerP!RequestStart,
         Server!RequestLine, ServerP!RequestLine, Server!LengthLine, ServerP!LengthLine
<1>3. Server!NoSession = ServerP!NoSession
  BY DEF Server!NoSession, ServerP!NoSession, Server!NewSession, ServerP!NewSession,
         Server!Absent, ServerP!Absent
<1>4. \A c : Server!Handed(c) = ServerP!Handed(c)
  BY DEF Server!Handed, ServerP!Handed
<1>5. \A c, k : Server!Meant(c, k) = ServerP!Meant(c, k)
  BY DEF Server!Meant, ServerP!Meant, Server!RequestTokens, ServerP!RequestTokens,
         Server!RequestOf, ServerP!RequestOf, Server!RequestStart, ServerP!RequestStart,
         Server!Text, ServerP!Text, Server!Least, ServerP!Least,
         Server!Greatest, ServerP!Greatest
<1> QED BY <1>1, <1>2, <1>3, <1>4, <1>5

\* Packets end where the server's proofs need them to.
BodyCutsOnly == CutAfter \subseteq {"blank", "body"}

\* The server's part meets the assumptions of its theorems.
LEMMA ServerAssumptions ==
  ASSUME BodyCutsOnly
  PROVE  /\ ServerP!PortOfAssumption /\ ServerP!StreamAssumption /\ ServerP!EndsAssumption
         /\ ServerP!PortsDistinct /\ ServerP!WellFormedStreams /\ ServerP!Sequential
<1>1. ServerP!PortOfAssumption /\ ServerP!PortsDistinct
  BY DEF ServerP!PortOfAssumption, ServerP!PortsDistinct
<1>2. ServerP!StreamAssumption /\ ServerP!WellFormedStreams
  BY StreamAssumption, SameTexts DEF ServerP!StreamAssumption
<1>3. ServerP!Sequential
  BY DEF ServerP!Sequential, BodyCutsOnly
<1>4. ServerP!EndsAssumption
  <2> SUFFICES ASSUME NEW c \in Requests
               PROVE  Len(Stream[c]) \in 1..Len(Stream[c])
    BY DEF ServerP!EndsAssumption
  <2>1. Stream[c] \in Seq(ServerP!Token) /\ Len(Stream[c]) \in Nat
    BY StreamAssumption, SameTexts
  <2>2. \E h \in 6..Len(ServerP!RequestOf(c, 1)) : TRUE
    BY <1>2 DEF ServerP!WellFormedStreams, ServerP!WellFormed
  <2>3. ServerP!RequestOf(c, 1) = SubSeq(Stream[c], 1, Len(Stream[c]))
    BY DEF ServerP!RequestOf, ServerP!RequestStart
  <2>4. Len(SubSeq(Stream[c], 1, Len(Stream[c]))) = Len(Stream[c])
    BY <2>1
  <2> QED BY <2>1, <2>2, <2>3, <2>4
<1> QED BY <1>1, <1>2, <1>3, <1>4

\* What the server does is a step of its own.
LEMMA ServerSteps ==
  [Next]_vars => [ServerP!Next]_ServerP!vars
<1> SUFFICES ASSUME [Next]_vars
             PROVE  ServerP!Next \/ UNCHANGED ServerP!vars
  OBVIOUS
<1>1. CASE Listen
  BY <1>1, SameServerSteps DEF Listen, ServerP!Next
<1>2. ASSUME NEW c \in Requests,
             Accept(c) \/ BytesLeave(c) \/ PacketArrives(c) \/ CloseArrives(c)
      PROVE  ServerP!Next
  BY <1>2, SameServerSteps, SameReceive
     DEF Accept, BytesLeave, PacketArrives, CloseArrives, ServerP!Next, ServerP!ConnStep
<1>3. ASSUME NEW c \in Requests, HandlerReplies(c)
      PROVE  ServerP!Next
  <2>1. \E i \in 1..Len(dispatched[c]) : ServerP!DeferredReply(c, i)
    BY <1>3, SameServerSteps DEF HandlerReplies
  <2>2. ServerP!ConnStep(c)
    BY <2>1 DEF ServerP!ConnStep
  <2> QED BY <2>2 DEF ServerP!Next
<1>4. CASE UNCHANGED serverVars
  BY <1>4 DEF serverVars, ServerP!vars
<1>5. SendRequest \/ UNCHANGED vars
        \/ (\E o \in io : ClientCompletion(o) \/ LostReplyNoticed(o))
      => UNCHANGED serverVars
  BY DEF SendRequest, ClientCompletion, ResolveReturns, ConnectReturns, SendReturns,
         ReplyArrives, CloseReturns, LostReplyNoticed, vars, serverVars
<1> QED BY <1>1, <1>2, <1>3, <1>4, <1>5 DEF Next

-----------------------------------------------------------------------------
(* The inductive invariant: those of the parts, and what the network adds. *)

\* Bytes on the network belong to a request that was made, and a client closes
\* a socket, or is about to, because of a reply.
NetworkInv ==
  /\ \A c \in Requests : sent[c] # 0 => c \in issued
  /\ \A c \in Requests : c \in lost \cup closed => replies[c] # <<>>
  /\ \A o \in io : o.op = "close" => replies[o.req] # <<>>
  /\ closed \subseteq Requests

ExchangeInv == ClientP!IInv /\ ServerP!ServiceInv /\ NetworkInv

\* What a pending operation captured is its own.
LEMMA OwnSocket ==
  ASSUME ClientP!IInv, NEW o \in io
  PROVE  /\ o.req \in Requests /\ o.req \in issued
         /\ o.op \in {"resolve", "connect", "send", "recv", "close"}
         /\ o.op # "resolve" => o.sock = o.req /\ clients[o.client].socket = o.req
BY DEF ClientP!IInv, ClientP!PoolInv, ClientP!PoolOk, ClientP!PoolTypes,
       ClientP!OperationOk, ClientP!Operation, ClientP!Sockets

\* What starting a request submits is a connect.
LEMMA LaunchAdds ==
  ASSUME NEW cl, NEW ops, NEW q, NEW p \in ClientP!Launch(cl, ops, q).io, p.op = "close"
  PROVE  p \in ops
<1> DEFINE a == ClientP!Allocate(cl, Dest[q])
           n == [op |-> "connect", req |-> q, client |-> a.id, sock |-> q,
                 ip |-> a.clients[a.id].ip]
<1>1. ClientP!Launch(cl, ops, q).io = ops \cup {n}
  BY DEF ClientP!Launch
<1>2. n.op = "connect"
  OBVIOUS
<1> HIDE DEF n
<1> QED BY <1>1, <1>2

\* A result handler starts no close.
LEMMA NoNewClose ==
  ASSUME NEW cl, NEW ops, NEW s \in ClientP!HandlerRuns(cl, ops), NEW p \in s.io,
         p.op = "close"
  PROVE  p \in ops
<1>1. CASE s = [clients |-> cl, io |-> ops, issued |-> issued]
  BY <1>1
<1>2. ASSUME NEW q, s = ClientP!Launch(cl, ops, q)
      PROVE  p \in ops
  BY <1>2, LaunchAdds
<1>3. ASSUME NEW q, s = ClientP!LaunchUrl(cl, ops, q)
      PROVE  p \in ops
  <2>1. s.io = ops \cup {[op |-> "resolve", req |-> q]}
    BY <1>3 DEF ClientP!LaunchUrl
  <2> QED BY <2>1
<1> QED BY <1>1, <1>2, <1>3 DEF ClientP!HandlerRuns, ClientP!Calls

\* Only a receive leads to a close.
LEMMA OthersCloseNothing ==
  ASSUME NEW p \in io', p.op = "close",
         \/ ClientP!SendRequest
         \/ \E o \in io :
              \/ ClientP!ResolveFails(o) \/ ClientP!ConnectFails(o) \/ ClientP!SendFails(o)
              \/ ClientP!ResolveDone(o) \/ ClientP!ConnectDone(o)
              \/ ClientP!SendDone(o) \/ ClientP!CloseDone(o)
  PROVE  p \in io
<1>1. CASE ClientP!SendRequest
  <2>1. \E s \in ClientP!HandlerRuns(clients, io) : io' = s.io
    BY <1>1 DEF ClientP!SendRequest, ClientP!HandlerRuns, ClientP!Becomes
  <2> QED BY <2>1, NoNewClose
<1>2. ASSUME NEW o \in io,
             ClientP!ResolveFails(o) \/ ClientP!ConnectFails(o) \/ ClientP!SendFails(o)
      PROVE  p \in io
  <2>1. \E s \in ClientP!HandlerRuns(clients, io \ {o}) : io' = s.io
    BY <1>2 DEF ClientP!ResolveFails, ClientP!ConnectFails, ClientP!SendFails, ClientP!Becomes
  <2> QED BY <2>1, NoNewClose
<1>3. ASSUME NEW o \in io, ClientP!ResolveDone(o)
      PROVE  p \in io
  <2>1. io' = ClientP!Launch(clients, io \ {o}, o.req).io
    BY <1>3 DEF ClientP!ResolveDone, ClientP!Becomes
  <2> QED BY <2>1, LaunchAdds
<1>4. ASSUME NEW o \in io,
             ClientP!ConnectDone(o) \/ ClientP!SendDone(o) \/ ClientP!CloseDone(o)
      PROVE  p \in io
  BY <1>4 DEF ClientP!ConnectDone, ClientP!SendDone, ClientP!CloseDone
<1> QED BY <1>1, <1>2, <1>3, <1>4

\* A response leads to the close of the socket it came on, and of no other one.
LEMMA ReceiveCloses ==
  ASSUME NEW p \in io', p.op = "close", NEW o \in io, NEW n, ClientP!RecvDone(o, n)
  PROVE  p \in io \/ p.req = o.req
<1>1. PICK s \in ClientP!HandlerRuns(clients, io \ {o}) :
         io' = s.io \cup {[op |-> "close", req |-> o.req, client |-> o.client,
                           sock |-> s.clients[o.client].socket]}
  BY DEF ClientP!RecvDone
<1>2. CASE p \in s.io
  BY <1>2, NoNewClose
<1>3. CASE p \notin s.io
  BY <1>1, <1>3
<1> QED BY <1>2, <1>3

\* A request that was made stays made.
LEMMA IssuedGrows == [ClientP!Next]_ClientP!vars => issued \subseteq issued'
<1> SUFFICES ASSUME [ClientP!Next]_ClientP!vars PROVE issued \subseteq issued'
  OBVIOUS
<1>1. \A cl, ops : \A s \in ClientP!HandlerRuns(cl, ops) : issued \subseteq s.issued
  <2> SUFFICES ASSUME NEW cl, NEW ops, NEW s \in ClientP!HandlerRuns(cl, ops)
               PROVE  issued \subseteq s.issued
    OBVIOUS
  <2>1. \A q : ClientP!Launch(cl, ops, q).issued = issued \cup {q}
    BY DEF ClientP!Launch
  <2>2. \A q : ClientP!LaunchUrl(cl, ops, q).issued = issued \cup {q}
    BY DEF ClientP!LaunchUrl
  <2> QED BY <2>1, <2>2 DEF ClientP!HandlerRuns, ClientP!Calls
<1>2. CASE ClientP!SendRequest
  BY <1>1, <1>2 DEF ClientP!SendRequest, ClientP!HandlerRuns, ClientP!Becomes
<1>3. ASSUME NEW o \in io, ClientP!Completion(o)
      PROVE  issued \subseteq issued'
  <2>1. CASE ClientP!ResolveFails(o) \/ ClientP!ConnectFails(o) \/ ClientP!SendFails(o)
    BY <1>1, <2>1
       DEF ClientP!ResolveFails, ClientP!ConnectFails, ClientP!SendFails, ClientP!Becomes
  <2>2. CASE ClientP!ResolveDone(o)
    BY <2>2 DEF ClientP!ResolveDone, ClientP!Becomes, ClientP!Launch
  <2>3. CASE ClientP!ConnectDone(o) \/ ClientP!SendDone(o) \/ ClientP!CloseDone(o)
    BY <2>3 DEF ClientP!ConnectDone, ClientP!SendDone, ClientP!CloseDone
  <2>4. ASSUME NEW n, ClientP!RecvDone(o, n)
        PROVE  issued \subseteq issued'
    BY <1>1, <2>4 DEF ClientP!RecvDone
  <2> QED BY <1>3, <2>1, <2>2, <2>3, <2>4 DEF ClientP!Completion
<1>4. CASE UNCHANGED ClientP!vars
  BY <1>4 DEF ClientP!vars
<1> QED BY <1>2, <1>3, <1>4 DEF ClientP!Next

\* The replies on a connection stay as they are, or there is one.
LEMMA RepliesGrow ==
  ASSUME ServerP!ServiceInv, [ServerP!Next]_ServerP!vars, NEW c \in Requests
  PROVE  replies'[c] = replies[c] \/ replies'[c] # <<>>
<1>1. replies \in [Requests -> Seq(ServerP!Reply)]
  BY DEF ServerP!ServiceInv, ServerP!SegmentInv, ServerP!TypeOK
<1>2. ASSUME NEW b, NEW r, replies' = [replies EXCEPT ![b] = Append(@, r)]
      PROVE  replies'[c] = replies[c] \/ replies'[c] # <<>>
  <2>1. CASE b = c
    <3>1. replies'[c] = Append(replies[c], r) /\ replies[c] \in Seq(ServerP!Reply)
      BY <1>1, <1>2, <2>1
    <3>2. Append(replies[c], r)[Len(replies[c]) + 1] = r /\ Len(Append(replies[c], r)) = Len(replies[c]) + 1
      BY <3>1
    <3> QED BY <3>1, <3>2
  <2>2. CASE b # c
    BY <1>1, <1>2, <2>2
  <2> QED BY <2>1, <2>2
<1>3. UNCHANGED replies \/ \E b, r : replies' = [replies EXCEPT ![b] = Append(@, r)]
  <2>1. ASSUME NEW b \in Requests, ServerP!RecvPacket(b)
        PROVE  UNCHANGED replies \/ \E r : replies' = [replies EXCEPT ![b] = Append(@, r)]
    BY <2>1 DEF ServerP!RecvPacket, ServerP!Receive, ServerP!HandleEndpoint, ServerP!SendReply
  <2>2. ASSUME NEW b \in Requests, NEW i, ServerP!DeferredReply(b, i)
        PROVE  \E r : replies' = [replies EXCEPT ![b] = Append(@, r)]
    BY <2>2 DEF ServerP!DeferredReply, ServerP!SendReply
  <2>3. ServerP!Listen \/ UNCHANGED ServerP!vars
          \/ (\E b \in Requests : ServerP!Accept(b) \/ ServerP!ClientSend(b) \/ ServerP!RecvClose(b))
        => UNCHANGED replies
    BY DEF ServerP!Listen, ServerP!Accept, ServerP!ClientSend, ServerP!RecvClose, ServerP!vars
  <2> QED BY <2>1, <2>2, <2>3 DEF ServerP!Next, ServerP!ConnStep
<1> QED BY <1>2, <1>3

-----------------------------------------------------------------------------
(* The invariant is inductive. *)

\* The invariant holds before any request is made.
LEMMA InitExchangeInv == BodyCutsOnly /\ Init => ExchangeInv
<1> SUFFICES ASSUME BodyCutsOnly, Init PROVE ExchangeInv
  OBVIOUS
<1>1. ClientP!IInv
  BY ClientAssumptions, ClientP!InitIInv, SameStart DEF Init
<1>2. ServerP!ServiceInv
  BY ServerAssumptions, ServerP!InitWhole, SameServerStart DEF Init
<1>3. NetworkInv
  BY DEF Init, NetworkInv, Server!Init, Client!Init
<1> QED BY <1>1, <1>2, <1>3 DEF ExchangeInv

\* A step of the exchange keeps the invariants of both parts.
LEMMA NextParts ==
  ASSUME BodyCutsOnly, ExchangeInv, [Next]_vars
  PROVE  /\ ClientP!IInv' /\ ServerP!ServiceInv'
         /\ issued \subseteq issued'
         /\ \A c \in Requests : replies'[c] = replies[c] \/ replies'[c] # <<>>
<1>1. [ClientP!Next]_ClientP!vars /\ ClientP!IInv
  BY ClientSteps DEF ExchangeInv
<1>2. [ServerP!Next]_ServerP!vars /\ ServerP!ServiceInv
  BY ServerSteps DEF ExchangeInv
<1>3. ClientP!IInv'
  BY <1>1, ClientAssumptions, ClientP!NextIInv
<1>4. ServerP!ServiceInv'
  BY <1>2, ServerAssumptions, ServerP!NextWhole
<1> QED BY <1>1, <1>2, <1>3, <1>4, IssuedGrows, RepliesGrow

\* Bytes are sent only for requests that were made.
LEMMA NextSent ==
  ASSUME ExchangeInv, [Next]_vars, NEW c \in Requests, sent'[c] # 0
  PROVE  c \in issued \/ sent'[c] = sent[c]
<1>1. CASE UNCHANGED sent
  BY <1>1
<1>2. ASSUME NEW b \in Requests, BytesLeave(b)
      PROVE  c \in issued \/ sent'[c] = sent[c]
  <2>1. sent \in [Requests -> Nat]
    BY DEF ExchangeInv, ServerP!ServiceInv, ServerP!SegmentInv, ServerP!TypeOK
  <2>2. wire[b] # {} /\ sent' = [sent EXCEPT ![b] = @ + 1]
    BY <1>2 DEF BytesLeave, Server!ClientSend
  <2>3. b \in issued
    BY <2>2 DEF ExchangeInv, ClientP!IInv, ClientP!WireInv
  <2> QED BY <2>1, <2>2, <2>3
<1>3. \/ SendRequest \/ Listen \/ UNCHANGED vars
      \/ \E o \in io : ClientCompletion(o) \/ LostReplyNoticed(o)
      \/ \E b \in Requests : Accept(b) \/ CloseArrives(b) \/ HandlerReplies(b)
      => UNCHANGED sent
  BY DEF SendRequest, ClientCompletion, ResolveReturns, ConnectReturns, SendReturns,
         ReplyArrives, CloseReturns, LostReplyNoticed, vars, serverVars,
         Listen, Accept, CloseArrives, HandlerReplies, Server!Listen, Server!Accept,
         Server!RecvClose, Server!DeferredReply
<1>4. ASSUME NEW b \in Requests, PacketArrives(b)
      PROVE  UNCHANGED sent
  BY <1>4 DEF PacketArrives, Server!RecvPacket, Server!Receive
<1> QED BY <1>1, <1>2, <1>3, <1>4 DEF Next

\* A reply is lost, or a socket closed, only after there was a reply.
LEMMA NextLostOrClosed ==
  ASSUME ExchangeInv, [Next]_vars, NEW c \in Requests, c \in (lost \cup closed)'
  PROVE  c \in lost \cup closed \/ replies[c] # <<>> \/ replies'[c] # replies[c]
<1>1. CASE UNCHANGED <<lost, closed>>
  BY <1>1
<1>2. ASSUME NEW o \in io, CloseReturns(o)
      PROVE  c \in lost \cup closed \/ replies[c] # <<>>
  <2>1. o.op = "close" /\ closed' = closed \cup {o.sock} /\ lost' = lost
    BY <1>2 DEF CloseReturns, Client!CloseDone
  <2>2. o.sock = o.req /\ replies[o.req] # <<>>
    BY <2>1, OwnSocket DEF ExchangeInv, NetworkInv
  <2> QED BY <2>1, <2>2
<1>3. ASSUME NEW b \in Requests, PacketArrives(b) \/ HandlerReplies(b)
      PROVE  c \in lost \cup closed \/ replies'[c] # replies[c]
  BY <1>3 DEF PacketArrives, HandlerReplies, ReplySentOrLost
<1>4. \/ SendRequest \/ Listen \/ UNCHANGED vars
      \/ \E o \in io : ResolveReturns(o) \/ ConnectReturns(o) \/ SendReturns(o)
                         \/ ReplyArrives(o) \/ LostReplyNoticed(o)
      \/ \E b \in Requests : Accept(b) \/ CloseArrives(b) \/ BytesLeave(b)
      => UNCHANGED <<lost, closed>>
  BY DEF SendRequest, ResolveReturns, ConnectReturns, SendReturns, ReplyArrives,
         LostReplyNoticed, vars, Listen, Accept, CloseArrives, BytesLeave
<1> QED BY <1>1, <1>2, <1>3, <1>4 DEF Next, ClientCompletion

\* A socket is about to be closed only after there was a reply.
LEMMA NextCloses ==
  ASSUME ExchangeInv, [Next]_vars, NEW p \in io', p.op = "close"
  PROVE  p \in io \/ replies[p.req] # <<>>
<1>1. CASE UNCHANGED io
  BY <1>1
<1>2. CASE SendRequest
  BY <1>2, SameCalls, OthersCloseNothing DEF SendRequest
<1>3. ASSUME NEW o \in io,
             ResolveReturns(o) \/ ConnectReturns(o) \/ SendReturns(o) \/ CloseReturns(o)
      PROVE  p \in io
  BY <1>3, SameCalls, SameCompletions, OthersCloseNothing
     DEF ResolveReturns, ConnectReturns, SendReturns, CloseReturns
<1>4. ASSUME NEW o \in io, ReplyArrives(o) \/ LostReplyNoticed(o)
      PROVE  p \in io \/ replies[p.req] # <<>>
  <2>1. PICK n : Client!RecvDone(o, n)
    BY <1>4 DEF ReplyArrives, LostReplyNoticed
  <2>2. p \in io \/ p.req = o.req
    BY <2>1, SameCalls, ReceiveCloses
  <2>3. o.sock = o.req /\ o.req \in Requests
    BY <1>4, OwnSocket DEF ExchangeInv, ReplyArrives, LostReplyNoticed
  <2>4. replies[o.sock] # <<>>
    BY <1>4, <2>3 DEF ExchangeInv, NetworkInv, ReplyArrives, LostReplyNoticed
  <2> QED BY <2>2, <2>3, <2>4
<1>5. \/ Listen \/ UNCHANGED vars
      \/ \E b \in Requests : Accept(b) \/ BytesLeave(b) \/ PacketArrives(b)
                               \/ CloseArrives(b) \/ HandlerReplies(b)
      => UNCHANGED io
  BY DEF Listen, Accept, BytesLeave, PacketArrives, CloseArrives, HandlerReplies,
         vars, clientVars
<1> QED BY <1>1, <1>2, <1>3, <1>4, <1>5 DEF Next, ClientCompletion

\* Every step keeps the invariant.
LEMMA NextExchangeInv == BodyCutsOnly /\ ExchangeInv /\ [Next]_vars => ExchangeInv'
<1> SUFFICES ASSUME BodyCutsOnly, ExchangeInv, [Next]_vars PROVE ExchangeInv'
  OBVIOUS
<1>1. /\ ClientP!IInv' /\ ServerP!ServiceInv'
      /\ issued \subseteq issued'
      /\ \A c \in Requests : replies'[c] = replies[c] \/ replies'[c] # <<>>
  BY NextParts
<1>2. NetworkInv
  BY DEF ExchangeInv
<1>3. \A c \in Requests : sent'[c] # 0 => c \in issued'
  BY <1>1, <1>2, NextSent DEF NetworkInv
<1>4. \A c \in Requests : c \in (lost \cup closed)' => replies'[c] # <<>>
  BY <1>1, <1>2, NextLostOrClosed DEF NetworkInv
<1>5. \A p \in io' : p.op = "close" => replies'[p.req] # <<>>
  <2> SUFFICES ASSUME NEW p \in io', p.op = "close" PROVE replies'[p.req] # <<>>
    OBVIOUS
  <2>1. p.req \in Requests
    BY <1>1 DEF ClientP!IInv, ClientP!PoolInv, ClientP!PoolOk, ClientP!PoolTypes,
                ClientP!Operation
  <2>2. replies[p.req] # <<>>
    BY <1>2, NextCloses DEF NetworkInv
  <2> QED BY <1>1, <2>1, <2>2
<1>6. closed' \subseteq Requests
  <2>1. ASSUME NEW o \in io, CloseReturns(o)
        PROVE  closed' \subseteq Requests
    <3>1. o.sock \in Requests
      BY <2>1, OwnSocket DEF ExchangeInv, CloseReturns, Client!CloseDone
    <3> QED BY <1>2, <2>1, <3>1 DEF CloseReturns, NetworkInv
  <2>2. UNCHANGED closed \/ \E o \in io : CloseReturns(o)
    BY DEF Next, ClientCompletion, SendRequest, ResolveReturns, ConnectReturns, SendReturns,
           ReplyArrives, LostReplyNoticed, vars, Listen, Accept, CloseArrives, BytesLeave,
           PacketArrives, HandlerReplies
  <2> QED BY <1>2, <2>1, <2>2 DEF NetworkInv
<1> QED BY <1>1, <1>3, <1>4, <1>5, <1>6 DEF ExchangeInv, NetworkInv

-----------------------------------------------------------------------------
(* What a client may rely on when it closes a socket. *)

\* There is one request on every connection.
LEMMA OneRequestEach ==
  ASSUME BodyCutsOnly, ExchangeInv, NEW c \in Requests
  PROVE  /\ Len(dispatched[c]) \in {0, 1} /\ Len(replies[c]) \in {0, 1} /\ sent[c] \in {0, 1}
         /\ Len(replies[c]) <= Len(dispatched[c]) /\ Len(dispatched[c]) <= sent[c]
         /\ sent[c] = 0 => received[c] = 0
         /\ received[c] <= Len(Stream[c]) /\ Len(Stream[c]) \in Nat
         /\ dispatched[c] \in Seq(ServerP!Dispatch) /\ replies[c] \in Seq(ServerP!Reply)
<1> DEFINE ends == [r \in Requests |-> <<Len(Stream[r])>>]
           n == Len(dispatched[c])
           m == Len(replies[c])
<1>1. ServerP!ServiceInv /\ ServerP!WholeOf(c) /\ ServerP!TypeOK
  BY DEF ExchangeInv, ServerP!ServiceInv, ServerP!SegmentInv
<1>2. /\ n \in Nat /\ m \in Nat /\ sent[c] \in Nat /\ sent[c] <= Len(ends[c])
      /\ Len(Stream[c]) \in Nat /\ received[c] \in Nat
      /\ dispatched \in [Requests -> Seq(ServerP!Dispatch)]
      /\ replies \in [Requests -> Seq(ServerP!Reply)]
  BY <1>1, ServerAssumptions, ServerP!ServiceTypes
<1>3. ends[c] = <<Len(Stream[c])>> /\ Len(<<Len(Stream[c])>>) = 1
  OBVIOUS
<1>4. sent[c] <= 1
  BY <1>2, <1>3
<1>5. n <= sent[c] /\ (m = n \/ m + 1 = n)
  BY <1>1 DEF ServerP!WholeOf
<1>6. received[c] <= ServerP!SentUpTo(c)
  BY <1>1 DEF ServerP!TypeOK
<1>7. ServerP!SentUpTo(c) = IF sent[c] = 0 THEN 0 ELSE <<Len(Stream[c])>>[sent[c]]
  BY <1>3 DEF ServerP!SentUpTo
<1> HIDE DEF n, m, ends
<1>8. sent[c] \in {0, 1} /\ n \in {0, 1} /\ m \in {0, 1} /\ m <= n
  BY <1>2, <1>4, <1>5
<1>9. <<Len(Stream[c])>>[1] = Len(Stream[c])
  OBVIOUS
<1>10. received[c] <= Len(Stream[c]) /\ (sent[c] = 0 => received[c] = 0)
  BY <1>2, <1>6, <1>7, <1>8, <1>9
<1> QED BY <1>2, <1>5, <1>8, <1>10 DEF n, m

\* Answered means done.
LEMMA AnsweredIsDone ==
  ASSUME BodyCutsOnly, ExchangeInv, NEW c \in Requests, replies[c] # <<>>
  PROVE  sessions[c] = ServerP!NoSession /\ Len(replies[c]) = 1 /\ ~Kept(c)
<1> DEFINE n == Len(dispatched[c])
           m == Len(replies[c])
           l == Len(Stream[c])
<1>1. /\ n \in {0, 1} /\ m \in {0, 1} /\ m <= n /\ n <= sent[c] /\ sent[c] \in {0, 1}
      /\ received[c] <= l /\ l \in Nat /\ replies[c] \in Seq(ServerP!Reply)
  BY OneRequestEach
<1>2. m # 0
  BY <1>1
<1>3. m = 1 /\ n = 1
  BY <1>1, <1>2
<1>4. ServerP!WholeOf(c) /\ ServerP!SegmentsOf(c) /\ ServerP!TypeOK
  BY DEF ExchangeInv, ServerP!ServiceInv, ServerP!SegmentInv
<1>5. /\ \A i : <<c, i>> \notin deferred
      /\ ServerP!LastUpto(c) = ServerP!RequestStart(c, n + 1)
  BY <1>3, <1>4 DEF ServerP!WholeOf
<1>6. ServerP!RequestStart(c, 2) = l
  BY DEF ServerP!RequestStart
<1>7. ServerP!LastUpto(c) = l
  <2>1. n + 1 = 2
    BY <1>3
  <2> QED BY <1>5, <1>6, <2>1
<1>8. received[c] = l
  <2>1. ServerP!LastUpto(c) \in 0..received[c] /\ received[c] \in Nat
    BY <1>4 DEF ServerP!SegmentsOf, ServerP!TypeOK
  <2> QED BY <1>1, <1>7, <2>1
<1>9. sessions[c].data = SubSeq(Stream[c], l + 1, l)
  BY <1>4, <1>7, <1>8 DEF ServerP!SegmentsOf, ServerP!Segment
<1>10. sessions[c].data = <<>>
  <2>1. Stream[c] \in Seq(Server!Token)
    BY StreamAssumption
  <2> QED BY <1>1, <1>9, <2>1
<1>11. sessions[c] = ServerP!NoSession
  BY <1>4, <1>10 DEF ServerP!TypeOK
<1> QED BY <1>3, <1>5, <1>11 DEF Kept

\* No request was handed over in part.
AllWhole == \A c \in Requests : ~HandedOverInPart(c)

\* The one dispatch of a connection is of all that its client sends.
LEMMA HandedOverWhole ==
  ASSUME BodyCutsOnly, ExchangeInv
  PROVE  AllWhole
<1> SUFFICES ASSUME NEW c \in Requests, dispatched[c] # <<>>
             PROVE  ~(dispatched[c][1].upto < Len(Stream[c]))
  BY DEF AllWhole, HandedOverInPart
<1>1. /\ Len(dispatched[c]) \in {0, 1} /\ Len(Stream[c]) \in Nat
      /\ dispatched[c] \in Seq(ServerP!Dispatch)
  BY OneRequestEach
<1>2. Len(dispatched[c]) = 1 /\ Len(dispatched[c]) + 1 = 2
  <2>1. Len(dispatched[c]) # 0
    BY <1>1
  <2>2. Len(dispatched[c]) = 1
    BY <1>1, <2>1
  <2> QED BY <2>2
<1>3. ServerP!WholeOf(c)
  BY DEF ExchangeInv, ServerP!ServiceInv
<1>4. ServerP!LastUpto(c) = ServerP!RequestStart(c, 2)
  BY <1>2, <1>3 DEF ServerP!WholeOf
<1>5. ServerP!RequestStart(c, 2) = Len(Stream[c])
  BY DEF ServerP!RequestStart
<1>6. ServerP!LastUpto(c) = dispatched[c][1].upto
  BY <1>2 DEF ServerP!LastUpto, ServerP!From
<1> QED BY <1>1, <1>4, <1>5, <1>6

\* If packets end behind header blocks or inside bodies, then no request is
\* handed over when only a part of it has arrived: there are no exceptions to
\* what the next two theorems say.
THEOREM RequestsAreHandedOverWhole ==
  ASSUME BodyCutsOnly
  PROVE  Spec => []AllWhole
<1>1. ExchangeInv => AllWhole
  BY HandedOverWhole
<1>2. Init => ExchangeInv
  BY InitExchangeInv
<1>3. ExchangeInv /\ [Next]_vars => ExchangeInv'
  BY NextExchangeInv
<1> QED BY <1>1, <1>2, <1>3, PTL DEF Spec

\* When a client closes a socket the server has nothing left to do for it: the
\* entry of m_active_sessions is gone, the request was answered and no handler
\* keeps a reply handler that would send on that socket again.
THEOREM ClosedSocketsAreDone ==
  ASSUME BodyCutsOnly
  PROVE  Spec => []ClosedMeansDone
<1>1. ExchangeInv => ClosedMeansDone
  <2> SUFFICES ASSUME ExchangeInv, NEW c \in closed
               PROVE  sessions[c] = Server!NoSession /\ Len(replies[c]) = 1 /\ ~Kept(c)
    BY DEF ClosedMeansDone
  <2>1. c \in Requests /\ replies[c] # <<>>
    BY DEF ExchangeInv, NetworkInv
  <2> QED BY <2>1, AnsweredIsDone, SameTexts
<1>2. Init => ExchangeInv
  BY InitExchangeInv
<1>3. ExchangeInv /\ [Next]_vars => ExchangeInv'
  BY NextExchangeInv
<1> QED BY <1>1, <1>2, <1>3, PTL DEF Spec

-----------------------------------------------------------------------------
(* The exchange implements RemoteCall. *)

HandledAll == [r \in Requests |-> Handled(r)]

ReturnedAll == [r \in Requests |-> Returned(r)]

\* Without a dispatch a request was not handled.
LEMMA NothingHandled ==
  ASSUME NEW c \in Requests, Len(dispatched[c]) = 0
  PROVE  HandledAll[c] = <<>>
BY DEF HandledAll, Handled, Server!Handed

\* With a dispatch a request was handled.
LEMMA SomethingHandled ==
  ASSUME AllWhole, NEW c \in Requests, Len(dispatched[c]) = 1
  PROVE  HandledAll[c] # <<>>
<1> DEFINE f == [i \in 1..1 |-> [endpoint |-> dispatched[c][i].endpoint,
                                 payload |-> dispatched[c][i].payload]]
<1>1. HandledAll[c] = f
  BY DEF AllWhole, HandledAll, Handled, Server!Handed
<1>2. DOMAIN f = 1..1 /\ 1 \in 1..1 /\ DOMAIN <<>> = 1..0 /\ 1 \notin 1..0
  OBVIOUS
<1> HIDE DEF f
<1> QED BY <1>1, <1>2

\* Only a receive returns a response, and the socket it was submitted on had
\* a reply sent on it.
LEMMA OkMeansHandled ==
  ASSUME BodyCutsOnly, ExchangeInv, [Next]_vars, NEW r \in Requests, NEW a,
         results[r] = <<>>, results' = [results EXCEPT ![r] = <<a>>], a.status = "OK"
  PROVE  HandledAll[r] # <<>>
<1>1. results \in [Requests -> Seq(ClientP!Result)] /\ results'[r] = <<a>> /\ <<a>> # <<>>
  BY DEF ExchangeInv, ClientP!IInv, ClientP!AnswerInv
<1>2. ASSUME NEW q \in Requests, NEW b, results' = [results EXCEPT ![q] = Append(@, b)]
      PROVE  q = r /\ b = a
  <2>1. q = r
    BY <1>1, <1>2
  <2>2. <<a>> = Append(<<>>, b)
    BY <1>1, <1>2, <2>1
  <2> QED BY <2>1, <2>2
<1>3. ~UNCHANGED results
  BY <1>1
<1>4. ASSUME NEW o \in io,
             Client!ResolveFails(o) \/ Client!ConnectFails(o) \/ Client!SendFails(o)
      PROVE  FALSE
  <2>1. PICK st \in {"SERVICE_UNAVAILABLE", "NOT_REACHABLE"} :
          results' = [results EXCEPT ![o.req] = Append(@, Client!LibraryError(st))]
    BY <1>4 DEF Client!ResolveFails, Client!ConnectFails, Client!SendFails, Client!Deliver
  <2>2. Client!LibraryError(st).status = st /\ o.req \in Requests
    BY OwnSocket DEF Client!LibraryError, ExchangeInv
  <2>3. Client!LibraryError(st) = a
    BY <1>2, <2>1, <2>2
  <2> QED BY <2>2, <2>3
<1>5. ASSUME NEW o \in io, ReplyArrives(o) \/ LostReplyNoticed(o)
      PROVE  HandledAll[r] # <<>>
  <2>1. PICK n : Client!RecvDone(o, n)
    BY <1>5 DEF ReplyArrives, LostReplyNoticed
  <2>2. o.sock = o.req /\ o.req \in Requests
    BY <1>5, OwnSocket DEF ExchangeInv, ReplyArrives, LostReplyNoticed
  <2>3. o.req = r
    BY <1>2, <2>1, <2>2 DEF Client!RecvDone, Client!Deliver
  <2>4. replies[r] # <<>>
    BY <1>5, <2>2, <2>3 DEF ExchangeInv, NetworkInv, ReplyArrives, LostReplyNoticed
  <2>5. Len(dispatched[r]) \in {0, 1} /\ Len(replies[r]) \in {0, 1}
        /\ Len(replies[r]) <= Len(dispatched[r]) /\ replies[r] \in Seq(ServerP!Reply)
    BY OneRequestEach
  <2>6. Len(replies[r]) # 0
    BY <2>4, <2>5
  <2>7. Len(dispatched[r]) = 1
    BY <2>5, <2>6
  <2> QED BY <2>7, HandedOverWhole, SomethingHandled
<1>6. ASSUME NEW o \in io, ResolveReturns(o) \/ ConnectReturns(o) \/ SendReturns(o)
      PROVE  FALSE
  <2>1. Client!ResolveDone(o) \/ Client!ConnectDone(o) \/ Client!SendDone(o)
          => UNCHANGED results
    BY DEF Client!ResolveDone, Client!ConnectDone, Client!SendDone
  <2> QED BY <1>3, <1>4, <1>6, <2>1 DEF ResolveReturns, ConnectReturns, SendReturns
<1>7. \/ SendRequest \/ Listen \/ UNCHANGED vars \/ \E o \in io : CloseReturns(o)
      \/ \E b \in Requests : Accept(b) \/ BytesLeave(b) \/ PacketArrives(b)
                               \/ CloseArrives(b) \/ HandlerReplies(b)
      => UNCHANGED results
  BY DEF SendRequest, Client!SendRequest, CloseReturns, Client!CloseDone,
         Listen, Accept, BytesLeave, PacketArrives, CloseArrives, HandlerReplies,
         vars, clientVars
<1> QED BY <1>3, <1>5, <1>6, <1>7 DEF Next, ClientCompletion

\* A step of the client makes requests or returns a result, or both.
LEMMA ClientCallsAndReturns ==
  ASSUME BodyCutsOnly, ExchangeInv, [Next]_vars, dispatched' = dispatched
  PROVE  Call!Next \/ UNCHANGED <<issued, HandledAll, ReturnedAll>>
<1>1. ClientP!IInv /\ ClientP!IInv' /\ [ClientP!Next]_ClientP!vars
  BY ClientSteps, NextParts DEF ExchangeInv
<1> USE DEF HandedOverInPart
<1>2. HandledAll' = HandledAll /\ AllWhole'
  BY HandedOverWhole DEF HandledAll, Handled, Server!Handed, AllWhole
<1>3. CASE UNCHANGED <<issued, results>>
  BY <1>2, <1>3 DEF ReturnedAll, Returned
<1>4. ASSUME NEW new \in SUBSET Requests, ClientP!Ledger!Issue(new)
      PROVE  Call!Next
  <2>1. issued' = issued \cup new /\ ReturnedAll' = ReturnedAll
    BY <1>4 DEF ClientP!Ledger!Issue, ReturnedAll, Returned
  <2>2. Call!Call(new)
    BY <1>2, <2>1 DEF Call!Call, HandledAll, ReturnedAll
  <2> QED BY <2>2 DEF Call!Next
<1>5. ASSUME NEW new \in SUBSET Requests, NEW r \in Requests, ClientP!Ledger!Answer(r, new)
      PROVE  Call!Next
  <2>1. /\ r \in issued /\ results[r] = <<>> /\ issued' = issued \cup new
        /\ \E a : results' = [results EXCEPT ![r] = <<a>>]
    BY <1>5 DEF ClientP!Ledger!Answer
  <2>2. PICK a : results' = [results EXCEPT ![r] = <<a>>]
    BY <2>1
  <2>3. results \in [Requests -> Seq(ClientP!Result)]
    BY <1>1 DEF ClientP!IInv, ClientP!AnswerInv
  <2>4. /\ results'[r] = <<a>> /\ <<a>> # <<>> /\ <<a>>[1] = a
        /\ \A q \in Requests : q # r => results'[q] = results[q]
    BY <2>2, <2>3
  <2> DEFINE st == IF a.status = "OK" THEN "response" ELSE "error"
  <2>5. ReturnedAll[r] = "nothing"
    BY <2>1 DEF ReturnedAll, Returned
  <2>6. ReturnedAll' = [ReturnedAll EXCEPT ![r] = st]
    <3>1. Returned(r)' = st
      <4>1. results'[r] # <<>> /\ results'[r][1] = a
        BY <2>4
      <4> QED BY <1>2, <4>1 DEF Returned, AllWhole
    <3>2. \A q \in Requests : q # r => Returned(q)' = Returned(q)
      BY <2>4 DEF Returned
    <3> HIDE DEF st
    <3> QED BY <3>1, <3>2 DEF ReturnedAll
  <2>7. st = "response" => HandledAll[r] # <<>>
    BY <2>1, <2>2, OkMeansHandled
  <2>8. Call!Return(r, new)
    BY <1>2, <2>1, <2>5, <2>6, <2>7 DEF Call!Return, HandledAll, ReturnedAll
  <2> QED BY <2>8 DEF Call!Next
<1>6. [ClientP!Ledger!Next]_(ClientP!Ledger!ledgerVars)
  BY <1>1, ClientAssumptions, ClientP!StepsAnswerLikeLedger
<1> QED BY <1>3, <1>4, <1>5, <1>6 DEF ClientP!Ledger!Next, ClientP!Ledger!ledgerVars

\* A packet completes a request that was made and not handled yet, or nothing.
LEMMA PacketHandles ==
  ASSUME BodyCutsOnly, ExchangeInv, AllWhole', NEW c \in Requests, PacketArrives(c)
  PROVE  Call!Next \/ UNCHANGED <<issued, HandledAll, ReturnedAll>>
<1> DEFINE ends == [r \in Requests |-> <<Len(Stream[r])>>]
<1>1. ServerP!RecvPacket(c) /\ UNCHANGED <<issued, results>>
  BY SameReceive DEF PacketArrives, clientVars
<1>2. ReturnedAll' = ReturnedAll
  BY <1>1, HandedOverWhole DEF ReturnedAll, Returned, AllWhole
<1>3. ServerP!ServiceInv
  BY DEF ExchangeInv
<1>4. PICK last \in received[c] + 1 .. Len(Stream[c]) :
         /\ Len(dispatched[c]) + 1 \in 1..Len(ends[c])
         /\ sent[c] = Len(dispatched[c]) + 1
         /\ received' = [received EXCEPT ![c] = last]
         /\ \/ ServerP!Waits(c, last)
            \/ /\ ServerP!HandsOver(c, last)
               /\ ServerP!Arrived(c, last) = ServerP!RequestOf(c, Len(dispatched[c]) + 1)
  BY <1>1, <1>3, ServerAssumptions, ServerP!WaitsOrHandsOver
<1>5. CASE ServerP!Waits(c, last)
  BY <1>1, <1>2, <1>5 DEF ServerP!Waits, HandledAll, Handled, HandedOverInPart, Server!Handed
<1>6. CASE /\ ServerP!HandsOver(c, last)
           /\ ServerP!Arrived(c, last) = ServerP!RequestOf(c, Len(dispatched[c]) + 1)
  <2>1. Len(dispatched[c]) = 0 /\ Len(dispatched[c]) + 1 = 1
    <3>1. Len(dispatched[c]) \in {0, 1} /\ sent[c] \in {0, 1}
      BY OneRequestEach
    <3> QED BY <1>4, <3>1
  <2>2. c \in issued
    <3>1. sent[c] # 0
      BY <1>4, <2>1
    <3> QED BY <3>1 DEF ExchangeInv, NetworkInv
  <2>3. HandledAll[c] = <<>>
    BY <2>1, NothingHandled
  <2>4. /\ ServerP!Handed(c)'[Len(dispatched[c]) + 1] = ServerP!Meant(c, Len(dispatched[c]) + 1)
        /\ \A b \in Requests : b # c => ServerP!Handed(b)' = ServerP!Handed(b)
    BY <1>3, <1>4, <1>6, ServerAssumptions, ServerP!HandedIsMeant
  <2>5. Len(dispatched'[c]) = Len(dispatched[c]) + 1
    <3>1. ServerP!SegmentInv
      BY <1>3 DEF ServerP!ServiceInv
    <3> QED BY <1>4, <1>6, <3>1, ServerAssumptions, ServerP!HandsOverAll
  <2>6. ServerP!Handed(c)' = <<ServerP!Meant(c, 1)>>
    <3>1. Len(dispatched'[c]) = 1
      BY <2>1, <2>5
    <3>2. ServerP!Handed(c)' = [i \in 1..1 |-> [endpoint |-> dispatched'[c][i].endpoint,
                                                payload |-> dispatched'[c][i].payload]]
      BY <3>1 DEF ServerP!Handed
    <3>3. ServerP!Handed(c)'[1] = ServerP!Meant(c, 1)
      BY <2>1, <2>4
    <3> QED BY <3>2, <3>3
  <2>7. HandledAll' = [HandledAll EXCEPT ![c] = <<Server!Meant(c, 1)>>]
    <3>1. \A b \in Requests : HandledAll[b] = ServerP!Handed(b)
      BY SameTexts, HandedOverWhole DEF HandledAll, Handled, AllWhole
    <3>2. HandledAll' = [b \in Requests |-> ServerP!Handed(b)']
      BY DEF HandledAll, Handled, AllWhole, Server!Handed, ServerP!Handed
    <3>3. ServerP!Meant(c, 1) = Server!Meant(c, 1)
      BY SameTexts
    <3> QED BY <2>4, <2>6, <3>1, <3>2, <3>3 DEF HandledAll
  <2>8. MeantRequests[c] = Server!Meant(c, 1)
    BY DEF MeantRequests
  <2>9. Call!Handle(c)
    BY <1>1, <1>2, <2>2, <2>3, <2>7, <2>8 DEF Call!Handle, HandledAll, ReturnedAll
  <2> QED BY <2>9 DEF Call!Next
<1> QED BY <1>4, <1>5, <1>6

\* Every step of the exchange is a step of RemoteCall, or none.
LEMMA StepsCall ==
  ASSUME BodyCutsOnly, ExchangeInv, AllWhole', [Next]_vars
  PROVE  [Call!Next]_(Call!callVars)
<1>1. (\E c \in Requests : PacketArrives(c)) \/ dispatched' = dispatched
  BY DEF Next, ClientCompletion, SendRequest, ResolveReturns, ConnectReturns, SendReturns,
         ReplyArrives, LostReplyNoticed, CloseReturns, vars, serverVars, Listen, Accept,
         CloseArrives, BytesLeave, HandlerReplies, Server!Listen, Server!Accept,
         Server!ClientSend, Server!RecvClose, Server!DeferredReply
<1>2. Call!Next \/ UNCHANGED <<issued, HandledAll, ReturnedAll>>
  BY <1>1, ClientCallsAndReturns, PacketHandles
<1> QED BY <1>2 DEF Call!callVars, HandledAll, ReturnedAll

\* Client and server together keep RemoteCall's promise: a request is handed
\* to a handler at most once and as it was meant, its caller gets at most one
\* result, and whoever gets a response had its own request handled.
THEOREM RequestsAreHandledAtMostOnce ==
  ASSUME BodyCutsOnly
  PROVE  Spec => AtMostOnce
<1>1. Init => Call!Init
  <2> SUFFICES ASSUME Init PROVE Call!Init
    OBVIOUS
  <2>1. /\ issued = {} /\ results = [r \in Requests |-> <<>>]
        /\ dispatched = [c \in Requests |-> <<>>]
    BY DEF Init, Client!Init, Server!Init
  <2>2. \A c \in Requests : Len(dispatched[c]) = 0
    BY <2>1
  <2>3. HandledAll = [c \in Requests |-> <<>>]
    BY <2>2, NothingHandled DEF HandledAll
  <2>4. ReturnedAll = [c \in Requests |-> "nothing"]
    BY <2>1 DEF ReturnedAll, Returned
  <2> QED BY <2>1, <2>3, <2>4 DEF Call!Init, HandledAll, ReturnedAll
<1>2. Init => ExchangeInv
  BY InitExchangeInv
<1>3. ExchangeInv /\ [Next]_vars => ExchangeInv'
  BY NextExchangeInv
<1>4. ExchangeInv => AllWhole
  BY HandedOverWhole
<1>5. ExchangeInv /\ AllWhole' /\ [Next]_vars => [Call!Next]_(Call!callVars)
  BY StepsCall
<1> QED BY <1>1, <1>2, <1>3, <1>4, <1>5, PTL DEF Spec, AtMostOnce, Call!SafeSpec

=============================================================================
