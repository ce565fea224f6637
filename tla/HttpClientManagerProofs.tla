----------------------- MODULE HttpClientManagerProofs -----------------------
(***************************************************************************)
(* Proofs about HttpClientManager, for any set of requests and hosts and a *)
(* response of any length.                                                 *)
(*                                                                         *)
(* The argument: a client with a pending operation is never recyclable, so *)
(* allocate_http_client never hands it out; hence nothing a new request    *)
(* does touches it, and the m_socket a callback reads is still the one of  *)
(* its own request.  PoolInv says this about the pool and the pending      *)
(* operations, WireInv about the bytes on the sockets, and the other       *)
(* properties follow.                                                      *)
(***************************************************************************)
EXTENDS HttpClientManager, WellFoundedInduction, SequenceTheorems, TLAPS

PoolTypes(cl, ops) ==
  /\ cl \in Seq(Client)
  /\ ops \subseteq Operation

\* What holds of a pending operation and the client it captured.
OperationOk(cl, o) ==
  o.op # "resolve" =>
    /\ o.client \in 1..Len(cl)
    /\ ~cl[o.client].can_be_recycled
    /\ o.sock = o.req
    /\ cl[o.client].socket = o.req
    /\ cl[o.client].ip = Dest[o.req]
    /\ o.op = "connect" => o.ip = Dest[o.req]

Unshared(ops) ==
  \A o, p \in ops :
    /\ o.req = p.req => o = p
    /\ o.op # "resolve" /\ p.op # "resolve" /\ o.client = p.client => o = p

PoolOk(cl, ops) ==
  /\ PoolTypes(cl, ops)
  /\ \A o \in ops : OperationOk(cl, o)
  /\ Unshared(ops)

\* A step of the pool: operations are only added, at most one of them, for a
\* request not made before, and clients that are in use stay as they are.
NewOperation(ops, s, n) ==
  /\ n \in Operation
  /\ n.op \in {"connect", "resolve"}
  /\ n.req \in Requests \ issued
  /\ s.io = ops \cup {n}
  /\ s.issued = issued \cup {n.req}

PoolStep(cl, ops, s) ==
  /\ PoolOk(s.clients, s.io)
  /\ \/ s.io = ops /\ s.issued = issued
     \/ \E n : NewOperation(ops, s, n)
  /\ \A i \in 1..Len(cl) : ~cl[i].can_be_recycled =>
       i \in 1..Len(s.clients) /\ s.clients[i] = cl[i]
  /\ \A o \in s.io : o \in ops \/ (o.op # "resolve" =>
       ~(o.client \in 1..Len(cl) /\ ~cl[o.client].can_be_recycled))

USE DestAssumption, NoSocketAssumption, ResponseLenAssumption

-----------------------------------------------------------------------------
(* Allocation. *)

\* The first client that can be recycled can be recycled.
LEMMA FirstFreeIsFree ==
  ASSUME NEW cl \in Seq(Client), FreeClients(cl) # {}
  PROVE  FirstFree(cl) \in 1..Len(cl) /\ cl[FirstFree(cl)].can_be_recycled
<1> DEFINE R == OpToRel(<, Nat)
<1>1. FreeClients(cl) \subseteq Nat
  BY DEF FreeClients
<1>2. IsWellFoundedOn(R, Nat)
  BY NatLessThanWellFounded
<1>3. PICK i \in FreeClients(cl) : \A j \in FreeClients(cl) : ~ (<<j, i>> \in R)
  <2> HIDE DEF R
  <2> QED BY <1>1, <1>2, WFMin
<1>4. ASSUME NEW j \in FreeClients(cl)
      PROVE  i <= j
  <2>1. R = {ss \in Nat \X Nat : ss[1] < ss[2]}
    BY DEF OpToRel
  <2>2. <<j, i>> \in Nat \X Nat /\ i \in Nat /\ j \in Nat
    BY <1>1
  <2>3. ~(j < i)
    <3> HIDE DEF R
    <3> QED BY <1>3, <2>1, <2>2
  <2> QED BY <2>2, <2>3
<1> QED BY <1>4 DEF FirstFree, FreeClients

\* allocate_http_client returns a client that was free or is new, aimed at ip,
\* and leaves every client that is in use as it is.
LEMMA AllocateProperties ==
  ASSUME NEW cl \in Seq(Client), NEW ip \in Hosts
  PROVE  LET a == Allocate(cl, ip)
         IN  /\ a.clients \in Seq(Client)
             /\ a.id \in 1..Len(a.clients)
             /\ Len(cl) <= Len(a.clients)
             /\ a.clients[a.id] = NewClient(ip)
             /\ ~(a.id \in 1..Len(cl) /\ ~cl[a.id].can_be_recycled)
             /\ \A i \in 1..Len(cl) : i # a.id => a.clients[i] = cl[i]
<1>1. NewClient(ip) \in Client
  BY DEF NewClient, Client
<1>2. CASE FreeClients(cl) # {}
  <2>1. FirstFree(cl) \in 1..Len(cl) /\ cl[FirstFree(cl)].can_be_recycled
    BY <1>2, FirstFreeIsFree
  <2>2. Restart(cl, FirstFree(cl), ip) \in Seq(Client)
        /\ Len(Restart(cl, FirstFree(cl), ip)) = Len(cl)
    BY <1>1, <2>1, ExceptSeq DEF Restart
  <2> QED BY <1>2, <2>1, <2>2 DEF Allocate, Restart
<1>3. CASE FreeClients(cl) = {}
  BY <1>1, <1>3 DEF Allocate
<1> QED BY <1>2, <1>3

\* Starting a request on the allocated client is a step of the pool.
LEMMA LaunchIsPoolStep ==
  ASSUME NEW cl, NEW ops, PoolOk(cl, ops), NEW q \in Requests,
         \A o \in ops : o.req # q
  PROVE  LET s == Launch(cl, ops, q)
         IN  /\ PoolOk(s.clients, s.io)
             /\ \E n : /\ n \in Operation /\ n.op = "connect" /\ n.req = q
                      /\ s.io = ops \cup {n}
             /\ s.issued = issued \cup {q}
             /\ \A i \in 1..Len(cl) : ~cl[i].can_be_recycled =>
                  i \in 1..Len(s.clients) /\ s.clients[i] = cl[i]
             /\ \A o \in s.io : o \in ops \/ (o.op # "resolve" =>
                  ~(o.client \in 1..Len(cl) /\ ~cl[o.client].can_be_recycled))
<1> DEFINE a == Allocate(cl, Dest[q])
           s == Launch(cl, ops, q)
           n == [op |-> "connect", req |-> q, client |-> a.id, sock |-> q,
                 ip |-> a.clients[a.id].ip]
<1>1. cl \in Seq(Client) /\ ops \subseteq Operation
  BY DEF PoolOk, PoolTypes
<1>2. Dest[q] \in Hosts
  OBVIOUS
<1>3. /\ a.clients \in Seq(Client)
      /\ a.id \in 1..Len(a.clients)
      /\ Len(cl) <= Len(a.clients)
      /\ a.clients[a.id] = NewClient(Dest[q])
      /\ ~(a.id \in 1..Len(cl) /\ ~cl[a.id].can_be_recycled)
      /\ \A i \in 1..Len(cl) : i # a.id => a.clients[i] = cl[i]
  BY <1>1, <1>2, AllocateProperties
<1> HIDE DEF a
<1>4. s.clients = [a.clients EXCEPT ![a.id].socket = q] /\ s.io = ops \cup {n}
      /\ s.issued = issued \cup {q}
  BY DEF Launch, a
<1>5. n \in Operation /\ n.op = "connect" /\ n.req = q /\ n.sock = q
      /\ n.client = a.id /\ n.ip = Dest[q]
  BY <1>2, <1>3 DEF Operation, NewClient, Sockets
<1> DEFINE c == [NewClient(Dest[q]) EXCEPT !.socket = q]
<1>6. /\ c \in Client
      /\ ~c.can_be_recycled /\ c.socket = q /\ c.ip = Dest[q]
  BY <1>2 DEF NewClient, Client, Sockets
<1> HIDE DEF c, n, s
<1>7. /\ s.clients \in Seq(Client)
      /\ Len(s.clients) = Len(a.clients)
      /\ s.clients[a.id] = c
      /\ \A i \in 1..Len(s.clients) : i # a.id => s.clients[i] = a.clients[i]
  <2>1. s.clients = [a.clients EXCEPT ![a.id] = c]
    BY <1>3, <1>4 DEF c
  <2> QED BY <1>3, <1>6, <2>1, ExceptSeq
<1>8. \A i \in 1..Len(cl) : ~cl[i].can_be_recycled =>
        i # a.id /\ i \in 1..Len(s.clients) /\ s.clients[i] = cl[i]
  BY <1>1, <1>3, <1>4, <1>7
<1>9. \A o \in ops : OperationOk(s.clients, o) /\ (o.op # "resolve" => o.client # a.id)
  BY <1>8 DEF PoolOk, OperationOk
<1>10. OperationOk(s.clients, n)
  BY <1>3, <1>5, <1>6, <1>7 DEF OperationOk
<1>11. Unshared(s.io)
  BY <1>4, <1>5, <1>9 DEF PoolOk, Unshared
<1>12. PoolOk(s.clients, s.io)
  BY <1>1, <1>4, <1>5, <1>7, <1>9, <1>10, <1>11 DEF PoolOk, PoolTypes
<1> QED BY <1>3, <1>4, <1>5, <1>8, <1>12 DEF s

\* Whatever a result handler does is a step of the pool.
LEMMA CallsArePoolSteps ==
  ASSUME NEW cl, NEW ops, PoolOk(cl, ops), \A o \in ops : o.req \in issued,
         NEW s \in Calls(cl, ops)
  PROVE  PoolStep(cl, ops, s)
<1>1. PICK q \in Requests \ issued : s = Launch(cl, ops, q) \/ s = LaunchUrl(cl, ops, q)
  BY DEF Calls
<1>2. \A o \in ops : o.req # q
  BY <1>1
<1>3. CASE s = Launch(cl, ops, q)
  BY <1>1, <1>2, <1>3, LaunchIsPoolStep DEF PoolStep, NewOperation
<1>4. CASE s = LaunchUrl(cl, ops, q)
  <2> DEFINE n == [op |-> "resolve", req |-> q]
  <2>1. s.clients = cl /\ s.io = ops \cup {n} /\ s.issued = issued \cup {q}
    BY <1>4 DEF LaunchUrl
  <2>2. n \in Operation /\ n.op = "resolve" /\ n.req = q
    BY DEF Operation
  <2> HIDE DEF n
  <2>3. PoolOk(s.clients, s.io)
    BY <1>2, <2>1, <2>2 DEF PoolOk, PoolTypes, OperationOk, Unshared
  <2> QED BY <1>1, <2>1, <2>2, <2>3 DEF PoolStep, NewOperation
<1> QED BY <1>1, <1>3, <1>4

\* Whatever a result handler sends, no operation in progress is disturbed.
LEMMA HandlerRunsArePoolSteps ==
  ASSUME NEW cl, NEW ops, PoolOk(cl, ops), \A o \in ops : o.req \in issued,
         NEW s \in HandlerRuns(cl, ops)
  PROVE  PoolStep(cl, ops, s)
<1>1. CASE s \in Calls(cl, ops)
  BY <1>1, CallsArePoolSteps
<1>2. CASE s = [clients |-> cl, io |-> ops, issued |-> issued]
  BY <1>2 DEF PoolStep
<1> QED BY <1>1, <1>2 DEF HandlerRuns

-----------------------------------------------------------------------------
(* The inductive invariant. *)

PoolInv ==
  /\ PoolOk(clients, io)
  /\ issued \subseteq Requests
  /\ \A o \in io : o.req \in issued

\* A request is on no wire before its connect completes and on its own
\* socket alone afterwards; that socket is connected to its host.
WireInv ==
  /\ peer \in [Sockets -> SUBSET Hosts]
  /\ wire \in [Sockets -> SUBSET Requests]
  /\ \A r \in Requests \ issued : wire[r] = {}
  /\ \A o \in io :
       /\ o.op \in {"resolve", "connect"} => wire[o.req] = {}
       /\ o.op \in {"send", "recv"} =>
            wire[o.req] = {o.req} /\ peer[o.req] = {Dest[o.req]}

AnswerInv ==
  /\ results \in [Requests -> Seq(Result)]
  /\ \A r \in Requests \ issued : results[r] = <<>>
  /\ ResultOnceOrPending
  /\ ResponseIsOwn

IInv == PoolInv /\ WireInv /\ AnswerInv

\* What a callback that runs a result handler does to the pool: the completed
\* operation o is gone, a close of its client may follow.
HandlerStep(o, s, closing) ==
  /\ s \in HandlerRuns(clients, io \ {o})
  /\ clients' = s.clients
  /\ io' = s.io \cup closing
  /\ issued' = s.issued

\* The invariant holds of a manager without clients.
LEMMA InitIInv == Init => IInv
<1> SUFFICES ASSUME Init PROVE IInv
  OBVIOUS
<1>1. PoolInv
  BY DEF Init, PoolInv, PoolOk, PoolTypes, Unshared
<1>2. WireInv
  BY DEF Init, WireInv, Sockets
<1>3. AnswerInv
  BY DEF Init, AnswerInv, ResultOnceOrPending, ResponseIsOwn
<1> QED BY <1>1, <1>2, <1>3 DEF IInv

\* Taking an operation out of io keeps the pool in order.
LEMMA RemoveOperation ==
  ASSUME PoolInv, NEW o \in io
  PROVE  /\ PoolOk(clients, io \ {o})
         /\ \A p \in io \ {o} : p.req \in issued /\ p.req # o.req
BY DEF PoolInv, PoolOk, PoolTypes, Unshared

\* Afterwards io holds the operations it held except o, those of a request
\* not made before, and the close.
LEMMA HandlerStepShape ==
  ASSUME PoolInv, NEW o \in io, NEW s, NEW closing, HandlerStep(o, s, closing)
  PROVE  /\ PoolStep(clients, io \ {o}, s)
         /\ \E new : /\ \A n \in new : n.op \in {"connect", "resolve"}
                                      /\ n.req \in Requests \ issued
                     /\ io' = ((io \ {o}) \cup new) \cup closing
                     /\ issued' = issued \cup {n.req : n \in new}
<1>1. PoolStep(clients, io \ {o}, s)
  BY RemoveOperation, HandlerRunsArePoolSteps DEF HandlerStep
<1>2. io' = s.io \cup closing /\ issued' = s.issued
  BY DEF HandlerStep
<1>3. CASE s.io = io \ {o} /\ s.issued = issued
  <2>1. io' = ((io \ {o}) \cup {}) \cup closing /\ issued' = issued \cup {n.req : n \in {}}
    BY <1>2, <1>3
  <2> QED BY <1>1, <2>1
<1>4. CASE \E n : NewOperation(io \ {o}, s, n)
  <2>1. PICK n : NewOperation(io \ {o}, s, n)
    BY <1>4
  <2>2. io' = ((io \ {o}) \cup {n}) \cup closing /\ issued' = issued \cup {m.req : m \in {n}}
    BY <1>2, <2>1 DEF NewOperation
  <2> QED BY <1>1, <2>1, <2>2, ZenonT(40) DEF NewOperation
<1> QED BY <1>1, <1>3, <1>4 DEF PoolStep

\* An operation that ends with a call of its result handler keeps PoolInv.
LEMMA HandlerStepPool ==
  ASSUME PoolInv, NEW o \in io, NEW s, HandlerStep(o, s, {})
  PROVE  PoolInv'
<1>1. PoolStep(clients, io \ {o}, s)
  BY RemoveOperation, HandlerRunsArePoolSteps DEF HandlerStep
<1>2. clients' = s.clients /\ io' = s.io /\ issued' = s.issued
  BY DEF HandlerStep
<1>3. PoolOk(clients, io)'
  BY <1>1, <1>2 DEF PoolStep, PoolOk, PoolTypes, OperationOk, Unshared
<1>4. issued' \subseteq Requests /\ \A p \in io' : p.req \in issued'
  BY <1>1, <1>2, RemoveOperation DEF PoolStep, NewOperation, PoolInv
<1> QED BY <1>3, <1>4 DEF PoolInv

\* The wires are not touched, and a new request is on none of them.
LEMMA HandlerStepWire ==
  ASSUME PoolInv, WireInv, NEW o \in io, NEW s, NEW closing,
         HandlerStep(o, s, closing), \A p \in closing : p.op = "close",
         UNCHANGED <<peer, wire>>
  PROVE  WireInv'
<1>0. PICK new : /\ \A n \in new : n.op \in {"connect", "resolve"}
                                  /\ n.req \in Requests \ issued
                 /\ io' = ((io \ {o}) \cup new) \cup closing
                 /\ issued' = issued \cup {n.req : n \in new}
  BY HandlerStepShape, ZenonT(40)
<1>1. \A p \in io' : \/ p \in io
                     \/ p.op \in {"connect", "resolve"} /\ p.req \in Requests \ issued
                     \/ p.op = "close"
  BY <1>0
<1>2. Requests \ issued' \subseteq Requests \ issued
  BY <1>0
<1> QED BY <1>1, <1>2 DEF WireInv

\* The handler of o's request, which had no result so far, gets one; for the
\* others nothing changes except that one of them may be made.
LEMMA HandlerStepAnswer ==
  ASSUME PoolInv, AnswerInv, NEW o \in io, o.op # "close",
         NEW s, NEW closing, HandlerStep(o, s, closing),
         \A p \in closing : p.op = "close" /\ p.req = o.req,
         NEW res \in Result, Deliver(o.req, res),
         res.status \in {"OK", "BAD_REQUEST"} => res.re = {o.req} /\ res.host = {Dest[o.req]}
  PROVE  AnswerInv'
<1>1. o.req \in issued /\ o.req \in Requests /\ results[o.req] = <<>>
  BY DEF PoolInv, AnswerInv, ResultOnceOrPending
<1>2. /\ results' \in [Requests -> Seq(Result)]
      /\ results'[o.req] = <<res>>
      /\ \A r \in Requests : r # o.req => results'[r] = results[r]
  BY <1>1 DEF Deliver, AnswerInv
<1>0. PICK new : /\ \A n \in new : n.op \in {"connect", "resolve"}
                                  /\ n.req \in Requests \ issued
                 /\ io' = ((io \ {o}) \cup new) \cup closing
                 /\ issued' = issued \cup {n.req : n \in new}
  BY HandlerStepShape, ZenonT(40)
<1>3. \A p \in io' : \/ p \in io /\ p.req # o.req
                     \/ p.op \in {"connect", "resolve"} /\ p.req \in Requests \ issued
                     \/ p.op = "close" /\ p.req = o.req
  BY <1>0, RemoveOperation
<1>4. \A p \in io : p # o => p \in io'
  BY <1>0
<1>5. /\ issued \subseteq issued'
      /\ \A r \in issued' \ issued : r \in Requests /\
           \E n \in io' : n.op \in {"connect", "resolve"} /\ n.req = r
  BY <1>0
<1>6. \A r \in Requests \ issued' : results'[r] = <<>>
  BY <1>1, <1>2, <1>5 DEF AnswerInv
<1>7. ResultOnceOrPending'
  <2> SUFFICES ASSUME NEW r \in issued'
               PROVE  \/ Len(results'[r]) = 1 /\ \A p \in io' : p.req = r => p.op = "close"
                      \/ results'[r] = <<>> /\ \E p \in io' : p.req = r /\ p.op # "close"
    BY DEF ResultOnceOrPending
  <2>1. CASE r = o.req
    BY <1>1, <1>2, <1>3, <2>1
  <2>2. CASE r \in issued /\ r # o.req
    <3>1. r \in Requests /\ results'[r] = results[r]
      BY <1>2, <2>2 DEF PoolInv
    <3>2. CASE Len(results[r]) = 1 /\ \A p \in io : p.req = r => p.op = "close"
      BY <1>3, <2>2, <3>1, <3>2
    <3>3. CASE results[r] = <<>> /\ \E p \in io : p.req = r /\ p.op # "close"
      BY <1>4, <2>2, <3>1, <3>3
    <3> QED BY <2>2, <3>2, <3>3 DEF AnswerInv, ResultOnceOrPending
  <2>3. CASE r \notin issued
    <3>1. r \in Requests /\ results'[r] = <<>>
      BY <1>1, <1>2, <1>5, <2>3 DEF AnswerInv
    <3> QED BY <1>5, <2>3, <3>1
  <2> QED BY <2>1, <2>2, <2>3
<1>8. ResponseIsOwn'
  BY <1>2 DEF ResponseIsOwn, AnswerInv
<1> QED BY <1>2, <1>6, <1>7, <1>8 DEF AnswerInv

-----------------------------------------------------------------------------
(* One step of the client. *)

\* The operation a callback submits next on its own client keeps the pool in
\* order: the client and its m_socket are still the request's.
LEMMA FollowUp ==
  ASSUME PoolInv, NEW o \in io, o.op # "resolve",
         NEW s, PoolStep(clients, io \ {o}, s), \A p \in s.io : p.req # o.req,
         NEW c, c \in Operation, c.op \in {"send", "recv", "close"}, c.req = o.req,
         c.client = o.client, c.sock = s.clients[o.client].socket
  PROVE  PoolOk(s.clients, s.io \cup {c})
<1>1. OperationOk(clients, o)
  BY DEF PoolInv, PoolOk
<1>2. o.client \in 1..Len(s.clients) /\ s.clients[o.client] = clients[o.client]
  BY <1>1 DEF PoolStep, OperationOk
<1>3. OperationOk(s.clients, c)
  BY <1>1, <1>2 DEF OperationOk
<1>4. \A p \in s.io : p.op # "resolve" => p.client # o.client
  <2> SUFFICES ASSUME NEW p \in s.io, p.op # "resolve", p.client = o.client
               PROVE  FALSE
    OBVIOUS
  <2>1. p \notin io \ {o}
    BY DEF PoolInv, PoolOk, Unshared
  <2> QED BY <1>1, <2>1 DEF PoolStep, OperationOk
<1>5. PoolOk(s.clients, s.io)
  BY DEF PoolStep
<1>6. Unshared(s.io \cup {c})
  BY <1>4, <1>5 DEF PoolOk, Unshared
<1> QED BY <1>3, <1>5, <1>6 DEF PoolOk, PoolTypes

\* The same when the callback runs no result handler.
LEMMA FollowUpAlone ==
  ASSUME PoolInv, NEW o \in io, o.op # "resolve",
         NEW c, c.op \in {"send", "recv", "close"}, c \in Operation, c.req = o.req,
         c.client = o.client, c.sock = clients[o.client].socket,
         clients' = clients, io' = (io \ {o}) \cup {c}, issued' = issued
  PROVE  PoolInv'
<1> DEFINE s == [clients |-> clients, io |-> io \ {o}, issued |-> issued]
<1>1. PoolStep(clients, io \ {o}, s)
  BY RemoveOperation DEF PoolStep
<1>2. s.clients = clients /\ s.io = io \ {o}
  OBVIOUS
<1> HIDE DEF s
<1>3. PoolOk(clients, (io \ {o}) \cup {c})
  BY <1>1, <1>2, FollowUp, RemoveOperation
<1>4. PoolOk(clients, io)'
  BY <1>3 DEF PoolOk, PoolTypes, OperationOk, Unshared
<1>5. \A p \in io' : p.req \in issued'
  BY DEF PoolInv
<1> QED BY <1>4, <1>5 DEF PoolInv

\* A pending operation's client carries that operation's request.
LEMMA PendingFacts ==
  ASSUME PoolInv, NEW o \in io
  PROVE  /\ o.req \in Requests /\ o.req \in issued /\ o \in Operation
         /\ o.op # "resolve" =>
              /\ o.client \in 1..Len(clients) /\ o.client \in Nat \ {0}
              /\ clients \in Seq(Client)
              /\ o.sock = o.req /\ clients[o.client].socket = o.req
              /\ o.op = "connect" => o.ip = Dest[o.req]
BY DEF PoolInv, PoolOk, PoolTypes, OperationOk, Operation

\* What LibraryError returns is an answer to anyone.
LEMMA LibraryErrorIsResult ==
  ASSUME NEW st \in Status
  PROVE  LibraryError(st) \in Result /\ LibraryError(st).status = st
BY DEF LibraryError, Result

\* A completion that ends in a result handler and nothing else.
LEMMA ErrorStep ==
  ASSUME IInv, NEW o \in io, o.op # "close", NEW st \in Status \ {"OK", "BAD_REQUEST"},
         Deliver(o.req, LibraryError(st)),
         \E s \in HandlerRuns(clients, io \ {o}) : Becomes(s),
         UNCHANGED <<peer, wire>>
  PROVE  IInv'
<1>1. PICK s \in HandlerRuns(clients, io \ {o}) : Becomes(s)
  OBVIOUS
<1> DEFINE closing == {}
<1>2. HandlerStep(o, s, closing)
  BY <1>1 DEF HandlerStep, Becomes
<1>3. closing = {}
  OBVIOUS
<1> HIDE DEF closing
<1>4. PoolInv'
  BY <1>2, HandlerStepPool DEF IInv, closing
<1>5. WireInv'
  BY <1>2, <1>3, HandlerStepWire DEF IInv
<1>6. AnswerInv'
  <2>1. LibraryError(st) \in Result /\ LibraryError(st).status \notin {"OK", "BAD_REQUEST"}
    BY LibraryErrorIsResult
  <2> QED BY <1>2, <1>3, <2>1, HandlerStepAnswer DEF IInv
<1> QED BY <1>4, <1>5, <1>6 DEF IInv

\* A resolver that fails keeps the invariant.
LEMMA ResolveFailsStep ==
  ASSUME IInv, NEW o \in io, ResolveFails(o)
  PROVE  IInv'
BY ErrorStep DEF ResolveFails, Status

\* A connect that fails keeps the invariant.
LEMMA ConnectFailsStep ==
  ASSUME IInv, NEW o \in io, ConnectFails(o)
  PROVE  IInv'
BY ErrorStep DEF ConnectFails, Status

\* A send that fails keeps the invariant.
LEMMA SendFailsStep ==
  ASSUME IInv, NEW o \in io, SendFails(o)
  PROVE  IInv'
BY ErrorStep DEF SendFails, Status

\* Making a request, or connecting once its host is resolved: the operations
\* gone and added all belong to requests without a result.
LEMMA AnswersUntouched ==
  ASSUME IInv, UNCHANGED results, issued \subseteq issued', issued' \subseteq Requests,
         \A p \in io : (\A r \in issued : p.req = r => p.op # "close") =>
            p \in io' \/ \E n \in io' : n.req = p.req /\ n.op # "close",
         \A p \in io' : \/ p \in io
                        \/ p.req \notin issued
                        \/ p.op = "close"
                        \/ \E n \in io : n.req = p.req /\ n.op # "close",
         \A r \in issued' \ issued : \E p \in io' : p.req = r /\ p.op # "close"
  PROVE  AnswerInv'
<1>1. ResultOnceOrPending'
  <2> SUFFICES ASSUME NEW r \in issued'
               PROVE  \/ Len(results[r]) = 1 /\ \A p \in io' : p.req = r => p.op = "close"
                      \/ results[r] = <<>> /\ \E p \in io' : p.req = r /\ p.op # "close"
    BY DEF ResultOnceOrPending
  <2>1. CASE r \notin issued
    BY <2>1 DEF IInv, AnswerInv
  <2>2. CASE r \in issued
    BY <2>2 DEF IInv, AnswerInv, ResultOnceOrPending
  <2> QED BY <2>1, <2>2
<1>2. ResponseIsOwn'
  BY DEF IInv, AnswerInv, ResponseIsOwn
<1> QED BY <1>1, <1>2 DEF IInv, AnswerInv

\* A request of the application keeps the invariant.
LEMMA SendRequestStep == IInv /\ SendRequest => IInv'
<1> SUFFICES ASSUME IInv, SendRequest PROVE IInv'
  OBVIOUS
<1>1. PICK s \in Calls(clients, io) : Becomes(s)
  BY DEF SendRequest
<1>2. PoolStep(clients, io, s)
  BY CallsArePoolSteps DEF IInv, PoolInv
<1>3. clients' = s.clients /\ io' = s.io /\ issued' = s.issued
  BY <1>1 DEF Becomes
<1>4. UNCHANGED <<results, peer, wire>>
  BY DEF SendRequest
<1>5. PICK new : /\ \A n \in new : /\ n.op \in {"connect", "resolve"}
                                  /\ n.req \in Requests \ issued
                 /\ io' = io \cup new
                 /\ issued' = issued \cup {n.req : n \in new}
  <2>1. CASE s.io = io /\ s.issued = issued
    <3>1. io' = io \cup {} /\ issued' = issued \cup {n.req : n \in {}}
      BY <1>3, <2>1
    <3> QED BY <3>1
  <2>2. CASE \E n : NewOperation(io, s, n)
    <3>1. PICK n : NewOperation(io, s, n)
      BY <2>2
    <3>2. io' = io \cup {n} /\ issued' = issued \cup {m.req : m \in {n}}
      BY <1>3, <3>1 DEF NewOperation
    <3> QED BY <3>1, <3>2 DEF NewOperation
  <2> QED BY <1>2, <2>1, <2>2 DEF PoolStep
<1>6. PoolInv'
  <2>1. PoolOk(s.clients, s.io)
    BY <1>2 DEF PoolStep
  <2>2. PoolOk(clients, io)'
    BY <1>3, <2>1 DEF PoolOk, PoolTypes, OperationOk, Unshared
  <2> QED BY <1>5, <2>2 DEF IInv, PoolInv
<1>7. WireInv'
  BY <1>4, <1>5 DEF IInv, WireInv
<1>8. AnswerInv'
  BY <1>4, <1>5, AnswersUntouched DEF IInv, PoolInv
<1> QED BY <1>6, <1>7, <1>8 DEF IInv

\* A resolved host keeps the invariant: a client is allocated and connects.
LEMMA ResolveDoneStep ==
  ASSUME IInv, NEW o \in io, ResolveDone(o)
  PROVE  IInv'
<1> DEFINE ops == io \ {o}
           s == Launch(clients, ops, o.req)
<1>1. o.req \in Requests /\ o.req \in issued /\ o.op = "resolve"
  BY PendingFacts DEF IInv, ResolveDone
<1>2. PoolOk(clients, ops) /\ \A p \in ops : p.req \in issued /\ p.req # o.req
  BY RemoveOperation DEF IInv
<1>3. /\ PoolOk(s.clients, s.io)
      /\ \E n : /\ n \in Operation /\ n.op = "connect" /\ n.req = o.req
               /\ s.io = ops \cup {n}
      /\ s.issued = issued \cup {o.req}
  <2> HIDE DEF ops
  <2> QED BY <1>1, <1>2, LaunchIsPoolStep
<1>4. clients' = s.clients /\ io' = s.io /\ issued' = s.issued
      /\ UNCHANGED <<results, peer, wire>>
  BY DEF ResolveDone, Becomes
<1> HIDE DEF s
<1>5. PICK n : /\ n \in Operation /\ n.op = "connect" /\ n.req = o.req
               /\ io' = (io \ {o}) \cup {n}
  BY <1>3, <1>4
<1>6. issued' = issued
  BY <1>1, <1>3, <1>4
<1>7. PoolInv'
  <2>1. PoolOk(clients, io)'
    BY <1>3, <1>4 DEF PoolOk, PoolTypes, OperationOk, Unshared
  <2> QED BY <1>1, <1>5, <1>6, <2>1 DEF IInv, PoolInv
<1>8. WireInv'
  BY <1>1, <1>4, <1>5, <1>6 DEF IInv, WireInv
<1>9. AnswerInv'
  BY <1>1, <1>4, <1>5, <1>6, AnswersUntouched DEF IInv, PoolInv
<1> QED BY <1>7, <1>8, <1>9 DEF IInv

\* The bytes of request o.req go to the socket it created, to the host the
\* connect was submitted for.
LEMMA ConnectDoneStep ==
  ASSUME IInv, NEW o \in io, ConnectDone(o)
  PROVE  IInv'
<1> DEFINE c == [op |-> "send", req |-> o.req, client |-> o.client,
                 sock |-> clients[o.client].socket]
<1>1. /\ o.op = "connect" /\ o.req \in Requests /\ o.req \in issued
      /\ o.client \in Nat \ {0} /\ o.sock = o.req /\ clients[o.client].socket = o.req
      /\ o.ip = Dest[o.req]
  BY PendingFacts DEF IInv, ConnectDone
<1>2. /\ io' = (io \ {o}) \cup {c}
      /\ wire' = [wire EXCEPT ![o.req] = @ \cup {o.req}]
      /\ peer' = [peer EXCEPT ![o.req] = {Dest[o.req]}]
      /\ UNCHANGED <<clients, issued, results>>
  BY <1>1 DEF ConnectDone
<1>3. c \in Operation /\ c.op = "send" /\ c.req = o.req /\ c.client = o.client
      /\ c.sock = clients[o.client].socket
  BY <1>1 DEF Operation, Sockets
<1> HIDE DEF c
<1>4. PoolInv'
  BY <1>1, <1>2, <1>3, FollowUpAlone DEF IInv
<1>5. \A p \in io \ {o} : p.req # o.req
  BY RemoveOperation DEF IInv
<1>6. WireInv'
  <2>1. wire[o.req] = {}
    BY <1>1 DEF IInv, WireInv
  <2>2. /\ wire' \in [Sockets -> SUBSET Requests]
        /\ peer' \in [Sockets -> SUBSET Hosts]
        /\ wire'[o.req] = {o.req} /\ peer'[o.req] = {Dest[o.req]}
        /\ \A r \in Requests : r # o.req => wire'[r] = wire[r] /\ peer'[r] = peer[r]
    BY <1>1, <1>2, <2>1 DEF IInv, WireInv, Sockets
  <2>3. \A p \in io' : p.req \in Requests
    BY <1>2, <1>4 DEF PoolInv
  <2> QED BY <1>1, <1>2, <1>3, <1>5, <2>2, <2>3, SMTT(30) DEF IInv, WireInv
<1>7. AnswerInv'
  BY <1>1, <1>2, <1>3, AnswersUntouched DEF IInv, PoolInv
<1> QED BY <1>4, <1>6, <1>7 DEF IInv

\* A send that is done keeps the invariant: the client receives.
LEMMA SendDoneStep ==
  ASSUME IInv, NEW o \in io, SendDone(o)
  PROVE  IInv'
<1> DEFINE c == [op |-> "recv", req |-> o.req, client |-> o.client,
                 sock |-> clients[o.client].socket]
<1>1. /\ o.op = "send" /\ o.req \in Requests /\ o.req \in issued
      /\ o.client \in Nat \ {0} /\ o.sock = o.req /\ clients[o.client].socket = o.req
  BY PendingFacts DEF IInv, SendDone
<1>2. /\ io' = (io \ {o}) \cup {c}
      /\ UNCHANGED <<clients, issued, results, peer, wire>>
  BY DEF SendDone
<1>3. c \in Operation /\ c.op = "recv" /\ c.req = o.req /\ c.client = o.client
      /\ c.sock = clients[o.client].socket
  BY <1>1 DEF Operation, Sockets
<1> HIDE DEF c
<1>4. PoolInv'
  BY <1>1, <1>2, <1>3, FollowUpAlone DEF IInv
<1>5. WireInv'
  BY <1>1, <1>2, <1>3 DEF IInv, WireInv
<1>6. AnswerInv'
  BY <1>1, <1>2, <1>3, AnswersUntouched DEF IInv, PoolInv
<1> QED BY <1>4, <1>5, <1>6 DEF IInv

\* A close that is done keeps the invariant: the client can be recycled.
LEMMA CloseDoneStep ==
  ASSUME IInv, NEW o \in io, CloseDone(o)
  PROVE  IInv'
<1>1. /\ o.op = "close" /\ o.req \in Requests /\ o.req \in issued
      /\ o.client \in 1..Len(clients) /\ clients \in Seq(Client)
  BY PendingFacts DEF IInv, CloseDone
<1> DEFINE c == [clients[o.client] EXCEPT !.can_be_recycled = TRUE]
<1>2. c \in Client
  <2>1. clients[o.client] \in Client
    BY <1>1
  <2> QED BY <2>1 DEF Client
<1>3. /\ clients' = [clients EXCEPT ![o.client] = c]
      /\ io' = io \ {o}
      /\ UNCHANGED <<issued, results, peer, wire>>
  BY DEF CloseDone
<1> HIDE DEF c
<1>4. /\ clients' \in Seq(Client) /\ Len(clients') = Len(clients)
      /\ \A i \in 1..Len(clients) : i # o.client => clients'[i] = clients[i]
  BY <1>1, <1>2, <1>3, ExceptSeq
<1>5. \A p \in io' : p.op # "resolve" => p.client # o.client
  BY <1>1, <1>3 DEF IInv, PoolInv, PoolOk, Unshared
<1>6. PoolInv'
  <2>1. \A p \in io' : OperationOk(clients, p)'
    BY <1>3, <1>4, <1>5 DEF IInv, PoolInv, PoolOk, OperationOk
  <2>2. Unshared(io)' /\ PoolTypes(clients, io)'
    BY <1>3, <1>4 DEF IInv, PoolInv, PoolOk, Unshared, PoolTypes
  <2> QED BY <1>3, <2>1, <2>2 DEF IInv, PoolInv, PoolOk
<1>7. WireInv'
  BY <1>3 DEF IInv, WireInv
<1>8. AnswerInv'
  BY <1>1, <1>3, AnswersUntouched DEF IInv, PoolInv
<1> QED BY <1>6, <1>7, <1>8 DEF IInv

\* The response is delivered before the close of the client's socket is
\* submitted, and the handler may have started another request in between.
LEMMA RecvDoneStep ==
  ASSUME IInv, NEW o \in io, NEW n \in 0..ResponseLen, RecvDone(o, n)
  PROVE  IInv'
<1>1. /\ o.op = "recv" /\ o.req \in Requests /\ o.req \in issued
      /\ o.client \in Nat \ {0} /\ o.client \in 1..Len(clients)
      /\ o.sock = o.req /\ clients[o.client].socket = o.req
  BY PendingFacts DEF IInv, RecvDone
<1>2. PICK s \in HandlerRuns(clients, io \ {o}) :
         /\ clients' = s.clients
         /\ io' = s.io \cup
              {[op |-> "close", req |-> o.req, client |-> o.client,
                sock |-> s.clients[o.client].socket]}
         /\ issued' = s.issued
  BY DEF RecvDone
<1> DEFINE c == [op |-> "close", req |-> o.req, client |-> o.client,
                 sock |-> s.clients[o.client].socket]
           closing == {c}
<1>3. /\ clients' = s.clients /\ io' = s.io \cup closing /\ issued' = s.issued
  BY <1>2
<1>4. HandlerStep(o, s, closing)
  BY <1>3 DEF HandlerStep
<1>5. PoolStep(clients, io \ {o}, s)
  BY RemoveOperation, HandlerRunsArePoolSteps DEF IInv
<1>6. s.clients[o.client] = clients[o.client]
  BY <1>1, <1>5 DEF PoolStep, IInv, PoolInv, PoolOk, OperationOk
<1>7. c \in Operation /\ c.op = "close" /\ c.req = o.req /\ c.client = o.client
      /\ c.sock = s.clients[o.client].socket
  BY <1>1, <1>6 DEF Operation, Sockets
<1> HIDE DEF c
<1>8. \A p \in s.io : p.req # o.req
  <2>1. \A p \in io \ {o} : p.req # o.req
    BY RemoveOperation DEF IInv
  <2> QED BY <1>1, <1>5, <2>1 DEF PoolStep, NewOperation
<1>9. PoolInv'
  <2>1. PoolOk(s.clients, s.io \cup {c})
    BY <1>1, <1>5, <1>7, <1>8, FollowUp DEF IInv
  <2>2. PoolOk(clients, io)'
    BY <1>3, <2>1 DEF PoolOk, PoolTypes, OperationOk, Unshared
  <2>3. issued' \subseteq Requests /\ \A p \in s.io : p.req \in issued'
    BY <1>3, <1>5, RemoveOperation DEF PoolStep, NewOperation, IInv, PoolInv
  <2>4. o.req \in issued'
    BY <1>1, <1>3, <1>5 DEF PoolStep, NewOperation
  <2> QED BY <1>3, <1>7, <2>2, <2>3, <2>4 DEF PoolInv
<1>10. \A p \in closing : p.op = "close" /\ p.req = o.req
  BY <1>7
<1>11. UNCHANGED <<peer, wire>>
  BY DEF RecvDone
<1> HIDE DEF closing
<1>12. WireInv'
  BY <1>4, <1>10, <1>11, HandlerStepWire DEF IInv
<1>13. AnswerInv'
  <2> DEFINE res == ParseResponse(n, o.sock)
  <2>1. /\ res \in Result
        /\ res.re = {o.req} /\ res.host = {Dest[o.req]}
    BY <1>1 DEF ParseResponse, Result, Status, IInv, WireInv, Sockets
  <2>2. Deliver(o.req, res)
    BY DEF RecvDone
  <2> HIDE DEF res
  <2> QED BY <1>1, <1>4, <1>10, <2>1, <2>2, HandlerStepAnswer DEF IInv
<1> QED BY <1>9, <1>12, <1>13 DEF IInv

\* Every step keeps the invariant.
LEMMA NextIInv == IInv /\ [Next]_vars => IInv'
<1> SUFFICES ASSUME IInv, [Next]_vars PROVE IInv'
  OBVIOUS
<1>1. CASE SendRequest
  BY <1>1, SendRequestStep
<1>2. ASSUME NEW o \in io, Completion(o)
      PROVE  IInv'
  BY <1>2, ResolveFailsStep, ResolveDoneStep, ConnectFailsStep, ConnectDoneStep,
     SendFailsStep, SendDoneStep, RecvDoneStep, CloseDoneStep DEF Completion
<1>3. CASE UNCHANGED vars
  BY <1>3 DEF vars, IInv, PoolInv, PoolOk, PoolTypes, OperationOk, Unshared,
              WireInv, AnswerInv, ResultOnceOrPending, ResponseIsOwn
<1> QED BY <1>1, <1>2, <1>3 DEF Next

\* IInv implies the properties.
LEMMA IInvImplies ==
  IInv => /\ TypeOK
          /\ OneRequestPerClient
          /\ CallbackSeesItsSocket
          /\ ResponseIsOwn
          /\ ResultOnceOrPending
BY DEF IInv, PoolInv, PoolOk, PoolTypes, OperationOk, Unshared, WireInv, AnswerInv,
       TypeOK, OneRequestPerClient, CallbackSeesItsSocket, OnClient

\* The invariant holds in every reachable state.
LEMMA SpecIInv == Spec => []IInv
BY InitIInv, NextIInv, PTL DEF Spec

\* The state keeps its shape: the vector of clients, the pending io_uring
\* operations and the results stay within their types.
THEOREM TypeCorrect == Spec => []TypeOK
BY SpecIInv, IInvImplies, PTL

\* allocate_http_client never hands out a client some pending callback still
\* refers to, however the completions of the requests interleave.
THEOREM ClientsAreNotShared == Spec => []OneRequestPerClient
BY SpecIInv, IInvImplies, PTL

\* The m_socket a callback reads through its captured this is the socket its
\* own operation was submitted on.
THEOREM CallbacksSeeTheirSocket == Spec => []CallbackSeesItsSocket
BY SpecIInv, IInvImplies, PTL

\* No result handler gets the response to another request, or one from
\* another host than the one it asked for.
THEOREM ResponsesAreOwn == Spec => []ResponseIsOwn
BY SpecIInv, IInvImplies, PTL

\* A result handler is called at most once, and until then an operation that
\* can lead to the call is pending.
THEOREM ResultsOnceOrPending == Spec => []ResultOnceOrPending
BY SpecIInv, IInvImplies, PTL

-----------------------------------------------------------------------------
(* HttpClientManager implements RequestLedger. *)

\* A result handler that runs answers its request in the ledger.
LEMMA DeliverAnswers ==
  ASSUME IInv, IInv', NEW o \in io, o.op # "close", issued \subseteq issued',
         NEW res \in OwnAnswer(o.req), Deliver(o.req, res)
  PROVE  Ledger!Next
<1>1. o.req \in issued /\ o.req \in Requests /\ results[o.req] = <<>>
  BY PendingFacts DEF IInv, AnswerInv, ResultOnceOrPending
<1>2. results' = [results EXCEPT ![o.req] = <<res>>]
  BY <1>1 DEF Deliver
<1>3. issued' \in SUBSET Requests /\ issued' = issued \cup issued'
  BY DEF IInv, PoolInv
<1>4. Ledger!Answer(o.req, issued')
  BY <1>1, <1>2, <1>3 DEF Ledger!Answer
<1> QED BY <1>1, <1>3, <1>4 DEF Ledger!Next

\* Requests are only ever added.
LEMMA HandlerIssues ==
  ASSUME IInv, NEW ops, PoolOk(clients, ops), \A o \in ops : o.req \in issued,
         NEW s \in HandlerRuns(clients, ops)
  PROVE  issued \subseteq s.issued
BY HandlerRunsArePoolSteps DEF PoolStep, NewOperation

\* An operation that fails is an answer, an error, of the ledger.
LEMMA ErrorAnswers ==
  ASSUME IInv, IInv', NEW o \in io, o.op # "close",
         NEW st \in Status \ {"OK", "BAD_REQUEST"}, Deliver(o.req, LibraryError(st)),
         \E s \in HandlerRuns(clients, io \ {o}) : Becomes(s)
  PROVE  Ledger!Next
<1>1. issued \subseteq issued'
  BY HandlerIssues, RemoveOperation DEF Becomes, IInv
<1>2. LibraryError(st) \in OwnAnswer(o.req)
  BY LibraryErrorIsResult DEF OwnAnswer
<1> QED BY <1>1, <1>2, DeliverAnswers

\* A response is an answer of the ledger, and of its own request.
LEMMA RecvAnswers ==
  ASSUME IInv, IInv', NEW o \in io, NEW n \in 0..ResponseLen, RecvDone(o, n)
  PROVE  Ledger!Next
<1>1. o.op = "recv" /\ o.req \in Requests /\ o.sock = o.req
  BY PendingFacts DEF IInv, RecvDone
<1> DEFINE res == ParseResponse(n, o.sock)
<1>2. res \in OwnAnswer(o.req)
  BY <1>1 DEF ParseResponse, OwnAnswer, Result, Status, IInv, WireInv, Sockets
<1>3. issued \subseteq issued'
  BY HandlerIssues, RemoveOperation DEF RecvDone, IInv
<1>4. Deliver(o.req, res)
  BY DEF RecvDone
<1> HIDE DEF res
<1> QED BY <1>1, <1>2, <1>3, <1>4, DeliverAnswers

\* Every step of the manager is one of the ledger, or none.
LEMMA StepsAnswerLikeLedger ==
  IInv /\ IInv' /\ [Next]_vars => [Ledger!Next]_(Ledger!ledgerVars)
<1> SUFFICES ASSUME IInv, IInv', [Next]_vars
             PROVE  Ledger!Next \/ UNCHANGED <<issued, results>>
  BY DEF Ledger!ledgerVars
<1>1. CASE SendRequest
  <2>1. \E s \in HandlerRuns(clients, io) : Becomes(s)
    BY <1>1 DEF SendRequest, HandlerRuns
  <2>2. issued \subseteq issued' /\ issued' \in SUBSET Requests
    BY <2>1, HandlerIssues DEF Becomes, IInv, PoolInv
  <2>3. Ledger!Issue(issued')
    BY <1>1, <2>2 DEF Ledger!Issue, SendRequest
  <2> QED BY <2>2, <2>3 DEF Ledger!Next
<1>2. ASSUME NEW o \in io, Completion(o)
      PROVE  Ledger!Next \/ UNCHANGED <<issued, results>>
  <2>1. CASE ResolveFails(o)
    BY <2>1, ErrorAnswers DEF ResolveFails, Status
  <2>2. CASE ConnectFails(o)
    BY <2>2, ErrorAnswers DEF ConnectFails, Status
  <2>3. CASE SendFails(o)
    BY <2>3, ErrorAnswers DEF SendFails, Status
  <2>4. CASE \E n \in 0..ResponseLen : RecvDone(o, n)
    BY <2>4, RecvAnswers
  <2>5. CASE ResolveDone(o)
    BY <2>5, PendingFacts DEF ResolveDone, Becomes, Launch, IInv
  <2>6. CASE ConnectDone(o) \/ SendDone(o) \/ CloseDone(o)
    BY <2>6 DEF ConnectDone, SendDone, CloseDone
  <2> QED BY <1>2, <2>1, <2>2, <2>3, <2>4, <2>5, <2>6 DEF Completion
<1>3. CASE UNCHANGED vars
  BY <1>3 DEF vars
<1> QED BY <1>1, <1>2, <1>3 DEF Next

\* HttpClientManager does what the ledger allows: a request that was made is
\* answered at most once, with an answer of its own, whatever the pool and
\* the order of the completions.
THEOREM ManagerImplementsLedger == Spec => ImplementsLedger
<1>1. Init => Ledger!Init
  BY DEF Init, Ledger!Init
<1> QED BY <1>1, SpecIInv, StepsAnswerLikeLedger, PTL DEF Spec, ImplementsLedger, Ledger!SafeSpec

-----------------------------------------------------------------------------
(* Idle clients. *)

\* Client i of s is as it was in cl, or an operation of s waits for it.
KeptOrInUse(cl, s, i) ==
  \/ i \in 1..Len(cl) /\ s.clients[i] = cl[i]
  \/ \E o \in s.io : o.op # "resolve" /\ o.client = i

\* A call touches no client but the one it puts to use.
LEMMA LaunchKeepsOthers ==
  ASSUME NEW cl \in Seq(Client), NEW ops, NEW q \in Requests,
         NEW i \in DOMAIN Launch(cl, ops, q).clients
  PROVE  KeptOrInUse(cl, Launch(cl, ops, q), i)
<1> DEFINE a == Allocate(cl, Dest[q])
           s == Launch(cl, ops, q)
           n == [op |-> "connect", req |-> q, client |-> a.id, sock |-> q,
                 ip |-> a.clients[a.id].ip]
<1>1. /\ a.clients \in Seq(Client)
      /\ a.id \in 1..Len(a.clients)
  BY AllocateProperties
<1>2. \A k \in 1..Len(a.clients) : k # a.id => k \in 1..Len(cl) /\ a.clients[k] = cl[k]
  <2>1. CASE FreeClients(cl) # {}
    <3>1. FirstFree(cl) \in 1..Len(cl)
      BY <2>1, FirstFreeIsFree
    <3>2. NewClient(Dest[q]) \in Client
      BY DEF NewClient, Client
    <3>3. a.clients = [cl EXCEPT ![FirstFree(cl)] = NewClient(Dest[q])] /\ a.id = FirstFree(cl)
      BY <2>1 DEF Allocate, Restart
    <3> QED BY <3>1, <3>2, <3>3, ExceptSeq
  <2>2. CASE FreeClients(cl) = {}
    <3>1. a.clients = Append(cl, NewClient(Dest[q])) /\ a.id = Len(cl) + 1
      BY <2>2 DEF Allocate
    <3> QED BY <3>1
  <2> QED BY <2>1, <2>2
<1> HIDE DEF a
<1>3. s.clients = [a.clients EXCEPT ![a.id].socket = q] /\ s.io = ops \cup {n}
  BY DEF Launch, a
<1>4. i \in 1..Len(a.clients)
  BY <1>1, <1>3
<1>5. CASE i = a.id
  <2>1. n \in s.io /\ n.op = "connect" /\ n.client = i
    BY <1>3, <1>5
  <2> QED BY <2>1 DEF KeptOrInUse
<1>6. CASE i # a.id
  <2>1. s.clients[i] = a.clients[i]
    BY <1>1, <1>3, <1>4, <1>6
  <2> QED BY <1>2, <1>4, <1>6, <2>1 DEF KeptOrInUse
<1> QED BY <1>5, <1>6

\* A result handler leaves each client as it is or puts it to use.
LEMMA HandlerRunsKeepOthers ==
  ASSUME NEW cl \in Seq(Client), NEW ops, NEW s \in HandlerRuns(cl, ops), NEW i \in DOMAIN s.clients
  PROVE  KeptOrInUse(cl, s, i)
<1>1. CASE s.clients = cl
  BY <1>1 DEF KeptOrInUse
<1>2. ASSUME NEW q \in Requests, s = Launch(cl, ops, q)
      PROVE  KeptOrInUse(cl, s, i)
  BY <1>2, LaunchKeepsOthers
<1> QED BY <1>1, <1>2 DEF HandlerRuns, Calls, LaunchUrl

Idle(i) ==
  \/ \E o \in OnClient : o.client = i
  \/ clients[i].can_be_recycled
  \/ Failed(i)

\* A client stays lost: its request keeps the result it has.
LEMMA FailedStays ==
  ASSUME IInv, NEW i \in DOMAIN clients, Failed(i), i \in DOMAIN clients', clients'[i] = clients[i],
         \/ UNCHANGED results
         \/ \E o \in io : \E res : o.op # "close" /\ Deliver(o.req, res)
  PROVE  Failed(i)'
<1>1. clients[i].socket \in Requests
  <2>1. clients[i] \in Client
    BY DEF IInv, PoolInv, PoolOk, PoolTypes
  <2> QED BY <2>1 DEF Client, Failed, Sockets
<1>2. \A o \in io : o.op # "close" => results[o.req] = <<>>
  BY PendingFacts DEF IInv, AnswerInv, ResultOnceOrPending
<1>3. results'[clients[i].socket] = results[clients[i].socket]
  BY <1>1, <1>2 DEF Deliver, Failed, IInv, AnswerInv
<1> QED BY <1>3 DEF Failed

\* Where every client is as it was or in use, and the operations that are
\* gone were on clients that failed now or are in use again.
LEMMA IdleStep ==
  ASSUME IInv, IdleUnlessFailed, NEW i \in DOMAIN clients',
         \/ \E o \in OnClient' : o.client = i
         \/ i \in DOMAIN clients /\ clients'[i] = clients[i],
         \A o \in OnClient : o.client = i => Idle(i)',
         \/ UNCHANGED results
         \/ \E o \in io : \E res : o.op # "close" /\ Deliver(o.req, res)
  PROVE  Idle(i)'
<1>1. CASE \E o \in OnClient' : o.client = i
  BY <1>1 DEF Idle
<1>2. CASE i \in DOMAIN clients /\ clients'[i] = clients[i]
  BY <1>2, FailedStays DEF Idle, IdleUnlessFailed
<1> QED BY <1>1, <1>2

\* A completion on o whose result handler runs, with what follows.
LEMMA IdleHandlerStep ==
  ASSUME IInv, IInv', IdleUnlessFailed, NEW o \in io, o.op # "close", NEW s, NEW closing,
         HandlerStep(o, s, closing), NEW res, Deliver(o.req, res),
         \/ o.op = "resolve"
         \/ res.status = "NOT_REACHABLE"
         \/ \E c \in closing : c.op = "close" /\ c.client = o.client
  PROVE  IdleUnlessFailed'
<1>1. PoolStep(clients, io \ {o}, s) /\ clients \in Seq(Client)
  BY HandlerStepShape DEF IInv, PoolInv, PoolOk, PoolTypes
<1>2. clients' = s.clients /\ io' = s.io \cup closing
  BY DEF HandlerStep
<1>3. io \ {o} \subseteq io'
  BY <1>1, <1>2 DEF PoolStep, NewOperation
<1> SUFFICES ASSUME NEW i \in DOMAIN clients'
             PROVE  Idle(i)'
  BY DEF IdleUnlessFailed, Idle
<1>4. \/ \E p \in OnClient' : p.client = i
      \/ i \in DOMAIN clients /\ clients'[i] = clients[i]
  <2>1. KeptOrInUse(clients, s, i)
    BY <1>1, <1>2, HandlerRunsKeepOthers DEF HandlerStep
  <2> QED BY <1>1, <1>2, <2>1 DEF KeptOrInUse, OnClient
<1>5. ASSUME NEW p \in OnClient, p.client = i
      PROVE  Idle(i)'
  <2>1. CASE p # o
    BY <1>3, <1>5, <2>1 DEF Idle, OnClient
  <2>2. CASE p = o /\ \E c \in closing : c.op = "close" /\ c.client = o.client
    BY <1>2, <1>5, <2>2 DEF Idle, OnClient
  <2>3. CASE p = o /\ res.status = "NOT_REACHABLE"
    <3>1. /\ o.req \in Requests /\ o.client \in 1..Len(clients)
          /\ ~clients[i].can_be_recycled /\ clients[i].socket = o.req
      BY <1>5, <2>3, PendingFacts DEF OnClient, IInv, PoolInv, PoolOk, OperationOk
    <3>2. clients'[i].socket = o.req
      BY <1>1, <1>2, <1>5, <2>3, <3>1 DEF PoolStep
    <3>3. results'[o.req] = <<res>>
      <4>1. results[o.req] = <<>> /\ results \in [Requests -> Seq(Result)]
        BY PendingFacts DEF IInv, AnswerInv, ResultOnceOrPending
      <4> QED BY <3>1, <4>1 DEF Deliver
    <3> QED BY <2>3, <3>1, <3>2, <3>3 DEF Idle, Failed
  <2> QED BY <1>5, <2>1, <2>2, <2>3 DEF OnClient
<1> QED BY <1>4, <1>5, IdleStep

\* A completion on o that leaves the clients as they are and is followed by
\* another operation on o's client.
LEMMA IdleFollowUp ==
  ASSUME IInv, IdleUnlessFailed, NEW o \in io, NEW c, c.op # "resolve", c.client = o.client,
         clients' = clients, io' = (io \ {o}) \cup {c}, results' = results
  PROVE  IdleUnlessFailed'
BY DEF IdleUnlessFailed, OnClient, Failed

\* No step leaves a client unusable without a failure.
LEMMA NextIdle == IInv /\ IInv' /\ IdleUnlessFailed /\ [Next]_vars => IdleUnlessFailed'
<1> SUFFICES ASSUME IInv, IInv', IdleUnlessFailed, [Next]_vars PROVE IdleUnlessFailed'
  OBVIOUS
<1>0. clients \in Seq(Client)
  BY DEF IInv, PoolInv, PoolOk, PoolTypes
<1>1. CASE SendRequest
  <2>1. PICK s \in Calls(clients, io) : Becomes(s)
    BY <1>1 DEF SendRequest
  <2>2. clients' = s.clients /\ io' = s.io /\ results' = results /\ io \subseteq io'
    <3>1. PoolStep(clients, io, s)
      BY CallsArePoolSteps DEF IInv, PoolInv
    <3> QED BY <1>1, <2>1, <3>1 DEF SendRequest, Becomes, PoolStep, NewOperation
  <2>3. ASSUME NEW i \in DOMAIN clients'
        PROVE  Idle(i)'
    <3>1. KeptOrInUse(clients, s, i)
      BY <1>0, <2>2, HandlerRunsKeepOthers DEF HandlerRuns
    <3>2. \/ \E p \in OnClient' : p.client = i
          \/ i \in DOMAIN clients /\ clients'[i] = clients[i]
      BY <1>0, <2>2, <3>1 DEF KeptOrInUse, OnClient
    <3>3. \A p \in OnClient : p.client = i => Idle(i)'
      BY <2>2 DEF Idle, OnClient
    <3> QED BY <2>2, <3>2, <3>3, IdleStep
  <2> QED BY <2>3 DEF IdleUnlessFailed, Idle
<1>2. ASSUME NEW o \in io, ResolveFails(o) \/ ConnectFails(o) \/ SendFails(o)
      PROVE  IdleUnlessFailed'
  <2>1. PICK s \in HandlerRuns(clients, io \ {o}) : Becomes(s)
    BY <1>2 DEF ResolveFails, ConnectFails, SendFails
  <2> DEFINE closing == {}
  <2>2. HandlerStep(o, s, closing)
    BY <2>1 DEF HandlerStep, Becomes
  <2> HIDE DEF closing
  <2>3. PICK res : /\ Deliver(o.req, res)
                   /\ o.op = "resolve" \/ res.status = "NOT_REACHABLE"
    BY <1>2 DEF ResolveFails, ConnectFails, SendFails, LibraryError
  <2>4. o.op # "close"
    BY <1>2 DEF ResolveFails, ConnectFails, SendFails
  <2> QED BY <2>2, <2>3, <2>4, IdleHandlerStep
<1>3. ASSUME NEW o \in io, NEW n \in 0..ResponseLen, RecvDone(o, n)
      PROVE  IdleUnlessFailed'
  <2>1. PICK s \in HandlerRuns(clients, io \ {o}) :
          /\ clients' = s.clients
          /\ io' = s.io \cup
               {[op |-> "close", req |-> o.req, client |-> o.client,
                 sock |-> s.clients[o.client].socket]}
          /\ issued' = s.issued
    BY <1>3 DEF RecvDone
  <2> DEFINE c == [op |-> "close", req |-> o.req, client |-> o.client,
                   sock |-> s.clients[o.client].socket]
  <2>2. HandlerStep(o, s, {c}) /\ c.op = "close" /\ c.client = o.client
    BY <2>1 DEF HandlerStep
  <2>3. Deliver(o.req, ParseResponse(n, o.sock)) /\ o.op # "close"
    BY <1>3 DEF RecvDone
  <2> HIDE DEF c
  <2> QED BY <2>2, <2>3, IdleHandlerStep
<1>4. ASSUME NEW o \in io, ResolveDone(o)
      PROVE  IdleUnlessFailed'
  <2> DEFINE s == Launch(clients, io \ {o}, o.req)
  <2>1. o.op = "resolve" /\ o.req \in Requests /\ Becomes(s) /\ results' = results
    BY <1>4, PendingFacts DEF ResolveDone, IInv
  <2>2. clients' = s.clients /\ io' = s.io /\ io \ {o} \subseteq io'
    BY <2>1 DEF Becomes, Launch
  <2>3. ASSUME NEW i \in DOMAIN clients'
        PROVE  Idle(i)'
    <3>1. KeptOrInUse(clients, s, i)
      BY <1>0, <2>1, <2>2, LaunchKeepsOthers
    <3> HIDE DEF s
    <3>2. \/ \E p \in OnClient' : p.client = i
          \/ i \in DOMAIN clients /\ clients'[i] = clients[i]
      BY <1>0, <2>2, <3>1 DEF KeptOrInUse, OnClient
    <3>3. \A p \in OnClient : p.client = i => Idle(i)'
      BY <2>1, <2>2 DEF Idle, OnClient
    <3> QED BY <2>1, <3>2, <3>3, IdleStep
  <2> QED BY <2>3 DEF IdleUnlessFailed, Idle
<1>5. ASSUME NEW o \in io, ConnectDone(o)
      PROVE  IdleUnlessFailed'
  <2> DEFINE c == [op |-> "send", req |-> o.req, client |-> o.client,
                   sock |-> clients[o.client].socket]
  <2>1. c.op # "resolve" /\ c.client = o.client
    OBVIOUS
  <2>2. clients' = clients /\ io' = (io \ {o}) \cup {c} /\ results' = results
    BY <1>5 DEF ConnectDone
  <2> HIDE DEF c
  <2> QED BY <2>1, <2>2, IdleFollowUp
<1>6. ASSUME NEW o \in io, SendDone(o)
      PROVE  IdleUnlessFailed'
  <2> DEFINE c == [op |-> "recv", req |-> o.req, client |-> o.client,
                   sock |-> clients[o.client].socket]
  <2>1. c.op # "resolve" /\ c.client = o.client
    OBVIOUS
  <2>2. clients' = clients /\ io' = (io \ {o}) \cup {c} /\ results' = results
    BY <1>6 DEF SendDone
  <2> HIDE DEF c
  <2> QED BY <2>1, <2>2, IdleFollowUp
<1>7. ASSUME NEW o \in io, CloseDone(o)
      PROVE  IdleUnlessFailed'
  <2>1. o.client \in 1..Len(clients) /\ o.op # "resolve"
    BY <1>7, PendingFacts DEF CloseDone, IInv
  <2>2. /\ clients' = [clients EXCEPT ![o.client].can_be_recycled = TRUE]
        /\ io' = io \ {o} /\ results' = results
    BY <1>7 DEF CloseDone
  <2>3. clients[o.client] \in Client
    BY <1>0, <2>1
  <2>4. clients'[o.client].can_be_recycled
    BY <1>0, <2>1, <2>2, <2>3 DEF Client
  <2>5. \A i \in DOMAIN clients : i # o.client => clients'[i] = clients[i]
    BY <1>0, <2>1, <2>2
  <2> QED BY <1>0, <2>2, <2>4, <2>5 DEF IdleUnlessFailed, OnClient, Failed
<1>8. CASE UNCHANGED vars
  BY <1>8 DEF vars, IdleUnlessFailed, OnClient, Failed
<1> QED BY <1>1, <1>2, <1>3, <1>4, <1>5, <1>6, <1>7, <1>8 DEF Next, Completion

\* The only clients that never come back to the pool are those whose connect
\* or send failed: everyone else is in use or can be handed out.
THEOREM OnlyFailuresLoseClients == Spec => []IdleUnlessFailed
<1>1. Init => IdleUnlessFailed
  BY DEF Init, IdleUnlessFailed
<1> QED BY <1>1, NextIdle, SpecIInv, PTL DEF Spec

=============================================================================
