------------------------- MODULE MbedTLSSerialProofs -------------------------
(***************************************************************************)
(* Proofs about MbedTLS when a client comes only once those before it are  *)
(* gone: what the one ssl context is enough for.  As in MbedTLSProofs, for *)
(* any number of connections, of requests and of records in a packet.      *)
(***************************************************************************)
EXTENDS MbedTLSProofs

USE NoConnAssumption, SizesAssumption

-----------------------------------------------------------------------------
(***************************************************************************)
(* The inductive invariant: one connection is live at a time, and what is  *)
(* on its way to the server, what mbedtls has of it and the context belong *)
(* together.                                                               *)
(***************************************************************************)
Live(c) == client[c] # "idle" /\ ~Gone(c)

OneLive == \A c, d \in Conns : Live(c) /\ Live(d) => c = d

\* Nothing happened yet on the connection of a client that is idle.
IdleInv ==
  \A c \in Conns : client[c] = "idle" =>
    /\ network[c] = <<>>
    /\ conns[c] = [state |-> "NONE", encrypted_data |-> <<>>]
    /\ flights[c] = {}

\* The records of s are c's, of these kinds.
Own(s, c, kinds) == \A i \in DOMAIN s : s[i].of = c /\ s[i].kind \in kinds

\* What a client sends after its finished.
AfterFinished(s, c) ==
  Own(s, c, IF client[c] = "closed" THEN {"data", "close_notify", "eof"} ELSE {"data"})

ToBeRead(s, c) ==
  Own(s, c, IF client[c] = "closed" THEN {"data", "close_notify"} ELSE {"data"})

BeforeHello(c) ==
  /\ conns[c] = [state |-> "NONE", encrypted_data |-> <<>>]
  /\ flights[c] = {}
  /\ \/ client[c] = "hello" /\ network[c] = <<Rec(c, "hello")>>
     \/ client[c] = "closed" /\ network[c] = <<Rec(c, "hello"), Rec(c, "eof")>>

InHandshake(c) ==
  /\ conns[c] = [state |-> "HANDSHAKE", encrypted_data |-> <<>>]
  /\ ssl = [phase |-> "flight", session |-> c] /\ m_socket = c
  /\ \/ client[c] = "hello" /\ network[c] = <<>>
     \/ client[c] = "closed" /\ network[c] = <<Rec(c, "eof")>>
     \/ /\ client[c] \in {"open", "closed"}
        /\ network[c] # <<>> /\ Head(network[c]) = Rec(c, "finished")
        /\ AfterFinished(Tail(network[c]), c)

InSession(c) ==
  /\ conns[c].state = "READY"
  /\ ssl = [phase |-> "ready", session |-> c] /\ m_socket = c
  /\ client[c] \in {"open", "closed"}
  /\ ToBeRead(conns[c].encrypted_data, c) /\ AfterFinished(network[c], c)

GivenUp(c) == conns[c].state = "CLOSED" /\ client[c] = "closed"

Shape(c) == BeforeHello(c) \/ InHandshake(c) \/ InSession(c) \/ GivenUp(c)

LiveInv == \A c \in Conns : Live(c) => Shape(c)

\* The HTTP layer gets nothing before the handshake is over.
NothingBefore ==
  \A c \in Conns : conns[c].state \in {"NONE", "HANDSHAKE"} => gathered[c] = 0 /\ handed[c] = 0

SerialInv ==
  /\ OneLive /\ IdleInv /\ LiveInv /\ NothingBefore
  /\ NoRecordIsLost /\ ServedUntilClosed

-----------------------------------------------------------------------------
(***************************************************************************)
(* Clients that stay for their answers, too: the requests of a client are  *)
(* answered one after the other, and at most the last one handed over has  *)
(* a reply handler that is kept.                                           *)
(***************************************************************************)
Answered(c) == Len(got[c])

InOrder(c) == \A j \in DOMAIN got[c] : got[c][j] = [session |-> c, to |-> <<c, j>>]

Pending(c) ==
  \/ /\ handed[c] = Answered(c)
     /\ \A k \in 1..Requests : <<c, k>> \notin deferred
  \/ /\ handed[c] = Answered(c) + 1
     /\ \A k \in 1..Requests : <<c, k>> \in deferred <=> k = Answered(c) + 1

SentInTurn(c) ==
  /\ sent[c] <= (Answered(c) + 1) * Records
  /\ client[c] = "closed" => sent[c] < (Answered(c) + 1) * Records

PatientInv == \A c \in Conns : InOrder(c) /\ Pending(c) /\ SentInTurn(c)

-----------------------------------------------------------------------------
(* Sequences of a connection's own records. *)

\* Records are a connection's own if both their parts are.
LEMMA OwnParts ==
  ASSUME NEW p \in Seq(Record), NEW r \in Seq(Record), NEW c, NEW kinds
  PROVE  Own(p \o r, c, kinds) <=> Own(p, c, kinds) /\ Own(r, c, kinds)
<1>1. ASSUME Own(p \o r, c, kinds) PROVE Own(p, c, kinds)
  <2>1. \A i \in DOMAIN p : i \in DOMAIN (p \o r) /\ (p \o r)[i] = p[i]
    OBVIOUS
  <2> QED BY <1>1, <2>1 DEF Own
<1>2. ASSUME Own(p \o r, c, kinds) PROVE Own(r, c, kinds)
  <2>1. \A i \in DOMAIN r : i + Len(p) \in DOMAIN (p \o r) /\ (p \o r)[i + Len(p)] = r[i]
    OBVIOUS
  <2> QED BY <1>2, <2>1 DEF Own
<1>3. ASSUME Own(p, c, kinds), Own(r, c, kinds) PROVE Own(p \o r, c, kinds)
  <2>1. ASSUME NEW i \in DOMAIN (p \o r)
        PROVE  \/ i \in DOMAIN p /\ (p \o r)[i] = p[i]
               \/ i - Len(p) \in DOMAIN r /\ (p \o r)[i] = r[i - Len(p)]
    OBVIOUS
  <2> QED BY <1>3, <2>1 DEF Own
<1> QED BY <1>1, <1>2, <1>3

\* The first of a connection's own records, and those behind it, are its own.
LEMMA OwnTail ==
  ASSUME NEW s \in Seq(Record), s # <<>>, NEW c, NEW kinds, Own(s, c, kinds)
  PROVE  /\ Head(s).of = c /\ Head(s).kind \in kinds
         /\ Own(Tail(s), c, kinds)
<1>1. s = <<Head(s)>> \o Tail(s) /\ <<Head(s)>> \in Seq(Record) /\ Tail(s) \in Seq(Record)
  OBVIOUS
<1>2. Own(<<Head(s)>>, c, kinds) /\ Own(Tail(s), c, kinds)
  <2> DEFINE p == <<Head(s)>>
             r == Tail(s)
  <2>1. p \in Seq(Record) /\ r \in Seq(Record) /\ Own(p \o r, c, kinds)
    BY <1>1
  <2> HIDE DEF p, r
  <2>2. Own(p, c, kinds) /\ Own(r, c, kinds)
    BY <2>1, OwnParts
  <2> QED BY <2>2 DEF p, r
<1> QED BY <1>2 DEF Own

\* The records that one step of a client sends are its own.
LEMMA OwnShort ==
  ASSUME NEW c
  PROVE  /\ \A kinds : Own(<<>>, c, kinds)
         /\ \A kinds : \A kind \in kinds : Own(<<Rec(c, kind)>>, c, kinds)
         /\ \A kinds : \A kind, kind2 \in kinds : Own(<<Rec(c, kind), Rec(c, kind2)>>, c, kinds)
<1>1. \A kinds : Own(<<>>, c, kinds)
  BY DEF Own
<1>2. \A kinds : \A kind \in kinds : Own(<<Rec(c, kind)>>, c, kinds)
  BY DEF Own, Rec
<1>3. \A kinds : \A kind, kind2 \in kinds : Own(<<Rec(c, kind), Rec(c, kind2)>>, c, kinds)
  BY DEF Own, Rec
<1> QED BY <1>1, <1>2, <1>3

\* The first record of two texts is that of the first text.
LEMMA HeadTail ==
  ASSUME NEW p \in Seq(Record), NEW r \in Seq(Record), p # <<>>
  PROVE  /\ p \o r # <<>> /\ Head(p \o r) = Head(p) /\ Tail(p \o r) = Tail(p) \o r
         /\ p = <<Head(p)>> \o Tail(p) /\ Head(p) \in Record /\ Tail(p) \in Seq(Record)
OBVIOUS

\* One record before a text is its head.
LEMMA ConsHeadTail ==
  ASSUME NEW e \in Record, NEW r \in Seq(Record)
  PROVE  <<e>> \o r # <<>> /\ Head(<<e>> \o r) = e /\ Tail(<<e>> \o r) = r
OBVIOUS

\* The heads and tails of one or two records.
LEMMA ShortTail ==
  ASSUME NEW a, NEW b
  PROVE  Head(<<a>>) = a /\ Tail(<<a>>) = <<>> /\ Head(<<a, b>>) = a /\ Tail(<<a, b>>) = <<b>>
<1>1. Tail(<<a, b>>) = <<b>>
  <2>1. Len(Tail(<<a, b>>)) = 1 /\ Tail(<<a, b>>)[1] = b
    OBVIOUS
  <2> QED BY <2>1
<1> QED BY <1>1

\* One record after another one.
LEMMA JoinShort ==
  ASSUME NEW a, NEW b
  PROVE  <<a>> \o <<b>> = <<a, b>>
<1> DEFINE s == <<a>> \o <<b>>
           t == <<a, b>>
<1>1. s \in Seq({a, b}) /\ t \in Seq({a, b}) /\ Len(s) = 2 /\ Len(t) = 2
  OBVIOUS
<1>2. s[1] = a /\ s[2] = b /\ t[1] = a /\ t[2] = b
  OBVIOUS
<1> HIDE DEF s, t
<1>3. \A i \in 1..Len(s) : s[i] = t[i]
  BY <1>1, <1>2
<1>4. s = t
  BY <1>1, <1>3, SeqEqual
<1> QED BY <1>4 DEF s, t

-----------------------------------------------------------------------------
(* What mbedtls does with a connection's own records. *)

Call(context, data, sent_to, ret) ==
  [ssl |-> context, data |-> data, flights |-> sent_to, ret |-> ret]

Flight(c) == [phase |-> "flight", session |-> c]

Keys(c) == [phase |-> "ready", session |-> c]

\* The types of a call of mbedtls.
LEMMA CallType ==
  ASSUME NEW context \in Context, NEW data \in Seq(Record), NEW sent_to \in SUBSET Conns,
         NEW ret \in {"run", "error", "ok", "want_read", "data", "close_notify"}
  PROVE  Call(context, data, sent_to, ret) \in CallState
BY DEF Call, CallState

\* A call that returned something else is the same call otherwise.
LEMMA CallAgain ==
  ASSUME NEW context, NEW data, NEW sent_to, NEW ret, NEW ret2,
         NEW s, s = Call(context, data, sent_to, ret)
  PROVE  [s EXCEPT !.ret = ret2] = Call(context, data, sent_to, ret2)
BY DEF Call

\* The hello is answered, and mbedtls waits for the finished.
LEMMA HelloCall ==
  ASSUME NEW c \in Conns
  PROVE  SslHandshake(Call(FreshContext, <<Rec(c, "hello")>>, {}, "run"))
           = Call(Flight(c), <<>>, {c}, "want_read")
<1>1. HandshakeStep(Call(FreshContext, <<Rec(c, "hello")>>, {}, "run"))
        = Call(Flight(c), <<>>, {c}, "run")
  <2> DEFINE hello == <<Rec(c, "hello")>>
             s == Call(FreshContext, hello, {}, "run")
  <2>1. /\ s.ret = "run" /\ s.ssl.phase = "fresh" /\ s.data = hello /\ s.flights = {}
    BY DEF Call, FreshContext
  <2>2. hello # <<>> /\ Head(hello).kind = "hello" /\ Head(hello).of = c /\ Tail(hello) = <<>>
    BY DEF Rec
  <2> HIDE DEF hello, s
  <2>3. HandshakeStep(s) = [s EXCEPT !.ssl = Flight(c), !.data = <<>>, !.flights = {c}]
    BY <2>1, <2>2 DEF HandshakeStep, Flight
  <2>4. s = Call(FreshContext, hello, {}, "run")
    BY DEF s
  <2>5. HandshakeStep(s) = Call(Flight(c), <<>>, {c}, "run")
    <3>1. FreshContext \in Context /\ hello \in Seq(Record)
      BY RecType DEF FreshContext, Context, hello
    <3>2. s \in CallState
      BY <2>4, <3>1, CallType
    <3> QED BY <2>1, <2>3, <2>4, <3>2 DEF Call, CallState
  <2> QED BY <2>5 DEF s, hello
<1>2. HandshakeStep(Call(Flight(c), <<>>, {c}, "run")) = Call(Flight(c), <<>>, {c}, "want_read")
  BY DEF HandshakeStep, Call, Flight
<1>3. HandshakeStep(Call(Flight(c), <<>>, {c}, "want_read"))
        = Call(Flight(c), <<>>, {c}, "want_read")
  BY DEF HandshakeStep, Call
<1> QED BY <1>1, <1>2, <1>3 DEF SslHandshake

\* A handshake without records waits for them.
LEMMA WaitingCall ==
  ASSUME NEW c \in Conns
  PROVE  SslHandshake(Call(Flight(c), <<>>, {}, "run")) = Call(Flight(c), <<>>, {}, "want_read")
<1>1. HandshakeStep(Call(Flight(c), <<>>, {}, "run")) = Call(Flight(c), <<>>, {}, "want_read")
  BY DEF HandshakeStep, Call, Flight
<1>2. HandshakeStep(Call(Flight(c), <<>>, {}, "want_read"))
        = Call(Flight(c), <<>>, {}, "want_read")
  BY DEF HandshakeStep, Call
<1> QED BY <1>1, <1>2 DEF SslHandshake

\* With the keys there, the handshake is over.
LEMMA KeysStep ==
  ASSUME NEW c \in Conns, NEW data
  PROVE  /\ HandshakeStep(Call(Keys(c), data, {}, "run")) = Call(Keys(c), data, {}, "ok")
         /\ HandshakeStep(Call(Keys(c), data, {}, "ok")) = Call(Keys(c), data, {}, "ok")
BY DEF HandshakeStep, Call, Keys

\* The client's last record of the handshake completes it, and nothing more is read.
LEMMA FinishedCall ==
  ASSUME NEW c \in Conns, NEW data \in Seq(Record), data # <<>>, Head(data) = Rec(c, "finished")
  PROVE  SslHandshake(Call(Flight(c), data, {}, "run")) = Call(Keys(c), Tail(data), {}, "ok")
<1>1. HandshakeStep(Call(Flight(c), data, {}, "run")) = Call(Keys(c), Tail(data), {}, "run")
  BY DEF HandshakeStep, Call, Flight, Keys
<1> QED BY <1>1, KeysStep DEF SslHandshake

\* One own record is read, if there is one.
LEMMA OwnRead ==
  ASSUME NEW c \in Conns, NEW data \in Seq(Record), Own(data, c, {"data", "close_notify"})
  PROVE  SslRead(Call(Keys(c), data, {}, "ok"))
           = IF data = <<>> THEN Call(Keys(c), <<>>, {}, "want_read")
             ELSE Call(Keys(c), Tail(data), {}, Head(data).kind)
<1> SUFFICES ASSUME NEW s, s = Call(Keys(c), data, {}, "ok")
             PROVE  SslRead(s) = IF data = <<>> THEN Call(Keys(c), <<>>, {}, "want_read")
                                 ELSE Call(Keys(c), Tail(data), {}, Head(data).kind)
  OBVIOUS
<1> DEFINE h == Call(Keys(c), data, {}, "ok")
<1>0. s = Call(Keys(c), data, {}, "ok") /\ h = Call(Keys(c), data, {}, "ok")
  OBVIOUS
<1>1. [s EXCEPT !.ret = "run"] = Call(Keys(c), data, {}, "run")
  <2> HIDE DEF h
  <2> QED BY <1>0, CallAgain
<1>2. SslHandshake([s EXCEPT !.ret = "run"]) = h
  BY <1>1, KeysStep DEF SslHandshake
<1>3. CASE data = <<>>
  <2>1. SslRead(s) = [h EXCEPT !.ret = "want_read"]
    <3>1. h.ret = "ok" /\ h.data = <<>>
      BY <1>3 DEF Call
    <3> HIDE DEF h
    <3> QED BY <1>2, <3>1 DEF SslRead
  <2>2. SslRead(s) = Call(Keys(c), data, {}, "want_read")
    <3> HIDE DEF h
    <3> QED BY <1>0, <2>1 DEF Call
  <2> QED BY <1>3, <2>2
<1>4. CASE data # <<>>
  <2>1. Head(data).of = c /\ Head(data).kind \in {"data", "close_notify"} /\ Head(data) \in Record
    BY <1>4, OwnTail
  <2>2. Head(data) = Rec(c, Head(data).kind)
    BY <2>1 DEF Rec, Record
  <2>3. Head(data) \in {Rec(c, "data"), Rec(c, "close_notify")}
    BY <2>1, <2>2
  <2>4. h.ret = "ok" /\ h.data = data /\ h.ssl.session = c
    BY DEF Call, Keys
  <2> HIDE DEF h
  <2>5. SslRead(s) = [h EXCEPT !.ret = Head(h.data).kind, !.data = Tail(@)]
    BY <1>2, <1>4, <2>3, <2>4 DEF SslRead
  <2>6. SslRead(s) = [h EXCEPT !.ret = Head(data).kind, !.data = Tail(data)]
    BY <2>4, <2>5
  <2>7. SslRead(s) = Call(Keys(c), Tail(data), {}, Head(data).kind)
    <3>1. Keys(c) \in Context
      BY DEF Keys, Context
    <3>2. h \in CallState
      BY <1>0, <3>1, CallType
    <3> QED BY <1>0, <2>6, <3>2 DEF Call, CallState
  <2> QED BY <1>4, <2>7
<1> QED BY <1>3, <1>4

-----------------------------------------------------------------------------
(* add_encrypted_data of the connection that is live. *)

\* add_encrypted_data, as a call of mbedtls and what is done with its result.
LEMMA AddUnfolded ==
  ASSUME NEW c \in Conns, NEW packet, AddEncryptedData(c, packet), conns[c].state # "CLOSED",
         NEW state, state = (IF conns[c].state = "NONE" THEN "INITIAL" ELSE conns[c].state),
         NEW s, s = RunMbedTLS(IF state = "INITIAL" THEN "HANDSHAKE" ELSE state,
                               Call(ResetContext(state), conns[c].encrypted_data \o packet, {}, "run"))
  PROVE  /\ ssl' = s.ssl /\ m_socket' = c
         /\ conns' = [conns EXCEPT ![c] = [state |-> s.state, encrypted_data |-> s.data]]
         /\ flights' = [flights EXCEPT ![c] = @ \cup s.flights]
         /\ \/ s.ret = "data" /\ HandleData(c, s.ssl.session)
            \/ s.ret # "data" /\ UNCHANGED <<session, got>>
BY DEF AddEncryptedData, Call, Push

\* A new connection resets the context and its hello is answered.
LEMMA AddHello ==
  ASSUME NEW c \in Conns, conns[c] = [state |-> "NONE", encrypted_data |-> <<>>],
         AddEncryptedData(c, <<Rec(c, "hello")>>)
  PROVE  /\ ssl' = Flight(c) /\ m_socket' = c
         /\ conns' = [conns EXCEPT ![c] = [state |-> "HANDSHAKE", encrypted_data |-> <<>>]]
         /\ flights' = [flights EXCEPT ![c] = @ \cup {c}]
         /\ UNCHANGED <<session, got>>
<1> DEFINE data == conns[c].encrypted_data \o <<Rec(c, "hello")>>
           h == Call(Flight(c), <<>>, {c}, "want_read")
<1>1. data = <<Rec(c, "hello")>>
  OBVIOUS
<1>2. ResetContext("INITIAL") = FreshContext
  BY DEF ResetContext
<1>3. SslHandshake(Call(ResetContext("INITIAL"), data, {}, "run")) = h
  BY <1>1, <1>2, HelloCall
<1>4. h.ret = "want_read" /\ h.ssl = Flight(c) /\ h.data = <<>> /\ h.flights = {c}
  BY DEF Call
<1> HIDE DEF data, h
<1>5. RunMbedTLS("HANDSHAKE", Call(ResetContext("INITIAL"), data, {}, "run"))
        = [ssl |-> Flight(c), data |-> <<>>, flights |-> {c}, ret |-> "want_read",
           state |-> "HANDSHAKE"]
  BY <1>3, <1>4 DEF RunMbedTLS, StateAfter
<1> DEFINE s == RunMbedTLS("HANDSHAKE", Call(ResetContext("INITIAL"), data, {}, "run"))
<1>6. /\ ssl' = s.ssl /\ m_socket' = c
      /\ conns' = [conns EXCEPT ![c] = [state |-> s.state, encrypted_data |-> s.data]]
      /\ flights' = [flights EXCEPT ![c] = @ \cup s.flights]
      /\ \/ s.ret = "data" /\ HandleData(c, s.ssl.session)
         \/ s.ret # "data" /\ UNCHANGED <<session, got>>
  <2>1. conns[c].state = "NONE"
    OBVIOUS
  <2> HIDE DEF s
  <2> QED BY <2>1, AddUnfolded DEF s, data
<1>7. /\ s.ssl = Flight(c) /\ s.data = <<>> /\ s.flights = {c} /\ s.ret = "want_read"
      /\ s.state = "HANDSHAKE"
  BY <1>5
<1> HIDE DEF s
<1> QED BY <1>6, <1>7

\* No bytes: a handshake that waits goes on waiting.
LEMMA AddNothing ==
  ASSUME NEW c \in Conns, conns \in [Conns -> ConnectionData], flights \in [Conns -> SUBSET Conns],
         conns[c] = [state |-> "HANDSHAKE", encrypted_data |-> <<>>], ssl = Flight(c),
         AddEncryptedData(c, <<>>)
  PROVE  /\ ssl' = Flight(c) /\ m_socket' = c /\ conns' = conns /\ flights' = flights
         /\ UNCHANGED <<session, got>>
<1> DEFINE data == conns[c].encrypted_data \o <<>>
           h == Call(Flight(c), <<>>, {}, "want_read")
<1>1. data = <<>>
  OBVIOUS
<1>2. ResetContext("HANDSHAKE") = Flight(c)
  BY DEF ResetContext
<1>3. SslHandshake(Call(ResetContext("HANDSHAKE"), data, {}, "run")) = h
  BY <1>1, <1>2, WaitingCall
<1>4. h.ret = "want_read" /\ h.ssl = Flight(c) /\ h.data = <<>> /\ h.flights = {}
  BY DEF Call
<1> HIDE DEF data, h
<1>5. RunMbedTLS("HANDSHAKE", Call(ResetContext("HANDSHAKE"), data, {}, "run"))
        = [ssl |-> Flight(c), data |-> <<>>, flights |-> {}, ret |-> "want_read",
           state |-> "HANDSHAKE"]
  BY <1>3, <1>4 DEF RunMbedTLS, StateAfter
<1> DEFINE s == RunMbedTLS("HANDSHAKE", Call(ResetContext("HANDSHAKE"), data, {}, "run"))
<1>6. /\ ssl' = s.ssl /\ m_socket' = c
      /\ conns' = [conns EXCEPT ![c] = [state |-> s.state, encrypted_data |-> s.data]]
      /\ flights' = [flights EXCEPT ![c] = @ \cup s.flights]
      /\ \/ s.ret = "data" /\ HandleData(c, s.ssl.session)
         \/ s.ret # "data" /\ UNCHANGED <<session, got>>
  <2>1. conns[c].state = "HANDSHAKE"
    OBVIOUS
  <2> HIDE DEF s
  <2> QED BY <2>1, AddUnfolded DEF s, data
<1>7. /\ s.ssl = Flight(c) /\ s.data = <<>> /\ s.flights = {} /\ s.ret = "want_read"
      /\ s.state = "HANDSHAKE"
  BY <1>5
<1> HIDE DEF s
<1> QED BY <1>6, <1>7

\* What a call does that reads at most one record of data with c's keys.
Serves(c, data) ==
  /\ ssl' = Keys(c) /\ m_socket' = c /\ flights' = flights
  /\ \/ /\ data = <<>>
        /\ conns' = [conns EXCEPT ![c] = [state |-> "READY", encrypted_data |-> <<>>]]
        /\ UNCHANGED <<session, got>>
     \/ /\ data # <<>> /\ Head(data).kind = "data"
        /\ conns' = [conns EXCEPT ![c] = [state |-> "READY", encrypted_data |-> Tail(data)]]
        /\ HandleData(c, c)
     \/ /\ data # <<>> /\ Head(data).kind = "close_notify"
        /\ conns' = [conns EXCEPT ![c] = [state |-> "CLOSED", encrypted_data |-> Tail(data)]]
        /\ UNCHANGED <<session, got>>

\* A read of own records after a handshake that is over.
LEMMA RunServes ==
  ASSUME NEW c \in Conns, flights \in [Conns -> SUBSET Conns],
         NEW data \in Seq(Record), Own(data, c, {"data", "close_notify"}),
         NEW h, h = Call(Keys(c), data, {}, "ok"),
         NEW s, s = [ssl |-> SslRead(h).ssl, data |-> SslRead(h).data,
                     flights |-> SslRead(h).flights, ret |-> SslRead(h).ret,
                     state |-> StateAfter(h, SslRead(h))],
         ssl' = s.ssl, m_socket' = c,
         conns' = [conns EXCEPT ![c] = [state |-> s.state, encrypted_data |-> s.data]],
         flights' = [flights EXCEPT ![c] = @ \cup s.flights],
         \/ s.ret = "data" /\ HandleData(c, s.ssl.session)
         \/ s.ret # "data" /\ UNCHANGED <<session, got>>
  PROVE  Serves(c, data)
<1>1. h.ret = "ok"
  BY DEF Call
<1>2. SslRead(h) = IF data = <<>> THEN Call(Keys(c), <<>>, {}, "want_read")
                   ELSE Call(Keys(c), Tail(data), {}, Head(data).kind)
  BY OwnRead
<1>3. CASE data = <<>>
  <2> DEFINE r == SslRead(h)
  <2>0. r.ssl = Keys(c) /\ r.data = <<>> /\ r.flights = {} /\ r.ret = "want_read"
    <3>1. r = Call(Keys(c), <<>>, {}, "want_read")
      BY <1>2, <1>3
    <3> HIDE DEF r
    <3> QED BY <3>1 DEF Call
  <2>1. s.ssl = Keys(c) /\ s.data = <<>> /\ s.flights = {} /\ s.ret = "want_read" /\ s.state = "READY"
    <3> HIDE DEF r
    <3> QED BY <1>1, <2>0 DEF StateAfter, r
  <2>2. flights' = flights
    BY <2>1
  <2> QED BY <1>3, <2>1, <2>2 DEF Serves
<1>4. CASE data # <<>>
  <2>1. Head(data).kind \in {"data", "close_notify"}
    BY <1>4, OwnTail
  <2> DEFINE r == SslRead(h)
  <2>0. r.ssl = Keys(c) /\ r.data = Tail(data) /\ r.flights = {} /\ r.ret = Head(data).kind
    <3>1. r = Call(Keys(c), Tail(data), {}, Head(data).kind)
      BY <1>2, <1>4
    <3> HIDE DEF r
    <3> QED BY <3>1 DEF Call
  <2>2. /\ s.ssl = Keys(c) /\ s.data = Tail(data) /\ s.flights = {} /\ s.ret = Head(data).kind
        /\ s.state = IF Head(data).kind = "close_notify" THEN "CLOSED" ELSE "READY"
    <3>1. StateAfter(h, r) = IF Head(data).kind = "close_notify" THEN "CLOSED" ELSE "READY"
      BY <1>1, <2>0, <2>1 DEF StateAfter
    <3> QED BY <2>0, <3>1
  <2>3. flights' = flights /\ s.ssl.session = c
    BY <2>2 DEF Keys
  <2> QED BY <1>4, <2>1, <2>2, <2>3 DEF Serves
<1> QED BY <1>3, <1>4

\* In a session a packet is read with the context of its own connection.
LEMMA AddInSession ==
  ASSUME NEW c \in Conns, flights \in [Conns -> SUBSET Conns],
         conns[c].state = "READY", conns[c].encrypted_data \in Seq(Record),
         ssl = Keys(c), NEW packet \in Seq(Record), AddEncryptedData(c, packet),
         Own(conns[c].encrypted_data \o packet, c, {"data", "close_notify"})
  PROVE  Serves(c, conns[c].encrypted_data \o packet)
<1> DEFINE data == conns[c].encrypted_data \o packet
           s == RunMbedTLS("READY", Call(ResetContext("READY"), data, {}, "run"))
           h == Call(Keys(c), data, {}, "ok")
<1>1. data \in Seq(Record)
  OBVIOUS
<1>2. ResetContext("READY") = Keys(c)
  BY DEF ResetContext
<1> SUFFICES ASSUME NEW call, call = Call(Keys(c), data, {}, "run") PROVE Serves(c, data)
  OBVIOUS
<1> HIDE DEF data, h
<1>3. [call EXCEPT !.ret = "ok"] = h
  BY CallAgain DEF h
<1>4. h.ret = "ok"
  BY DEF Call, h
<1>5. s = [ssl |-> SslRead(h).ssl, data |-> SslRead(h).data,
           flights |-> SslRead(h).flights, ret |-> SslRead(h).ret,
           state |-> StateAfter(h, SslRead(h))]
  BY <1>2, <1>3, <1>4 DEF RunMbedTLS
<1>6. /\ ssl' = s.ssl /\ m_socket' = c
      /\ conns' = [conns EXCEPT ![c] = [state |-> s.state, encrypted_data |-> s.data]]
      /\ flights' = [flights EXCEPT ![c] = @ \cup s.flights]
      /\ \/ s.ret = "data" /\ HandleData(c, s.ssl.session)
         \/ s.ret # "data" /\ UNCHANGED <<session, got>>
  <2> HIDE DEF s
  <2> QED BY AddUnfolded DEF s, data
<1>7. Own(data, c, {"data", "close_notify"})
  BY DEF data
<1>8. h = Call(Keys(c), data, {}, "ok")
  BY DEF h
<1> HIDE DEF s
<1> QED BY <1>1, <1>5, <1>6, <1>7, <1>8, RunServes

\* The packet that completes the handshake is read the same way.
LEMMA AddFinished ==
  ASSUME NEW c \in Conns, flights \in [Conns -> SUBSET Conns],
         conns[c] = [state |-> "HANDSHAKE", encrypted_data |-> <<>>],
         ssl = Flight(c), NEW packet \in Seq(Record), AddEncryptedData(c, packet),
         packet # <<>>, Head(packet) = Rec(c, "finished"),
         Own(Tail(packet), c, {"data", "close_notify"})
  PROVE  Serves(c, Tail(packet))
<1> DEFINE data == conns[c].encrypted_data \o packet
           s == RunMbedTLS("HANDSHAKE", Call(ResetContext("HANDSHAKE"), data, {}, "run"))
           h == Call(Keys(c), Tail(packet), {}, "ok")
<1>1. data = packet /\ Tail(packet) \in Seq(Record)
  OBVIOUS
<1>2. ResetContext("HANDSHAKE") = Flight(c)
  BY DEF ResetContext
<1> HIDE DEF data, h
<1>3. SslHandshake(Call(ResetContext("HANDSHAKE"), data, {}, "run")) = h
  BY <1>1, <1>2, FinishedCall DEF h
<1>4. h.ret = "ok"
  BY DEF Call, h
<1>5. s = [ssl |-> SslRead(h).ssl, data |-> SslRead(h).data,
           flights |-> SslRead(h).flights, ret |-> SslRead(h).ret,
           state |-> StateAfter(h, SslRead(h))]
  BY <1>3, <1>4 DEF RunMbedTLS
<1>6. /\ ssl' = s.ssl /\ m_socket' = c
      /\ conns' = [conns EXCEPT ![c] = [state |-> s.state, encrypted_data |-> s.data]]
      /\ flights' = [flights EXCEPT ![c] = @ \cup s.flights]
      /\ \/ s.ret = "data" /\ HandleData(c, s.ssl.session)
         \/ s.ret # "data" /\ UNCHANGED <<session, got>>
  <2>1. conns[c].state = "HANDSHAKE"
    OBVIOUS
  <2> HIDE DEF s
  <2> QED BY <2>1, AddUnfolded DEF s, data
<1>7. h = Call(Keys(c), Tail(packet), {}, "ok")
  BY DEF h
<1> HIDE DEF s
<1> QED BY <1>1, <1>5, <1>6, <1>7, RunServes

-----------------------------------------------------------------------------
(* Receive keeps the invariant. *)

\* Records of some kinds are records of more kinds.
LEMMA OwnMore ==
  ASSUME NEW s, NEW c, NEW kinds, NEW more, kinds \subseteq more, Own(s, c, kinds)
  PROVE  Own(s, c, more)
BY DEF Own

\* A packet of a client's records holds no end of the stream.
LEMMA PacketToBeRead ==
  ASSUME NEW packet \in Seq(Record), NEW rest \in Seq(Record), NEW c,
         AfterFinished(packet \o rest, c), \A i \in DOMAIN packet : packet[i].kind # "eof"
  PROVE  ToBeRead(packet, c) /\ AfterFinished(rest, c)
<1>1. CASE client[c] = "closed"
  <2>1. Own(packet, c, {"data", "close_notify", "eof"}) /\ Own(rest, c, {"data", "close_notify", "eof"})
    BY <1>1, OwnParts DEF AfterFinished
  <2> QED BY <1>1, <2>1 DEF AfterFinished, ToBeRead, Own
<1>2. CASE client[c] # "closed"
  <2>1. Own(packet, c, {"data"}) /\ Own(rest, c, {"data"})
    BY <1>2, OwnParts DEF AfterFinished
  <2> QED BY <1>2, <2>1 DEF AfterFinished, ToBeRead
<1> QED BY <1>1, <1>2

\* A record that is handled counts for no other connection.
LEMMA HandleDataOthers ==
  ASSUME NEW c \in Conns, gathered \in [Conns -> 0..Records - 1], handed \in [Conns -> 0..Requests],
         HandleData(c, c)
  PROVE  \A d \in Conns \ {c} : gathered'[d] = gathered[d] /\ handed'[d] = handed[d]
BY DEF HandleData

\* What is known of c, and what stays of the others, when c received.
Received(c) ==
  /\ Live(c)' => Shape(c)'
  /\ conns'[c].state = "CLOSED" => client[c] = "closed"
  /\ conns'[c].state \in {"NONE", "HANDSHAKE"} => gathered'[c] = 0 /\ handed'[c] = 0
  /\ conns'[c].state # "CLOSED" =>
       sent[c] = DataIn(network'[c]) + DataIn(conns'[c].encrypted_data) + Taken(c)'
  /\ \/ UNCHANGED <<session, got>>
     \/ HandleData(c, c) /\ Taken(c) + 1 <= sent[c]
  /\ \A d \in Conns \ {c} :
       conns'[d] = conns[d] /\ flights'[d] = flights[d]
       /\ gathered'[d] = gathered[d] /\ handed'[d] = handed[d]

\* The types of what is counted for a connection.
LEMMA CountTypes ==
  ASSUME TypeOK, NEW c \in Conns
  PROVE  /\ sent[c] \in Nat /\ Taken(c) \in Nat
         /\ network[c] \in Seq(Record) /\ DataIn(network[c]) \in Nat
         /\ conns[c].encrypted_data \in Seq(Record) /\ DataIn(conns[c].encrypted_data) \in Nat
<1> DEFINE most == Requests * Records
           before == handed[c] * Records
<1>1. /\ sent \in [Conns -> 0..most] /\ network \in [Conns -> Seq(Record)]
      /\ conns \in [Conns -> ConnectionData]
      /\ gathered \in [Conns -> 0..Records - 1] /\ handed \in [Conns -> 0..Requests]
  BY DEF TypeOK
<1>2. most \in Nat /\ before \in Nat /\ Taken(c) = before + gathered[c]
  <2>1. handed[c] \in Nat
    BY <1>1
  <2>2. \A m, n \in Nat : m * n \in Nat
    OBVIOUS
  <2>3. Records \in Nat /\ Requests \in Nat
    OBVIOUS
  <2>4. most \in Nat
    BY ONLY <2>2, <2>3
  <2>5. before \in Nat
    BY ONLY <2>1, <2>2, <2>3
  <2> QED BY <2>4, <2>5 DEF Taken
<1> HIDE DEF most, before
<1>3. conns[c].encrypted_data \in Seq(Record) /\ network[c] \in Seq(Record)
  BY <1>1 DEF ConnectionData
<1>4. sent[c] \in Nat /\ gathered[c] \in Nat
  BY <1>1, <1>2
<1> QED BY <1>2, <1>3, <1>4, DataInType

\* A connection that serves its client keeps its shape and its count.
LEMMA ServesReceived ==
  ASSUME IInv, NEW c \in Conns, NEW data \in Seq(Record), NEW rest \in Seq(Record),
         Serves(c, data), ToBeRead(data, c), AfterFinished(rest, c),
         client[c] \in {"open", "closed"}, network'[c] = rest, UNCHANGED client,
         sent[c] = DataIn(data) + DataIn(rest) + Taken(c)
  PROVE  Received(c)
<1>0. /\ conns \in [Conns -> ConnectionData] /\ gathered \in [Conns -> 0..Records - 1]
      /\ handed \in [Conns -> 0..Requests]
      /\ Taken(c) \in Nat /\ sent[c] \in Nat /\ DataIn(data) \in Nat /\ DataIn(rest) \in Nat
  BY CountTypes, DataInType DEF IInv, TypeOK
<1>1. /\ ssl' = Keys(c) /\ m_socket' = c /\ flights' = flights
      /\ AfterFinished(network'[c], c)
  BY DEF Serves
<1>2. CASE /\ data = <<>>
           /\ conns' = [conns EXCEPT ![c] = [state |-> "READY", encrypted_data |-> <<>>]]
           /\ UNCHANGED <<session, got>>
  <2>1. /\ conns'[c] = [state |-> "READY", encrypted_data |-> <<>>]
        /\ \A d \in Conns \ {c} : conns'[d] = conns[d]
    BY <1>0, <1>2
  <2>2. ToBeRead(conns'[c].encrypted_data, c)
    BY <2>1 DEF ToBeRead, Own
  <2>3. InSession(c)'
    BY <1>1, <2>1, <2>2 DEF InSession, Keys, AfterFinished, ToBeRead, Own
  <2>4. Taken(c)' = Taken(c) /\ DataIn(<<>>) = 0
    BY <1>2, DataInShort DEF Taken, session
  <2> QED BY <1>0, <1>1, <1>2, <2>1, <2>3, <2>4 DEF Received, Shape, session
<1>3. CASE /\ data # <<>> /\ Head(data).kind = "data"
           /\ conns' = [conns EXCEPT ![c] = [state |-> "READY", encrypted_data |-> Tail(data)]]
           /\ HandleData(c, c)
  <2>1. /\ conns'[c] = [state |-> "READY", encrypted_data |-> Tail(data)]
        /\ \A d \in Conns \ {c} : conns'[d] = conns[d]
    BY <1>0, <1>3
  <2>2. ToBeRead(Tail(data), c)
    BY <1>3, OwnTail DEF ToBeRead
  <2>3. InSession(c)'
    BY <1>1, <2>1, <2>2 DEF InSession, Keys, AfterFinished, ToBeRead, Own
  <2>4. DataIn(data) = 1 + DataIn(Tail(data)) /\ DataIn(Tail(data)) \in Nat
    BY <1>3, DataInTail
  <2>5. Taken(c) + 1 <= sent[c]
    BY <1>0, <2>4, SMTT(30)
  <2>6. Taken(c)' = Taken(c) + 1
    BY <1>3, <2>5, HandleDataInv
  <2>7. \A d \in Conns \ {c} : gathered'[d] = gathered[d] /\ handed'[d] = handed[d]
    BY <1>0, <1>3, HandleDataOthers
  <2>8. sent[c] = DataIn(network'[c]) + DataIn(conns'[c].encrypted_data) + Taken(c)'
    BY <1>0, <2>1, <2>4, <2>6
  <2> QED BY <1>1, <1>3, <2>1, <2>3, <2>5, <2>7, <2>8 DEF Received, Shape
<1>4. CASE /\ data # <<>> /\ Head(data).kind = "close_notify"
           /\ conns' = [conns EXCEPT ![c] = [state |-> "CLOSED", encrypted_data |-> Tail(data)]]
           /\ UNCHANGED <<session, got>>
  <2>1. /\ conns'[c].state = "CLOSED" /\ \A d \in Conns \ {c} : conns'[d] = conns[d]
    BY <1>0, <1>4
  <2>2. client[c] = "closed"
    <3>1. CASE client[c] # "closed"
      <4>1. Head(data).kind \in {"data"}
        BY <1>4, <3>1, OwnTail DEF ToBeRead
      <4> QED BY <1>4, <4>1
    <3> QED BY <3>1
  <2> QED BY <1>1, <1>4, <2>1, <2>2 DEF Received, Shape, GivenUp, session
<1> QED BY <1>2, <1>3, <1>4 DEF Serves

\* A packet is one of the live connection and leaves that in its shape.
LEMMA ReceiveReceived ==
  ASSUME IInv, SerialInv, NEW c \in Conns, Receive(c)
  PROVE  Live(c) /\ Received(c) /\ \A d \in Conns \ {c} : network'[d] = network[d]
<1>0. /\ network \in [Conns -> Seq(Record)] /\ conns \in [Conns -> ConnectionData]
      /\ flights \in [Conns -> SUBSET Conns]
      /\ gathered \in [Conns -> 0..Records - 1] /\ handed \in [Conns -> 0..Requests]
      /\ network[c] \in Seq(Record) /\ DataIn(network[c]) \in Nat
      /\ conns[c].encrypted_data \in Seq(Record) /\ DataIn(conns[c].encrypted_data) \in Nat
      /\ Taken(c) \in Nat /\ sent[c] \in Nat
  BY CountTypes DEF IInv, TypeOK
<1>1. PICK packet \in Seq(Record), rest \in Seq(Record) :
        /\ \/ /\ packet # <<>> /\ network[c] = packet \o rest
              /\ \A i \in DOMAIN packet : packet[i].kind # "eof"
           \/ packet = <<>> /\ \E e \in Record : e.kind = "eof" /\ network[c] = <<e>> \o rest
        /\ DataIn(network[c]) = DataIn(packet) + DataIn(rest)
        /\ AddEncryptedData(c, packet)
        /\ network' = [network EXCEPT ![c] = rest]
  BY <1>0, ReceiveTakes
<1>2. UNCHANGED <<server, client, sent>>
  BY DEF Receive
<1>3. /\ network'[c] = rest /\ \A d \in Conns \ {c} : network'[d] = network[d]
      /\ DataIn(rest) \in Nat /\ DataIn(packet) \in Nat
  BY <1>0, <1>1, DataInType
<1>10. /\ network[c] # <<>>
       /\ \/ /\ packet # <<>> /\ \A i \in DOMAIN packet : packet[i].kind # "eof"
             /\ network[c] = packet \o rest
             /\ Head(packet) = Head(network[c]) /\ Head(packet).kind # "eof"
             /\ Tail(network[c]) = Tail(packet) \o rest
          \/ packet = <<>> /\ Head(network[c]).kind = "eof" /\ Tail(network[c]) = rest
  <2>1. ASSUME packet # <<>>, \A i \in DOMAIN packet : packet[i].kind # "eof", network[c] = packet \o rest
        PROVE  /\ network[c] # <<>> /\ Head(packet) = Head(network[c]) /\ Head(packet).kind # "eof"
               /\ Tail(network[c]) = Tail(packet) \o rest
    <3>1. Head(packet) = packet[1] /\ 1 \in DOMAIN packet
      BY <2>1
    <3> QED BY <2>1, <3>1, HeadTail
  <2>2. ASSUME NEW e \in Record, e.kind = "eof", network[c] = <<e>> \o rest
        PROVE  network[c] # <<>> /\ Head(network[c]).kind = "eof" /\ Tail(network[c]) = rest
    BY <2>2, ConsHeadTail
  <2> QED BY <1>1, <2>1, <2>2
<1>4. Live(c) /\ network[c] # <<>>
  <2>1. network[c] # <<>>
    BY <1>10
  <2> QED BY <2>1 DEF Live, Gone, SerialInv, IdleInv
<1>5. /\ conns[c].state # "CLOSED" =>
           sent[c] = DataIn(network[c]) + DataIn(conns[c].encrypted_data) + Taken(c)
      /\ conns[c].state \in {"NONE", "HANDSHAKE"} => gathered[c] = 0 /\ handed[c] = 0
  BY DEF SerialInv, NoRecordIsLost, NothingBefore
<1>6. CASE BeforeHello(c)
  <2>1. /\ packet = <<Rec(c, "hello")>>
        /\ \/ client[c] = "hello" /\ rest = <<>>
           \/ client[c] = "closed" /\ rest = <<Rec(c, "eof")>>
    <3>1. Head(network[c]) = Rec(c, "hello")
      BY <1>6 DEF BeforeHello
    <3>2. packet # <<>> /\ \A i \in DOMAIN packet : packet[i].kind # "eof"
      BY <1>10, <3>1 DEF Rec
    <3>3. /\ Head(packet) = Rec(c, "hello") /\ Tail(network[c]) = Tail(packet) \o rest
          /\ packet = <<Head(packet)>> \o Tail(packet) /\ Tail(packet) \in Seq(Record)
      BY <1>10, <3>1, <3>2, HeadTail
    <3>4. CASE client[c] = "hello" /\ Tail(network[c]) = <<>>
      <4>1. Tail(packet) = <<>> /\ rest = <<>>
        BY <3>3, <3>4
      <4> QED BY <3>3, <3>4, <4>1
    <3>5. CASE client[c] = "closed" /\ Tail(network[c]) = <<Rec(c, "eof")>>
      <4>1. Tail(packet) = <<>>
        <5>1. SUFFICES ASSUME Tail(packet) # <<>> PROVE FALSE
          OBVIOUS
        <5>2. Head(Tail(packet)) = Rec(c, "eof")
          <6>1. Head(Tail(packet) \o rest) = Head(Tail(packet))
            BY <3>3, <5>1, HeadTail
          <6>2. Tail(packet) \o rest = <<Rec(c, "eof")>>
            BY <3>3, <3>5
          <6>3. Head(<<Rec(c, "eof")>>) = Rec(c, "eof")
            BY ShortTail
          <6> QED BY <6>1, <6>2, <6>3
        <5>3. 2 \in DOMAIN packet /\ packet[2] = Head(Tail(packet))
          BY <3>2, <5>1
        <5> QED BY <3>2, <5>2, <5>3 DEF Rec
      <4>2. rest = <<Rec(c, "eof")>> /\ packet = <<Rec(c, "hello")>>
        <5>1. rest = <<Rec(c, "eof")>>
          <6>1. <<>> \o rest = rest
            OBVIOUS
          <6> QED BY <3>3, <3>5, <4>1, <6>1
        <5>2. packet = <<Rec(c, "hello")>> \o <<>>
          BY <3>3, <4>1
        <5> QED BY <5>1, <5>2
      <4> QED BY <3>5, <4>2
    <3>6. \/ client[c] = "hello" /\ Tail(network[c]) = <<>>
          \/ client[c] = "closed" /\ Tail(network[c]) = <<Rec(c, "eof")>>
      <4>1. Tail(<<Rec(c, "hello")>>) = <<>> /\ Tail(<<Rec(c, "hello"), Rec(c, "eof")>>) = <<Rec(c, "eof")>>
        BY ShortTail
      <4> QED BY <1>6, <4>1 DEF BeforeHello
    <3> QED BY <3>4, <3>5, <3>6
  <2>2. /\ ssl' = Flight(c) /\ m_socket' = c
        /\ conns' = [conns EXCEPT ![c] = [state |-> "HANDSHAKE", encrypted_data |-> <<>>]]
        /\ flights' = [flights EXCEPT ![c] = @ \cup {c}]
        /\ UNCHANGED <<session, got>>
    BY <1>1, <1>6, <2>1, AddHello DEF BeforeHello
  <2>3. InHandshake(c)'
    BY <1>0, <1>2, <1>3, <2>1, <2>2 DEF InHandshake, Flight
  <2>4. Taken(c)' = Taken(c) /\ gathered'[c] = 0 /\ handed'[c] = 0
    BY <1>5, <1>6, <2>2 DEF Taken, session, BeforeHello
  <2>5. /\ conns[c].state = "NONE" /\ DataIn(conns[c].encrypted_data) = 0
        /\ DataIn(packet) = 0 /\ DataIn(<<>>) = 0
    BY <1>6, <2>1, DataInShort DEF BeforeHello, Rec
  <2>6. conns'[c].encrypted_data = <<>> /\ conns'[c].state = "HANDSHAKE"
    BY <1>0, <2>2
  <2>7. sent[c] = DataIn(network'[c]) + DataIn(conns'[c].encrypted_data) + Taken(c)'
    BY <1>0, <1>1, <1>3, <1>5, <2>4, <2>5, <2>6
  <2> QED BY <1>0, <1>3, <1>4, <2>2, <2>3, <2>4, <2>6, <2>7 DEF Received, Shape, session
<1>7. CASE InHandshake(c)
  <2>0. /\ conns[c] = [state |-> "HANDSHAKE", encrypted_data |-> <<>>] /\ ssl = Flight(c) /\ m_socket = c
        /\ conns[c].state = "HANDSHAKE" /\ conns[c].encrypted_data = <<>>
    BY <1>7 DEF InHandshake, Flight
  <2>1. CASE client[c] = "closed" /\ network[c] = <<Rec(c, "eof")>>
    <3>1. packet = <<>> /\ rest = <<>>
      <4>1. Head(network[c]).kind = "eof" /\ Tail(network[c]) = <<>>
        BY <2>1 DEF Rec
      <4> QED BY <1>10, <4>1
    <3>2. ssl' = Flight(c) /\ m_socket' = c /\ conns' = conns /\ flights' = flights /\ UNCHANGED <<session, got>>
      BY <1>0, <1>1, <2>0, <3>1, AddNothing
    <3>3. ~Live(c)'
      BY <1>2, <1>3, <2>1, <3>1 DEF Live, Gone
    <3>4. sent[c] = DataIn(network'[c]) + DataIn(conns'[c].encrypted_data) + Taken(c)'
      <4>1. Taken(c)' = Taken(c) /\ DataIn(packet) = 0
        BY <3>1, <3>2, DataInShort DEF Taken, session
      <4> QED BY <1>0, <1>1, <1>3, <1>5, <2>0, <3>2, <4>1
    <3> QED BY <1>4, <1>5, <2>0, <3>2, <3>3, <3>4, <1>3 DEF Received, session
  <2>2. CASE /\ client[c] \in {"open", "closed"}
             /\ network[c] # <<>> /\ Head(network[c]) = Rec(c, "finished")
             /\ AfterFinished(Tail(network[c]), c)
    <3>1. packet # <<>> /\ \A i \in DOMAIN packet : packet[i].kind # "eof"
      BY <1>10, <2>2 DEF Rec
    <3>2. /\ Head(packet) = Rec(c, "finished") /\ Tail(network[c]) = Tail(packet) \o rest
          /\ Tail(packet) \in Seq(Record)
      BY <1>10, <2>2, <3>1, HeadTail
    <3>3. \A i \in DOMAIN Tail(packet) : Tail(packet)[i].kind # "eof"
      BY <3>1
    <3>4. ToBeRead(Tail(packet), c) /\ AfterFinished(rest, c)
      <4>1. AfterFinished(Tail(packet) \o rest, c)
        BY <2>2, <3>2
      <4> QED BY <3>2, <3>3, <4>1, PacketToBeRead
    <3>5. Own(Tail(packet), c, {"data", "close_notify"})
      BY <3>4, OwnMore DEF ToBeRead
    <3>6. Serves(c, Tail(packet))
      BY <1>0, <1>1, <2>0, <3>1, <3>2, <3>5, AddFinished
    <3>7. DataIn(Tail(packet)) = DataIn(packet) /\ DataIn(Tail(packet)) \in Nat
      BY <3>1, <3>2, DataInTail DEF Rec
    <3>8. sent[c] = DataIn(Tail(packet)) + DataIn(rest) + Taken(c)
      BY <1>0, <1>1, <1>3, <1>5, <2>0, <3>7, DataInShort
    <3>9. Received(c)
      BY <1>2, <1>3, <2>2, <3>2, <3>4, <3>6, <3>8, ServesReceived
    <3> QED BY <1>3, <1>4, <3>9
  <2> QED BY <1>4, <1>7, <2>1, <2>2 DEF InHandshake
<1>8. CASE InSession(c)
  <2> DEFINE data == conns[c].encrypted_data \o packet
  <2>1. ToBeRead(packet, c) /\ AfterFinished(rest, c)
    <3>1. AfterFinished(network[c], c)
      BY <1>8 DEF InSession
    <3>2. CASE packet # <<>>
      <4>1. AfterFinished(packet \o rest, c) /\ \A i \in DOMAIN packet : packet[i].kind # "eof"
        BY <1>10, <3>1, <3>2
      <4> QED BY <4>1, PacketToBeRead
    <3>3. CASE packet = <<>>
      <4>1. AfterFinished(rest, c)
        <5> DEFINE kinds == IF client[c] = "closed" THEN {"data", "close_notify", "eof"} ELSE {"data"}
        <5>1. Own(network[c], c, kinds)
          BY <3>1 DEF AfterFinished
        <5> HIDE DEF kinds
        <5>2. Own(Tail(network[c]), c, kinds)
          <6>1. network[c] \in Seq(Record) /\ network[c] # <<>>
            BY <1>0, <1>10
          <6> QED BY <5>1, <6>1, OwnTail
        <5>3. Tail(network[c]) = rest
          BY <1>10, <3>3
        <5>4. Own(rest, c, kinds)
          BY <5>2, <5>3
        <5> QED BY <5>4 DEF AfterFinished, kinds
      <4> QED BY <3>3, <4>1 DEF ToBeRead, Own
    <3> QED BY <3>2, <3>3
  <2>2. ToBeRead(data, c) /\ data \in Seq(Record)
    BY <1>0, <1>8, <2>1, OwnParts DEF InSession, ToBeRead
  <2>3. Own(data, c, {"data", "close_notify"})
    BY <2>2, OwnMore DEF ToBeRead
  <2>4. DataIn(data) = DataIn(conns[c].encrypted_data) + DataIn(packet)
    BY <1>0, DataInConcat
  <2>5. conns[c].state = "READY" /\ ssl = Keys(c) /\ client[c] \in {"open", "closed"}
    BY <1>8 DEF InSession, Keys
  <2>6. Serves(c, data)
    BY <1>0, <1>1, <2>3, <2>5, AddInSession
  <2> HIDE DEF data
  <2>7. sent[c] = DataIn(data) + DataIn(rest) + Taken(c)
    BY <1>0, <1>1, <1>3, <1>5, <2>4, <2>5
  <2>8. Received(c)
    BY <1>2, <1>3, <2>1, <2>2, <2>5, <2>6, <2>7, ServesReceived
  <2> QED BY <1>3, <1>4, <2>8
<1>9. CASE GivenUp(c)
  <2>1. UNCHANGED <<conns, ssl, m_socket, session, flights, got>>
    BY <1>1, <1>9 DEF AddEncryptedData, GivenUp
  <2>2. GivenUp(c)'
    BY <1>2, <1>9, <2>1 DEF GivenUp
  <2> QED BY <1>3, <1>4, <1>9, <2>1, <2>2 DEF Received, Shape, GivenUp, session
<1> QED BY <1>4, <1>6, <1>7, <1>8, <1>9 DEF SerialInv, LiveInv, Shape

\* A packet keeps SerialInv.
LEMMA ReceiveSerial ==
  ASSUME IInv, SerialInv, NEW c \in Conns, Receive(c)
  PROVE  SerialInv'
<1>1. Live(c) /\ Received(c) /\ \A d \in Conns \ {c} : network'[d] = network[d]
  BY ReceiveReceived
<1>2. UNCHANGED <<client, sent>>
  BY DEF Receive
<1>3. ASSUME NEW d \in Conns \ {c}
      PROVE  /\ ~Live(d)' /\ ~Live(d)
             /\ conns'[d] = conns[d] /\ network'[d] = network[d] /\ flights'[d] = flights[d]
             /\ gathered'[d] = gathered[d] /\ handed'[d] = handed[d] /\ Taken(d)' = Taken(d)
  <2>1. ~Live(d)
    BY <1>1 DEF SerialInv, OneLive
  <2> QED BY <1>1, <1>2, <2>1 DEF Received, Live, Gone, Taken
<1>4. OneLive'
  BY <1>3 DEF OneLive
<1>5. IdleInv'
  <2>1. client[c] # "idle"
    BY <1>1 DEF Live
  <2> QED BY <1>2, <1>3, <2>1 DEF SerialInv, IdleInv
<1>6. LiveInv'
  BY <1>1, <1>3 DEF Received, LiveInv
<1>7. NothingBefore'
  BY <1>1, <1>3 DEF Received, SerialInv, NothingBefore
<1>8. NoRecordIsLost'
  BY <1>1, <1>2, <1>3 DEF Received, SerialInv, NoRecordIsLost
<1>9. ServedUntilClosed'
  BY <1>1, <1>2, <1>3 DEF Received, SerialInv, ServedUntilClosed
<1> QED BY <1>4, <1>5, <1>6, <1>7, <1>8, <1>9 DEF SerialInv

-----------------------------------------------------------------------------
(* The other actions keep it. *)

\* A client takes a step and sends records.
LEMMA SendSerial ==
  ASSUME IInv, SerialInv, NEW c \in Conns, NEW records \in Seq(Record), NEW phase, Send(c, records),
         client' = [client EXCEPT ![c] = phase], phase # "idle",
         client[c] = "closed" => phase = "closed",
         \A d \in Conns \ {c} : ~Live(d),
         sent'[c] = sent[c] + DataIn(records),
         \A d \in Conns \ {c} : sent'[d] = sent[d],
         UNCHANGED <<conns, ssl, m_socket, session, flights>>,
         Shape(c)'
  PROVE  SerialInv'
<1>0. /\ network \in [Conns -> Seq(Record)] /\ network[c] \in Seq(Record) /\ DataIn(network[c]) \in Nat
      /\ DataIn(conns[c].encrypted_data) \in Nat /\ Taken(c) \in Nat /\ sent[c] \in Nat
      /\ client \in [Conns -> {"idle", "hello", "open", "closed"}]
      /\ DataIn(records) \in Nat
  BY CountTypes, DataInType DEF IInv, TypeOK
<1>1. /\ network'[c] = network[c] \o records /\ \A d \in Conns \ {c} : network'[d] = network[d]
      /\ client'[c] = phase /\ \A d \in Conns \ {c} : client'[d] = client[d]
  BY <1>0 DEF Send
<1>2. \A d \in Conns \ {c} : ~Live(d)'
  BY <1>1 DEF Live, Gone
<1>3. OneLive'
  BY <1>2 DEF OneLive
<1>4. IdleInv'
  BY <1>1 DEF SerialInv, IdleInv
<1>5. LiveInv'
  BY <1>2 DEF LiveInv
<1>6. NothingBefore'
  BY DEF SerialInv, NothingBefore, session
<1>7. NoRecordIsLost'
  <2> SUFFICES ASSUME NEW d \in Conns, conns[d].state # "CLOSED"
               PROVE  sent'[d] = DataIn(network'[d]) + DataIn(conns[d].encrypted_data) + Taken(d)
    BY DEF NoRecordIsLost, Taken, session
  <2>1. sent[d] = DataIn(network[d]) + DataIn(conns[d].encrypted_data) + Taken(d)
    BY DEF SerialInv, NoRecordIsLost
  <2>2. DataIn(network[c] \o records) = DataIn(network[c]) + DataIn(records)
    BY <1>0, DataInConcat
  <2>3. CASE d = c
    <3>1. sent[c] = DataIn(network[c]) + DataIn(conns[c].encrypted_data) + Taken(c)
      BY <2>1, <2>3
    <3>2. sent'[c] = DataIn(network'[c]) + DataIn(conns[c].encrypted_data) + Taken(c)
      BY <1>0, <1>1, <2>2, <3>1
    <3> QED BY <2>3, <3>2
  <2>4. CASE d # c
    BY <1>1, <2>1, <2>4
  <2> QED BY <2>3, <2>4
<1>8. ServedUntilClosed'
  BY <1>1 DEF SerialInv, ServedUntilClosed
<1> QED BY <1>3, <1>4, <1>5, <1>6, <1>7, <1>8 DEF SerialInv

\* SerialInv holds before any client connects.
LEMMA InitSerial == Init => SerialInv
<1> SUFFICES ASSUME Init PROVE SerialInv
  OBVIOUS
<1>1. NoRecordIsLost
  BY DataInShort DEF Init, NoRecordIsLost, Taken
<1> QED BY <1>1 DEF Init, SerialInv, OneLive, IdleInv, LiveInv, NothingBefore, ServedUntilClosed, Live

\* A client that connects finds no live connection, and becomes one.
LEMMA ConnectSerial ==
  ASSUME IInv, SerialInv, ~Concurrent, NEW c \in Conns, Connect(c)
  PROVE  SerialInv'
<1>1. <<Rec(c, "hello")>> \in Seq(Record) /\ DataIn(<<Rec(c, "hello")>>) = 0
  BY RecType, DataInShort
<1>2. \A d \in Conns \ {c} : ~Live(d)
  BY DEF Connect, Live
<1>3. network[c] = <<>> /\ conns[c] = [state |-> "NONE", encrypted_data |-> <<>>] /\ flights[c] = {}
  BY DEF Connect, SerialInv, IdleInv
<1>4. client'[c] = "hello" /\ network'[c] = <<Rec(c, "hello")>>
  BY <1>3 DEF Connect, Send, IInv, TypeOK
<1>5. Shape(c)'
  BY <1>3, <1>4 DEF Connect, Shape, BeforeHello
<1>6. sent'[c] = sent[c] + 0
  BY CountTypes DEF Connect, IInv
<1> QED BY <1>1, <1>2, <1>5, <1>6, SendSerial DEF Connect

\* A client that is there has the only live connection.
LEMMA LiveOnly ==
  ASSUME SerialInv, NEW c \in Conns, client[c] \in {"hello", "open"}
  PROVE  /\ Shape(c) /\ \A d \in Conns \ {c} : ~Live(d)
<1>1. Live(c)
  BY DEF Live, Gone
<1> QED BY <1>1 DEF SerialInv, LiveInv, OneLive

\* A client that finishes the handshake keeps SerialInv.
LEMMA FinishSerial ==
  ASSUME IInv, SerialInv, NEW c \in Conns, Finish(c)
  PROVE  SerialInv'
<1>1. <<Rec(c, "finished")>> \in Seq(Record) /\ DataIn(<<Rec(c, "finished")>>) = 0
  BY RecType, DataInShort
<1>2. Shape(c) /\ \A d \in Conns \ {c} : ~Live(d)
  BY LiveOnly DEF Finish
<1>3. InHandshake(c) /\ network[c] = <<>>
  BY <1>2 DEF Finish, Shape, BeforeHello, InHandshake, InSession, GivenUp
<1>4. client'[c] = "open" /\ network'[c] = <<Rec(c, "finished")>>
  BY <1>3 DEF Finish, Send, IInv, TypeOK
<1>5. AfterFinished(Tail(network[c]), c)'
  <2>1. Tail(network'[c]) = <<>>
    BY <1>4, ShortTail
  <2> QED BY <2>1 DEF AfterFinished, Own
<1>6. Shape(c)'
  <2>1. network'[c] # <<>> /\ Head(network'[c]) = Rec(c, "finished")
    BY <1>4, ShortTail
  <2> QED BY <1>3, <1>4, <1>5, <2>1 DEF Finish, Shape, InHandshake
<1>7. sent'[c] = sent[c] + 0
  BY CountTypes DEF Finish, IInv
<1> QED BY <1>1, <1>2, <1>6, <1>7, SendSerial DEF Finish

\* What follows a finished may be followed by what a client in its state sends.
LEMMA MoreAfter ==
  ASSUME NEW s \in Seq(Record), NEW t \in Seq(Record), NEW c \in Conns,
         AfterFinished(s, c), client[c] = "closed" => client'[c] = "closed",
         Own(t, c, IF client'[c] = "closed" THEN {"data", "close_notify", "eof"} ELSE {"data"})
  PROVE  Own(s \o t, c, IF client'[c] = "closed" THEN {"data", "close_notify", "eof"} ELSE {"data"})
<1> DEFINE before == IF client[c] = "closed" THEN {"data", "close_notify", "eof"} ELSE {"data"}
           after == IF client'[c] = "closed" THEN {"data", "close_notify", "eof"} ELSE {"data"}
<1>1. Own(s, c, before) /\ before \subseteq after
  BY DEF AfterFinished
<1>3. Own(t, c, after)
  OBVIOUS
<1> HIDE DEF before, after
<1>2. Own(s, c, after)
  BY <1>1, OwnMore
<1>4. Own(s \o t, c, after)
  BY <1>2, <1>3, OwnParts
<1> QED BY <1>4 DEF after

\* A client that is open sends records, and may close with them.
LEMMA OpenSends ==
  ASSUME IInv, SerialInv, NEW c \in Conns, NEW records \in Seq(Record), client[c] = "open",
         network' = [network EXCEPT ![c] = @ \o records],
         client'[c] \in {"open", "closed"},
         Own(records, c, IF client'[c] = "closed" THEN {"data", "close_notify", "eof"} ELSE {"data"}),
         UNCHANGED <<conns, ssl, m_socket>>
  PROVE  Shape(c)'
<1>0. /\ network \in [Conns -> Seq(Record)] /\ network[c] \in Seq(Record)
      /\ conns[c].encrypted_data \in Seq(Record)
  BY CountTypes DEF IInv, TypeOK
<1>1. Shape(c) /\ network'[c] = network[c] \o records
  BY <1>0, LiveOnly
<1>2. CASE InHandshake(c)
  <2>1. network[c] # <<>> /\ Head(network[c]) = Rec(c, "finished") /\ AfterFinished(Tail(network[c]), c)
    BY <1>2 DEF InHandshake
  <2>2. /\ network'[c] # <<>> /\ Head(network'[c]) = Rec(c, "finished")
        /\ Tail(network'[c]) = Tail(network[c]) \o records /\ Tail(network[c]) \in Seq(Record)
    BY <1>0, <1>1, <2>1, HeadTail
  <2>3. AfterFinished(Tail(network[c]), c)'
    <3>1. Own(Tail(network[c]) \o records, c,
              IF client'[c] = "closed" THEN {"data", "close_notify", "eof"} ELSE {"data"})
      BY <2>1, <2>2, MoreAfter
    <3> QED BY <2>2, <3>1 DEF AfterFinished
  <2> QED BY <1>2, <2>2, <2>3 DEF InHandshake, Shape
<1>3. CASE InSession(c)
  <2>1. AfterFinished(network[c], c) /\ ToBeRead(conns[c].encrypted_data, c)
    BY <1>3 DEF InSession
  <2>2. AfterFinished(network[c], c)'
    <3>1. Own(network[c] \o records, c,
              IF client'[c] = "closed" THEN {"data", "close_notify", "eof"} ELSE {"data"})
      BY <1>0, <2>1, MoreAfter
    <3> QED BY <1>1, <3>1 DEF AfterFinished
  <2>3. ToBeRead(conns[c].encrypted_data, c)'
    BY <2>1 DEF ToBeRead, Own
  <2> QED BY <1>3, <2>2, <2>3 DEF InSession, Shape
<1> QED BY <1>1, <1>2, <1>3 DEF Shape, BeforeHello, GivenUp

\* A client that sends a record keeps SerialInv.
LEMMA SendDataSerial ==
  ASSUME IInv, SerialInv, NEW c \in Conns, SendData(c)
  PROVE  SerialInv'
<1> DEFINE most == Requests * Records
<1>0. most \in Int
  OBVIOUS
<1>1. sent \in [Conns -> 0..most] /\ client \in [Conns -> {"idle", "hello", "open", "closed"}]
  BY DEF IInv, TypeOK
<1> HIDE DEF most
<1>2. <<Rec(c, "data")>> \in Seq(Record) /\ DataIn(<<Rec(c, "data")>>) = 1
  BY RecType, DataInShort
<1>3. /\ client[c] = "open" /\ client' = [client EXCEPT ![c] = "open"]
      /\ network' = [network EXCEPT ![c] = @ \o <<Rec(c, "data")>>]
      /\ UNCHANGED <<conns, ssl, m_socket>>
  BY <1>1 DEF SendData, Send
<1>4. sent'[c] = sent[c] + 1 /\ \A d \in Conns \ {c} : sent'[d] = sent[d]
  BY <1>1 DEF SendData
<1>5. Own(<<Rec(c, "data")>>, c, {"data"})
  BY OwnShort
<1>6. Shape(c)'
  <2>1. client'[c] = "open"
    BY <1>1, <1>3
  <2> QED BY <1>2, <1>3, <1>5, <2>1, OpenSends
<1>7. \A d \in Conns \ {c} : ~Live(d)
  BY <1>3, LiveOnly
<1> QED BY <1>2, <1>3, <1>4, <1>6, <1>7, SendSerial DEF SendData

\* A client that closes keeps SerialInv.
LEMMA CloseSerial ==
  ASSUME IInv, SerialInv, NEW c \in Conns, Close(c)
  PROVE  SerialInv'
<1>0. /\ client \in [Conns -> {"idle", "hello", "open", "closed"}] /\ network \in [Conns -> Seq(Record)]
      /\ sent[c] \in Nat
  BY CountTypes DEF IInv, TypeOK
<1>1. PICK records \in Seq(Record) :
        /\ network' = [network EXCEPT ![c] = @ \o records] /\ DataIn(records) = 0
        /\ Own(records, c, {"data", "close_notify", "eof"})
        /\ client[c] = "open" \/ records = <<Rec(c, "eof")>>
  <2>1. CASE client[c] = "open" /\ Send(c, <<Rec(c, "close_notify"), Rec(c, "eof")>>)
    <3> DEFINE records == <<Rec(c, "close_notify"), Rec(c, "eof")>>
    <3>1. records \in Seq(Record) /\ DataIn(records) = 0
      BY RecType, DataInShort
    <3>2. Own(records, c, {"data", "close_notify", "eof"})
      BY OwnShort
    <3> HIDE DEF records
    <3>3. network' = [network EXCEPT ![c] = @ \o records]
      BY <2>1 DEF Send, records
    <3> QED BY <2>1, <3>1, <3>2, <3>3
  <2>2. CASE Send(c, <<Rec(c, "eof")>>)
    <3> DEFINE records == <<Rec(c, "eof")>>
    <3>1. records \in Seq(Record) /\ DataIn(records) = 0
      BY RecType, DataInShort
    <3>2. Own(records, c, {"data", "close_notify", "eof"})
      BY OwnShort
    <3>3. records = <<Rec(c, "eof")>>
      OBVIOUS
    <3> HIDE DEF records
    <3>4. network' = [network EXCEPT ![c] = @ \o records]
      BY <2>2 DEF Send, records
    <3> QED BY <3>1, <3>2, <3>3, <3>4
  <2> QED BY <2>1, <2>2 DEF Close
<1>2. /\ client[c] \in {"hello", "open"} /\ client' = [client EXCEPT ![c] = "closed"]
      /\ UNCHANGED <<sent, conns, ssl, m_socket, session, flights>>
  BY DEF Close
<1>3. client'[c] = "closed" /\ Shape(c) /\ \A d \in Conns \ {c} : ~Live(d)
  BY <1>0, <1>2, LiveOnly
<1>4. Shape(c)'
  <2>1. CASE client[c] = "open"
    BY <1>1, <1>2, <1>3, <2>1, OpenSends
  <2>2. CASE client[c] = "hello"
    <3>1. network'[c] = network[c] \o <<Rec(c, "eof")>>
      BY <1>0, <1>1, <2>2
    <3>2. CASE BeforeHello(c)
      <4>1. network'[c] = <<Rec(c, "hello"), Rec(c, "eof")>>
        <5>1. network[c] = <<Rec(c, "hello")>>
          BY <2>2, <3>2 DEF BeforeHello
        <5>2. <<Rec(c, "hello")>> \o <<Rec(c, "eof")>> = <<Rec(c, "hello"), Rec(c, "eof")>>
          BY JoinShort
        <5> QED BY <3>1, <5>1, <5>2
      <4> QED BY <1>2, <1>3, <3>2, <4>1 DEF BeforeHello, Shape
    <3>3. CASE InHandshake(c)
      <4>1. network'[c] = <<Rec(c, "eof")>>
        <5>1. network[c] = <<>>
          BY <2>2, <3>3 DEF InHandshake
        <5>2. \A a : <<>> \o <<a>> = <<a>>
          OBVIOUS
        <5> QED BY <3>1, <5>1, <5>2
      <4> QED BY <1>2, <1>3, <3>3, <4>1 DEF InHandshake, Shape
    <3> QED BY <1>3, <2>2, <3>2, <3>3 DEF Shape, InSession, GivenUp
  <2> QED BY <1>2, <2>1, <2>2
<1>5. sent'[c] = sent[c] + 0
  BY <1>0, <1>2
<1> QED BY <1>1, <1>2, <1>3, <1>4, <1>5, SendSerial DEF Send

\* Every step keeps SerialInv if connections do not overlap.
LEMMA NextSerial ==
  ASSUME ~Concurrent, IInv, SerialInv, [Next]_vars
  PROVE  SerialInv'
<1>1. CASE UNCHANGED <<client, sent, network, conns, ssl, m_socket, gathered, handed, flights>>
  <2>1. \A c \in Conns : (Live(c)' <=> Live(c)) /\ (Shape(c)' <=> Shape(c)) /\ Taken(c)' = Taken(c)
    BY <1>1 DEF Live, Gone, Taken, Shape, BeforeHello, InHandshake, InSession, GivenUp,
                AfterFinished, ToBeRead, Own
  <2> QED BY <1>1, <2>1 DEF SerialInv, OneLive, IdleInv, LiveInv, NothingBefore, NoRecordIsLost,
                            ServedUntilClosed
<1>2. CASE Start
  BY <1>1, <1>2 DEF Start, session
<1>3. ASSUME NEW c \in Conns, NEW k \in 1..Requests, DeferredReply(c, k)
      PROVE  SerialInv'
  BY <1>1, <1>3 DEF DeferredReply
<1>4. CASE UNCHANGED vars
  BY <1>1, <1>4 DEF vars, session
<1> QED BY <1>2, <1>3, <1>4, ConnectSerial, FinishSerial, SendDataSerial, CloseSerial, ReceiveSerial
        DEF Next, ConnStep

\* SerialInv holds in every reachable state if connections do not overlap.
LEMMA SerialInvariance ==
  ASSUME ~Concurrent
  PROVE  Spec => [](IInv /\ SerialInv)
<1>1. Init => IInv /\ SerialInv
  BY InitInv, InitSerial
<1>2. (IInv /\ SerialInv) /\ [Next]_vars => (IInv /\ SerialInv)'
  BY NextInv, NextSerial
<1> QED BY <1>1, <1>2, PTL DEF Spec

\* Clients that come one after the other: a connection that is READY has the
\* context and m_socket as long as its client is there, so what the server
\* reads and writes for it is in its session.
THEOREM OneClientOwnsTheContext ==
  ASSUME ~Concurrent
  PROVE  Spec => []ReadyOwnsTheContext
<1>1. SerialInv => ReadyOwnsTheContext
  <2> SUFFICES ASSUME SerialInv, NEW c \in Conns, conns[c].state = "READY", ~Gone(c)
               PROVE  ssl = [phase |-> "ready", session |-> c] /\ m_socket = c
    BY DEF ReadyOwnsTheContext
  <2>1. Live(c)
    BY DEF SerialInv, IdleInv, Live
  <2>2. Shape(c)
    BY <2>1 DEF SerialInv, LiveInv
  <2> QED BY <2>2 DEF Shape, BeforeHello, InHandshake, InSession, GivenUp
<1> QED BY <1>1, SerialInvariance, PTL

\* The server gives none of them up before its client closes: what the context
\* was used for before does not fail a handshake or a read.
THEOREM ClientsAreServed ==
  ASSUME ~Concurrent
  PROVE  Spec => []ServedUntilClosed
BY SerialInvariance, PTL DEF SerialInv

\* Every data record of a connection that is not given up is on its way, waits
\* for mbedtls or was handed to the HTTP layer.
THEOREM EveryRecordIsSomewhere ==
  ASSUME ~Concurrent
  PROVE  Spec => []NoRecordIsLost
BY SerialInvariance, PTL DEF SerialInv

-----------------------------------------------------------------------------
(* Patient clients, whose replies come in order. *)

\* The types of what is counted for a client that waits.
LEMMA PatientTypes ==
  ASSUME IInv, NEW c \in Conns
  PROVE  /\ handed[c] \in Nat /\ Answered(c) \in Nat /\ got[c] \in Seq(Reply)
         /\ handed[c] * Records <= Taken(c) /\ Taken(c) <= sent[c] /\ sent[c] \in Nat
         /\ \A n \in Nat : n * Records \in Nat /\ (n + 1) * Records = n * Records + Records
<1>1. /\ sent[c] \in Nat /\ Taken(c) \in Nat
      /\ DataIn(network[c]) \in Nat /\ DataIn(conns[c].encrypted_data) \in Nat
  BY CountTypes DEF IInv
<1>2. DataIn(network[c]) + DataIn(conns[c].encrypted_data) + Taken(c) <= sent[c]
  BY DEF IInv, CountInv
<1>3. /\ handed \in [Conns -> 0..Requests] /\ gathered \in [Conns -> 0..Records - 1]
      /\ got \in [Conns -> Seq(Reply)]
  BY DEF IInv, TypeOK
<1>4. handed[c] \in Nat /\ gathered[c] \in Nat /\ got[c] \in Seq(Reply)
  BY <1>3
<1>5. \A n \in Nat : n * Records \in Nat /\ (n + 1) * Records = n * Records + Records
  <2>1. \A m, n \in Nat : m * n \in Nat
    OBVIOUS
  <2>2. Records \in Nat
    OBVIOUS
  <2>3. \A n \in Nat : n * Records \in Nat
    BY ONLY <2>1, <2>2
  <2>4. \A n \in Nat : (n + 1) * Records = n * Records + Records
    BY ONLY <2>2
  <2> QED BY <2>3, <2>4
<1>6. handed[c] * Records \in Nat
  BY <1>4, <1>5
<1>7. handed[c] * Records <= Taken(c)
  <2> DEFINE before == handed[c] * Records
  <2>1. before \in Nat /\ Taken(c) = before + gathered[c]
    BY <1>6 DEF Taken
  <2> HIDE DEF before
  <2>2. before <= Taken(c)
    BY <1>4, <2>1
  <2> QED BY <2>2 DEF before
<1>8. Answered(c) \in Nat
  BY <1>4 DEF Answered
<1>9. Taken(c) <= sent[c]
  BY <1>1, <1>2
<1> QED BY <1>1, <1>4, <1>5, <1>7, <1>8, <1>9

\* The next reply arrives at a client that has not closed.
LEMMA NextReply ==
  ASSUME IInv, NEW c \in Conns, InOrder(c), client[c] # "closed",
         Arrives(c, [session |-> c, to |-> <<c, Answered(c) + 1>>])
  PROVE  /\ InOrder(c)' /\ Answered(c)' = Answered(c) + 1
         /\ \A d \in Conns \ {c} : got'[d] = got[d]
<1> DEFINE reply == [session |-> c, to |-> <<c, Answered(c) + 1>>]
<1>0. got \in [Conns -> Seq(Reply)] /\ got[c] \in Seq(Reply)
  BY DEF IInv, TypeOK
<1>1. got' = [got EXCEPT ![c] = Append(got[c], reply)]
  BY DEF Arrives
<1> HIDE DEF reply
<1>2. got'[c] = Append(got[c], reply) /\ \A d \in Conns \ {c} : got'[d] = got[d]
  BY <1>0, <1>1
<1>3. Len(got'[c]) = Len(got[c]) + 1
  BY <1>0, <1>2
<1>4. ASSUME NEW j \in DOMAIN got'[c] PROVE got'[c][j] = [session |-> c, to |-> <<c, j>>]
  <2>1. j \in 1..Len(got[c]) + 1
    BY <1>0, <1>2
  <2>2. CASE j \in 1..Len(got[c])
    <3>1. got'[c][j] = got[c][j] /\ j \in DOMAIN got[c]
      BY <1>0, <1>2, <2>2
    <3> QED BY <3>1 DEF InOrder
  <2>3. CASE j = Len(got[c]) + 1
    <3>1. got'[c][j] = reply
      BY <1>0, <1>2, <2>3
    <3> QED BY <2>3, <3>1 DEF reply, Answered
  <2> QED BY <1>0, <2>1, <2>2, <2>3
<1> QED BY <1>2, <1>3, <1>4 DEF InOrder, Answered

\* Nothing of d changes that PatientInv speaks of.
LEMMA PatientOthers ==
  ASSUME PatientInv, NEW d \in Conns, got'[d] = got[d], handed'[d] = handed[d],
         \A k \in 1..Requests : <<d, k>> \in deferred' <=> <<d, k>> \in deferred,
         sent'[d] = sent[d], client'[d] = "closed" => client[d] = "closed"
  PROVE  (InOrder(d) /\ Pending(d) /\ SentInTurn(d))'
BY DEF PatientInv, InOrder, Pending, SentInTurn, Answered

\* A record that completes a request makes it the one not yet answered.
LEMMA HandlePatient ==
  ASSUME IInv, PatientInv, NEW c \in Conns, HandleData(c, c), Taken(c) + 1 <= sent[c],
         UNCHANGED <<client, sent>>
  PROVE  PatientInv'
<1> DEFINE n == Answered(c)
           k == handed[c] + 1
<1>0. /\ handed[c] \in Nat /\ n \in Nat /\ sent[c] \in Nat /\ Taken(c) \in Nat
      /\ handed \in [Conns -> 0..Requests] /\ gathered[c] \in Nat
      /\ InOrder(c) /\ Pending(c) /\ SentInTurn(c)
  <2>1. Taken(c) \in Nat
    BY CountTypes DEF IInv
  <2>2. handed \in [Conns -> 0..Requests] /\ gathered \in [Conns -> 0..Records - 1]
    BY DEF IInv, TypeOK
  <2>3. gathered[c] \in Nat
    BY <2>2
  <2> QED BY <2>1, <2>2, <2>3, PatientTypes DEF PatientInv
<1>1. CASE ~Completed(c)
  <2>1. UNCHANGED <<handed, deferred, got>>
    BY <1>1 DEF HandleData
  <2> QED BY <2>1, PatientOthers DEF PatientInv
<1>2. CASE Completed(c)
  <2>1. /\ handed' = [handed EXCEPT ![c] = k]
        /\ \/ Arrives(c, [session |-> c, to |-> <<c, k>>]) /\ UNCHANGED deferred
           \/ deferred' = deferred \cup {<<c, k>>} /\ UNCHANGED got
    BY <1>2 DEF HandleData
  <2>2. k * Records <= sent[c]
    <3> DEFINE before == handed[c] * Records
    <3>1. before \in Nat /\ k * Records = before + Records
      BY <1>0, PatientTypes
    <3>2. Taken(c) = before + gathered[c] /\ gathered[c] + 1 = Records
      BY <1>2 DEF Taken, Completed
    <3> HIDE DEF before, k
    <3> QED BY <1>0, <3>1, <3>2
  <2>3. handed[c] = n /\ client[c] # "closed" /\ \A i \in 1..Requests : <<c, i>> \notin deferred
    <3> DEFINE mine == k * Records
               most == (n + 1) * Records
    <3>1. sent[c] <= most /\ (client[c] = "closed" => sent[c] < most) /\ mine <= sent[c]
      BY <1>0, <2>2 DEF SentInTurn
    <3>2. mine \in Nat /\ most \in Nat
      BY <1>0, PatientTypes
    <3>3. mine <= most
      <4> HIDE DEF mine, most, n, k
      <4> QED BY <1>0, <3>1, <3>2
    <3>4. k <= n + 1
      BY <1>0, <3>3, TimesRecords
    <3>5. handed[c] = n
      BY <1>0, <3>4 DEF Pending
    <3>6. client[c] # "closed"
      <4>1. mine = most
        BY <3>5
      <4> HIDE DEF mine, most
      <4> QED BY <1>0, <3>1, <3>2, <4>1
    <3> QED BY <1>0, <3>5, <3>6 DEF Pending
  <2>4. ASSUME NEW d \in Conns \ {c}, got'[d] = got[d]
        PROVE  (InOrder(d) /\ Pending(d) /\ SentInTurn(d))'
    <3>1. \A i \in 1..Requests : <<d, i>> \in deferred' <=> <<d, i>> \in deferred
      BY <2>1
    <3>2. handed'[d] = handed[d]
      BY <1>0, <2>1
    <3> QED BY <2>4, <3>1, <3>2, PatientOthers
  <2>5. handed'[c] = n + 1
    BY <1>0, <2>1, <2>3
  <2>6. CASE Arrives(c, [session |-> c, to |-> <<c, k>>]) /\ UNCHANGED deferred
    <3>1. /\ InOrder(c)' /\ Answered(c)' = n + 1
          /\ \A d \in Conns \ {c} : got'[d] = got[d]
      BY <1>0, <2>3, <2>6, NextReply
    <3>2. Pending(c)'
      BY <2>3, <2>5, <2>6, <3>1 DEF Pending
    <3>3. SentInTurn(c)'
      <4> DEFINE most == (n + 1) * Records
                 next == (n + 1 + 1) * Records
      <4>1. most \in Nat /\ next = most + Records
        BY <1>0, PatientTypes
      <4>2. sent[c] <= most
        BY <1>0 DEF SentInTurn
      <4>3. sent[c] <= next
        <5> HIDE DEF most, next
        <5> QED BY <1>0, <4>1, <4>2
      <4> QED BY <2>3, <3>1, <4>3 DEF SentInTurn
    <3> QED BY <2>4, <3>1, <3>2, <3>3 DEF PatientInv
  <2>7. CASE deferred' = deferred \cup {<<c, k>>} /\ UNCHANGED got
    <3>1. InOrder(c)' /\ SentInTurn(c)' /\ Answered(c)' = n
      BY <1>0, <2>7 DEF InOrder, SentInTurn, Answered
    <3>2. Pending(c)'
      BY <1>0, <2>3, <2>5, <2>7, <3>1 DEF Pending
    <3> QED BY <2>4, <2>7, <3>1, <3>2 DEF PatientInv
  <2> QED BY <2>1, <2>6, <2>7
<1> QED BY <1>1, <1>2

\* A reply handler that is kept is of the connection that is live, in session,
\* and its reply is the next.
LEMMA DeferredPatient ==
  ASSUME IInv, SerialInv, PatientInv, NEW c \in Conns, NEW k \in 1..Requests, DeferredReply(c, k)
  PROVE  PatientInv'
<1> DEFINE n == Answered(c)
<1>0. /\ handed[c] \in Nat /\ n \in Nat /\ sent[c] \in Nat /\ Taken(c) \in Nat
      /\ handed[c] * Records <= Taken(c) /\ Taken(c) <= sent[c]
      /\ InOrder(c) /\ Pending(c) /\ SentInTurn(c)
  BY PatientTypes, CountTypes DEF IInv, PatientInv
<1>1. /\ <<c, k>> \in deferred /\ deferred' = deferred \ {<<c, k>>}
      /\ UNCHANGED <<client, sent, handed>>
  BY DEF DeferredReply
<1>2. handed[c] = n + 1 /\ k = n + 1
  BY <1>0, <1>1 DEF Pending
<1>3. client[c] # "closed"
  <2> DEFINE most == (n + 1) * Records
  <2>1. most \in Nat /\ most <= Taken(c) /\ (client[c] = "closed" => sent[c] < most)
    BY <1>0, <1>2, PatientTypes DEF SentInTurn
  <2> HIDE DEF most
  <2> QED BY <1>0, <2>1
<1>4. InSession(c)
  <2>1. conns[c].state \notin {"NONE", "HANDSHAKE"}
    BY <1>0, <1>2 DEF SerialInv, NothingBefore
  <2>2. Live(c)
    BY <1>3, <2>1 DEF SerialInv, IdleInv, Live, Gone
  <2> QED BY <1>3, <2>1, <2>2 DEF SerialInv, LiveInv, Shape, BeforeHello, InHandshake, GivenUp
<1>5. Arrives(c, [session |-> c, to |-> <<c, n + 1>>])
  BY <1>2, <1>4 DEF DeferredReply, InSession
<1>6. /\ InOrder(c)' /\ Answered(c)' = n + 1
      /\ \A d \in Conns \ {c} : got'[d] = got[d]
  BY <1>0, <1>3, <1>5, NextReply
<1>7. Pending(c)'
  <2>1. \A i \in 1..Requests : <<c, i>> \notin deferred'
    BY <1>0, <1>1, <1>2 DEF Pending
  <2> QED BY <1>1, <1>2, <1>6, <2>1 DEF Pending
<1>8. SentInTurn(c)'
  <2> DEFINE most == (n + 1) * Records
             next == (n + 1 + 1) * Records
  <2>1. most \in Nat /\ next = most + Records
    BY <1>0, PatientTypes
  <2>2. sent[c] <= most
    BY <1>0 DEF SentInTurn
  <2>3. sent[c] <= next
    <3> HIDE DEF most, next
    <3> QED BY <1>0, <2>1, <2>2
  <2> QED BY <1>1, <1>3, <1>6, <2>3 DEF SentInTurn
<1>9. ASSUME NEW d \in Conns \ {c} PROVE (InOrder(d) /\ Pending(d) /\ SentInTurn(d))'
  <2>1. \A i \in 1..Requests : <<d, i>> \in deferred' <=> <<d, i>> \in deferred
    BY <1>1
  <2> QED BY <1>1, <1>6, <2>1, PatientOthers
<1> QED BY <1>6, <1>7, <1>8, <1>9 DEF PatientInv

\* Every step keeps PatientInv if clients wait and connections do not overlap.
LEMMA NextPatient ==
  ASSUME ~Concurrent, Patient, IInv, SerialInv, PatientInv, [Next]_vars
  PROVE  PatientInv'
<1>1. /\ client \in [Conns -> {"idle", "hello", "open", "closed"}]
      /\ \A c \in Conns : sent[c] \in Nat
  BY CountTypes DEF IInv, TypeOK
<1>2. ASSUME UNCHANGED <<session, got, sent>>,
             \A c \in Conns : client'[c] = "closed" => client[c] = "closed"
      PROVE  PatientInv'
  BY <1>2, PatientOthers DEF PatientInv, session
<1>3. CASE Start
  BY <1>2, <1>3 DEF Start
<1>4. ASSUME NEW c \in Conns, Connect(c) PROVE PatientInv'
  <2>1. client' = [client EXCEPT ![c] = "hello"]
    BY <1>4 DEF Connect
  <2> QED BY <1>1, <1>2, <1>4, <2>1 DEF Connect
<1>5. ASSUME NEW c \in Conns, Finish(c) PROVE PatientInv'
  <2>1. client' = [client EXCEPT ![c] = "open"]
    BY <1>5 DEF Finish
  <2> QED BY <1>1, <1>2, <1>5, <2>1 DEF Finish
<1>6. ASSUME NEW c \in Conns, SendData(c) PROVE PatientInv'
  <2> DEFINE most == (Answered(c) + 1) * Records
  <2>0. sent \in [Conns -> 0..Requests * Records]
    BY DEF IInv, TypeOK
  <2>1. /\ client[c] = "open" /\ sent[c] < most /\ sent' = [sent EXCEPT ![c] = sent[c] + 1]
        /\ UNCHANGED <<session, got>>
    BY <1>6 DEF SendData, Answered
  <2>2. UNCHANGED client
    BY <1>6 DEF SendData
  <2>3. sent'[c] = sent[c] + 1 /\ \A d \in Conns \ {c} : sent'[d] = sent[d]
    BY <2>0, <2>1
  <2>4. most \in Nat /\ InOrder(c) /\ Pending(c)
    BY PatientTypes DEF PatientInv
  <2>5. sent'[c] <= most
    <3> HIDE DEF most
    <3> QED BY <1>1, <2>1, <2>3, <2>4
  <2>6. (InOrder(c) /\ Pending(c) /\ SentInTurn(c))'
    BY <2>1, <2>2, <2>4, <2>5 DEF InOrder, Pending, SentInTurn, Answered, session
  <2>7. ASSUME NEW d \in Conns \ {c} PROVE (InOrder(d) /\ Pending(d) /\ SentInTurn(d))'
    BY <2>1, <2>2, <2>3, PatientOthers DEF session
  <2> QED BY <2>6, <2>7 DEF PatientInv
<1>7. ASSUME NEW c \in Conns, Close(c) PROVE PatientInv'
  <2>1. /\ sent[c] < (Answered(c) + 1) * Records /\ client' = [client EXCEPT ![c] = "closed"]
        /\ UNCHANGED <<session, got, sent>>
    BY <1>7 DEF Close, Answered
  <2>2. InOrder(c) /\ Pending(c) /\ SentInTurn(c)
    BY DEF PatientInv
  <2>3. (InOrder(c) /\ Pending(c) /\ SentInTurn(c))'
    BY <2>1, <2>2 DEF InOrder, Pending, SentInTurn, Answered, session
  <2>4. ASSUME NEW d \in Conns \ {c} PROVE (InOrder(d) /\ Pending(d) /\ SentInTurn(d))'
    BY <1>1, <2>1, PatientOthers DEF session
  <2> QED BY <2>3, <2>4 DEF PatientInv
<1>8. ASSUME NEW c \in Conns, Receive(c) PROVE PatientInv'
  <2>1. Received(c) /\ UNCHANGED <<client, sent>>
    BY <1>8, ReceiveReceived DEF Receive
  <2> QED BY <1>2, <2>1, HandlePatient DEF Received
<1>9. CASE UNCHANGED vars
  BY <1>2, <1>9 DEF vars
<1> QED BY <1>3, <1>4, <1>5, <1>6, <1>7, <1>8, <1>9, DeferredPatient DEF Next, ConnStep

\* PatientInv holds before any client connects.
LEMMA InitPatient == Init => PatientInv
<1> SUFFICES ASSUME Init PROVE PatientInv
  OBVIOUS
<1>1. 0 < (0 + 1) * Records
  OBVIOUS
<1> QED BY <1>1 DEF Init, PatientInv, InOrder, Pending, SentInTurn, Answered

\* Clients that come one after the other and stay for their answers: the
\* replies that arrive at a client are, in order, those to its own requests,
\* encrypted in its session, however its packets are filled and whenever its
\* handlers answer.
THEOREM EveryReplyIsTheNext ==
  ASSUME ~Concurrent, Patient
  PROVE  Spec => []RepliesAreInOrder
<1>1. Init => IInv /\ SerialInv /\ PatientInv
  BY InitInv, InitSerial, InitPatient
<1>2. (IInv /\ SerialInv /\ PatientInv) /\ [Next]_vars => (IInv /\ SerialInv /\ PatientInv)'
  BY NextInv, NextSerial, NextPatient
<1>3. IInv /\ PatientInv => RepliesAreInOrder
  <2> SUFFICES ASSUME IInv, PatientInv, NEW c \in Conns, NEW j \in DOMAIN got[c]
               PROVE  got[c][j] = [session |-> c, to |-> <<c, j>>] /\ j <= handed[c]
    BY DEF RepliesAreInOrder
  <2>1. /\ InOrder(c) /\ Pending(c) /\ got[c] \in Seq(Reply)
        /\ Answered(c) \in Nat /\ handed[c] \in Nat
    BY PatientTypes DEF PatientInv
  <2>2. j \in Nat /\ j <= Answered(c)
    BY <2>1 DEF Answered
  <2>3. Answered(c) <= handed[c]
    BY <2>1 DEF Pending
  <2> QED BY <2>1, <2>2, <2>3 DEF InOrder
<1> QED BY <1>1, <1>2, <1>3, PTL DEF Spec

=============================================================================
