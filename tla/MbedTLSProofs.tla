---------------------------- MODULE MbedTLSProofs ----------------------------
(***************************************************************************)
(* Proofs about MbedTLS, for any connections, any number of requests and   *)
(* of records in them.                                                     *)
(***************************************************************************)
EXTENDS MbedTLS, FiniteSetTheorems, FunctionTheorems, SequenceTheorems, TLAPS

USE NoConnAssumption, SizesAssumption

-----------------------------------------------------------------------------
(* Counting data records. *)

DataAt(s) == {i \in DOMAIN s : s[i].kind = "data"}

\* The number of data records in a text is the size of a finite set.
LEMMA DataInType ==
  ASSUME NEW s \in Seq(Record)
  PROVE  IsFiniteSet(DataAt(s)) /\ DataIn(s) \in Nat /\ DataIn(s) = Cardinality(DataAt(s))
<1>1. IsFiniteSet(1..Len(s))
  BY FS_Interval
<1>2. DataAt(s) \in SUBSET (1..Len(s))
  BY DEF DataAt
<1>3. IsFiniteSet(DataAt(s))
  BY <1>1, <1>2, FS_Subset
<1> QED BY <1>3, FS_CardinalityType DEF DataIn, DataAt

\* Data records of two texts, one after the other, add up.
LEMMA DataInConcat ==
  ASSUME NEW s \in Seq(Record), NEW t \in Seq(Record)
  PROVE  DataIn(s \o t) = DataIn(s) + DataIn(t)
<1> DEFINE shifted == {i + Len(s) : i \in DataAt(t)}
           shift == [i \in DataAt(t) |-> i + Len(s)]
<1>1. s \o t \in Seq(Record)
  OBVIOUS
<1>2. /\ IsFiniteSet(DataAt(s)) /\ DataIn(s) = Cardinality(DataAt(s))
      /\ IsFiniteSet(DataAt(t)) /\ DataIn(t) = Cardinality(DataAt(t))
      /\ DataIn(s \o t) = Cardinality(DataAt(s \o t))
  BY <1>1, DataInType
<1>3. DataAt(t) \subseteq Nat /\ Len(s) \in Nat
  BY DEF DataAt
<1>4. shift \in Bijection(DataAt(t), shifted)
  <2>1. shift \in [DataAt(t) -> shifted]
    OBVIOUS
  <2>2. \A i, j \in DataAt(t) : shift[i] = shift[j] => i = j
    BY <1>3
  <2>3. \A k \in shifted : \E i \in DataAt(t) : shift[i] = k
    OBVIOUS
  <2> HIDE DEF shift, shifted
  <2> QED BY <2>1, <2>2, <2>3, Fun_IsBij
<1>5. IsFiniteSet(shifted) /\ Cardinality(shifted) = DataIn(t)
  <2> HIDE DEF shift, shifted
  <2> QED BY <1>2, <1>4, FS_Bijection DEF ExistsBijection
<1>6. DataAt(s \o t) = DataAt(s) \cup shifted
  BY DEF DataAt
<1>7. DataAt(s) \cap shifted = {}
  BY DEF DataAt
<1> HIDE DEF shift, shifted
<1>8. Cardinality(DataAt(s) \cup shifted) = Cardinality(DataAt(s)) + Cardinality(shifted)
  <2>1. Cardinality(DataAt(s)) \in Nat /\ Cardinality(shifted) \in Nat
    BY <1>2, <1>5, FS_CardinalityType
  <2>2. Cardinality(DataAt(s) \cap shifted) = 0
    BY <1>7, FS_EmptySet
  <2>3. Cardinality(DataAt(s) \cup shifted)
          = Cardinality(DataAt(s)) + Cardinality(shifted) - Cardinality(DataAt(s) \cap shifted)
    BY <1>2, <1>5, FS_Union
  <2> QED BY <2>1, <2>2, <2>3
<1> QED BY <1>2, <1>5, <1>6, <1>8

\* The data records of at most two records.
LEMMA DataInShort ==
  /\ DataIn(<<>>) = 0
  /\ \A r : DataIn(<<r>>) = IF r.kind = "data" THEN 1 ELSE 0
  /\ \A r, q : r.kind # "data" /\ q.kind # "data" => DataIn(<<r, q>>) = 0
<1>1. {i \in DOMAIN <<>> : <<>>[i].kind = "data"} = {}
  OBVIOUS
<1>2. ASSUME NEW r, r.kind = "data"
      PROVE  {i \in DOMAIN <<r>> : <<r>>[i].kind = "data"} = {1}
  BY <1>2
<1>3. ASSUME NEW r, r.kind # "data"
      PROVE  {i \in DOMAIN <<r>> : <<r>>[i].kind = "data"} = {}
  BY <1>3
<1>4. ASSUME NEW r, NEW q, r.kind # "data", q.kind # "data"
      PROVE  {i \in DOMAIN <<r, q>> : <<r, q>>[i].kind = "data"} = {}
  BY <1>4
<1>5. DataIn(<<>>) = 0
  BY <1>1, FS_EmptySet DEF DataIn
<1>6. ASSUME NEW r
      PROVE  DataIn(<<r>>) = IF r.kind = "data" THEN 1 ELSE 0
  <2>1. CASE r.kind = "data"
    BY <1>2, <2>1, FS_Singleton DEF DataIn
  <2>2. CASE r.kind # "data"
    BY <1>3, <2>2, FS_EmptySet DEF DataIn
  <2> QED BY <2>1, <2>2
<1>7. ASSUME NEW r, NEW q, r.kind # "data", q.kind # "data"
      PROVE  DataIn(<<r, q>>) = 0
  BY <1>4, <1>7, FS_EmptySet DEF DataIn
<1> QED BY <1>5, <1>6, <1>7

\* A prefix and the rest hold what the whole holds.
LEMMA DataInSplit ==
  ASSUME NEW s \in Seq(Record), NEW n \in 0..Len(s)
  PROVE  /\ SubSeq(s, 1, n) \in Seq(Record) /\ SubSeq(s, n + 1, Len(s)) \in Seq(Record)
         /\ s = SubSeq(s, 1, n) \o SubSeq(s, n + 1, Len(s))
         /\ DataIn(s) = DataIn(SubSeq(s, 1, n)) + DataIn(SubSeq(s, n + 1, Len(s)))
<1>1. SubSeq(s, 1, n) \in Seq(Record) /\ SubSeq(s, n + 1, Len(s)) \in Seq(Record)
  OBVIOUS
<1>2. s = SubSeq(s, 1, n) \o SubSeq(s, n + 1, Len(s))
  <2>1. 1 \in 1..Len(s) + 1 /\ n \in 1 - 1..Len(s) /\ Len(s) \in n..Len(s)
    OBVIOUS
  <2> HIDE DEF Record
  <2>2. SubSeq(s, 1, n) \o SubSeq(s, n + 1, Len(s)) = SubSeq(s, 1, Len(s))
    BY ONLY s \in Seq(Record), <2>1, ConcatAdjacentSubSeq
  <2> QED BY <2>2, SubSeqFull
<1> QED BY <1>1, <1>2, DataInConcat

\* Without its first record a text has one data record less, or as many.
LEMMA DataInTail ==
  ASSUME NEW s \in Seq(Record), s # <<>>
  PROVE  /\ Head(s) \in Record /\ Tail(s) \in Seq(Record) /\ DataIn(Tail(s)) \in Nat
         /\ DataIn(s) = (IF Head(s).kind = "data" THEN 1 ELSE 0) + DataIn(Tail(s))
         /\ DataIn(Tail(s)) <= DataIn(s)
<1>1. Head(s) \in Record /\ Tail(s) \in Seq(Record) /\ <<Head(s)>> \in Seq(Record)
  OBVIOUS
<1>2. s = <<Head(s)>> \o Tail(s)
  OBVIOUS
<1>3. DataIn(s) = DataIn(<<Head(s)>>) + DataIn(Tail(s))
  BY <1>1, <1>2, DataInConcat
<1>4. DataIn(<<Head(s)>>) = IF Head(s).kind = "data" THEN 1 ELSE 0
  BY DataInShort
<1>5. DataIn(Tail(s)) \in Nat
  BY <1>1, DataInType
<1> QED BY <1>1, <1>3, <1>4, <1>5

-----------------------------------------------------------------------------
(* Calls of mbedtls. *)

CallState ==
  [ssl : Context, data : Seq(Record), flights : SUBSET Conns,
   ret : {"run", "error", "ok", "want_read", "data", "close_notify"}]

\* A call of mbedtls_ssl_handshake succeeds only with keys and reads no data.
HandshakeState ==
  {s \in CallState : /\ s.ret \notin {"data", "close_notify"}
                     /\ s.ret = "ok" => s.ssl.phase = "ready"}

\* A context that breaks has its type and no more data than before.
LEMMA BreakType ==
  ASSUME NEW s \in CallState, s.data # <<>>
  PROVE  /\ Break(s) \in HandshakeState /\ Break(s).ret = "error"
         /\ DataIn(Break(s).data) <= DataIn(s.data)
<1>1. Tail(s.data) \in Seq(Record) /\ DataIn(Tail(s.data)) <= DataIn(s.data)
  <2>1. s.data \in Seq(Record)
    BY DEF CallState
  <2> QED BY <2>1, DataInTail
<1>2. [phase |-> "broken", session |-> IF s.ssl.phase = "ready" THEN s.ssl.session ELSE NoConn]
        \in Context
  BY DEF CallState, Context
<1> QED BY <1>1, <1>2 DEF Break, HandshakeState, CallState

\* A step of the handshake keeps the types and makes no data.
LEMMA HandshakeStepType ==
  ASSUME NEW s \in HandshakeState
  PROVE  /\ HandshakeStep(s) \in HandshakeState
         /\ DataIn(HandshakeStep(s).data) <= DataIn(s.data)
<1> DEFINE h == HandshakeStep(s)
<1>1. /\ s \in CallState /\ s.ssl \in Context /\ s.data \in Seq(Record) /\ s.flights \subseteq Conns
      /\ DataIn(s.data) \in Nat
  BY DataInType DEF HandshakeState, CallState
<1>2. CASE s.ret # "run"
  BY <1>1, <1>2 DEF HandshakeStep
<1>3. CASE s.ret = "run" /\ s.ssl.phase = "broken"
  BY <1>1, <1>3 DEF HandshakeStep, HandshakeState, CallState
<1>4. CASE s.ret = "run" /\ s.ssl.phase = "ready"
  BY <1>1, <1>4 DEF HandshakeStep, HandshakeState, CallState
<1>5. CASE s.ret = "run" /\ s.ssl.phase \in {"fresh", "flight"}
  <2>1. CASE s.data = <<>>
    BY <1>1, <1>5, <2>1 DEF HandshakeStep, HandshakeState, CallState
  <2>2. CASE s.data # <<>>
    <3>1. /\ Head(s.data) \in Record /\ Tail(s.data) \in Seq(Record)
          /\ DataIn(Tail(s.data)) <= DataIn(s.data)
      BY <1>1, <2>2, DataInTail
    <3>2. CASE s.ssl.phase = "fresh" /\ Head(s.data).kind = "hello"
      <4>1. h = [s EXCEPT !.ssl = [phase |-> "flight", session |-> Head(s.data).of],
                          !.data = Tail(@), !.flights = @ \cup {Head(s.data).of}]
        BY <1>5, <2>2, <3>2 DEF HandshakeStep
      <4>2. Head(s.data).of \in Conns
        BY <3>1 DEF Record
      <4> DEFINE flight == [phase |-> "flight", session |-> Head(s.data).of]
                 sent_to == s.flights \cup {Head(s.data).of}
      <4>3. flight \in Context /\ sent_to \subseteq Conns
        BY <1>1, <4>2 DEF Context
      <4>4. h = [ssl |-> flight, data |-> Tail(s.data), flights |-> sent_to, ret |-> s.ret]
        BY <1>1, <4>1 DEF CallState
      <4> HIDE DEF h, flight, sent_to
      <4>5. h \in HandshakeState /\ h.data = Tail(s.data)
        BY <1>1, <1>5, <3>1, <4>3, <4>4 DEF HandshakeState, CallState
      <4> QED BY <3>1, <4>5 DEF h
    <3>3. CASE s.ssl.phase = "flight" /\ Head(s.data) = Rec(s.ssl.session, "finished")
      <4>1. h = [s EXCEPT !.ssl.phase = "ready", !.data = Tail(@)]
        BY <1>5, <2>2, <3>3 DEF HandshakeStep
      <4>2. [s.ssl EXCEPT !.phase = "ready"] \in Context
        BY <1>1, <3>3 DEF Context
      <4> DEFINE ready == [s.ssl EXCEPT !.phase = "ready"]
      <4>3. h = [ssl |-> ready, data |-> Tail(s.data), flights |-> s.flights, ret |-> s.ret]
        BY <1>1, <4>1 DEF CallState
      <4> HIDE DEF h, ready
      <4>4. h \in HandshakeState /\ h.data = Tail(s.data)
        BY <1>1, <1>5, <3>1, <4>2, <4>3 DEF HandshakeState, CallState, ready
      <4> QED BY <3>1, <4>4 DEF h
    <3>4. CASE /\ ~(s.ssl.phase = "fresh" /\ Head(s.data).kind = "hello")
               /\ ~(s.ssl.phase = "flight" /\ Head(s.data) = Rec(s.ssl.session, "finished"))
      <4>1. h = Break(s)
        BY <1>5, <2>2, <3>4 DEF HandshakeStep
      <4> QED BY <1>1, <2>2, <4>1, BreakType
    <3> QED BY <3>2, <3>3, <3>4
  <2> QED BY <2>1, <2>2
<1>6. s.ssl.phase \in {"fresh", "flight", "ready", "broken"}
  BY <1>1 DEF Context
<1> QED BY <1>2, <1>3, <1>4, <1>5, <1>6

\* The handshake keeps the types and makes no data.
LEMMA SslHandshakeType ==
  ASSUME NEW s \in HandshakeState
  PROVE  /\ SslHandshake(s) \in HandshakeState
         /\ DataIn(SslHandshake(s).data) <= DataIn(s.data)
<1> DEFINE h1 == HandshakeStep(s)
           h2 == HandshakeStep(h1)
<1>1. h1 \in HandshakeState /\ DataIn(h1.data) <= DataIn(s.data)
  BY HandshakeStepType
<1>2. h2 \in HandshakeState /\ DataIn(h2.data) <= DataIn(h1.data)
  BY <1>1, HandshakeStepType
<1>3. HandshakeStep(h2) \in HandshakeState /\ DataIn(HandshakeStep(h2).data) <= DataIn(h2.data)
  BY <1>2, HandshakeStepType
<1>4. /\ SslHandshake(s) = HandshakeStep(h2)
      /\ {s.data, h1.data, h2.data, HandshakeStep(h2).data} \subseteq Seq(Record)
  BY <1>1, <1>2, <1>3 DEF SslHandshake, HandshakeState, CallState
<1> QED BY <1>1, <1>2, <1>3, <1>4, DataInType

\* A read that gives data has taken a data record, with the keys of a session.
LEMMA SslReadType ==
  ASSUME NEW s \in CallState
  PROVE  /\ SslRead(s) \in CallState
         /\ DataIn(SslRead(s).data) <= DataIn(s.data)
         /\ SslRead(s).ret = "data" =>
              /\ DataIn(SslRead(s).data) + 1 <= DataIn(s.data)
              /\ SslRead(s).ssl.session \in Conns
<1> DEFINE s0 == [s EXCEPT !.ret = "run"]
           h == SslHandshake(s0)
           r == SslRead(s)
<1>1. s0 \in HandshakeState /\ s0.data = s.data
  BY DEF HandshakeState, CallState
<1>2. h \in HandshakeState /\ DataIn(h.data) <= DataIn(s.data)
  BY <1>1, SslHandshakeType
<1>3. /\ h \in CallState /\ h.ret \notin {"data", "close_notify"}
      /\ {h.data, s.data} \subseteq Seq(Record)
      /\ {DataIn(h.data), DataIn(s.data)} \subseteq Nat
  BY <1>2, DataInType DEF HandshakeState, CallState
<1> HIDE DEF h, s0
<1>4. r = IF h.ret # "ok" THEN h
          ELSE IF h.data = <<>> THEN [h EXCEPT !.ret = "want_read"]
          ELSE IF Head(h.data) \in {Rec(h.ssl.session, "data"), Rec(h.ssl.session, "close_notify")}
            THEN [h EXCEPT !.ret = Head(h.data).kind, !.data = Tail(@)]
          ELSE Break(h)
  BY DEF SslRead, h, s0
<1> HIDE DEF r
<1>5. CASE h.ret # "ok"
  <2>1. r = h
    BY <1>4, <1>5
  <2> QED BY <1>2, <1>3, <2>1 DEF r
<1>6. CASE h.ret = "ok" /\ h.data = <<>>
  <2>1. r = [h EXCEPT !.ret = "want_read"]
    BY <1>4, <1>6
  <2>2. r \in CallState /\ r.data = h.data /\ r.ret = "want_read"
    BY <1>3, <2>1 DEF CallState
  <2> QED BY <1>2, <2>2 DEF r
<1>7. CASE /\ h.ret = "ok" /\ h.data # <<>>
           /\ Head(h.data) \in {Rec(h.ssl.session, "data"), Rec(h.ssl.session, "close_notify")}
  <2>1. r = [h EXCEPT !.ret = Head(h.data).kind, !.data = Tail(@)]
    BY <1>4, <1>7
  <2>2. /\ Head(h.data) \in Record /\ Tail(h.data) \in Seq(Record)
        /\ DataIn(Tail(h.data)) \in Nat
        /\ DataIn(h.data) = (IF Head(h.data).kind = "data" THEN 1 ELSE 0) + DataIn(Tail(h.data))
    BY <1>3, <1>7, DataInTail, DataInType
  <2>3. Head(h.data).kind \in {"data", "close_notify"}
    BY <1>7 DEF Rec
  <2>4. r.data = Tail(h.data) /\ r.ret = Head(h.data).kind /\ r.ssl = h.ssl /\ r \in CallState
    BY <1>3, <2>1, <2>2, <2>3 DEF CallState
  <2>5. h.ssl.session \in Conns
    BY <1>2, <1>7 DEF HandshakeState, CallState, Context
  <2> QED BY <1>2, <1>3, <2>2, <2>3, <2>4, <2>5 DEF r
<1>8. CASE /\ h.ret = "ok" /\ h.data # <<>>
           /\ Head(h.data) \notin {Rec(h.ssl.session, "data"), Rec(h.ssl.session, "close_notify")}
  <2>1. r = Break(h)
    BY <1>4, <1>8
  <2>2. r \in HandshakeState /\ r.ret = "error" /\ DataIn(r.data) <= DataIn(h.data)
    BY <1>3, <1>8, <2>1, BreakType
  <2>3. r \in CallState /\ r.data \in Seq(Record) /\ DataIn(r.data) \in Nat
    BY <2>2, DataInType DEF HandshakeState, CallState
  <2> QED BY <1>2, <1>3, <2>2, <2>3 DEF r
<1> QED BY <1>5, <1>6, <1>7, <1>8

\* What a run of mbedtls returns has its types; a record it read is gone.
LEMMA RunMbedTLSType ==
  ASSUME NEW s \in HandshakeState, NEW state
  PROVE  LET r == RunMbedTLS(state, s)
         IN  /\ r.ssl \in Context /\ r.data \in Seq(Record) /\ r.flights \subseteq Conns
             /\ r.state \in {"HANDSHAKE", "READY", "CLOSED"}
             /\ DataIn(r.data) <= DataIn(s.data)
             /\ r.ret = "data" => DataIn(r.data) + 1 <= DataIn(s.data) /\ r.ssl.session \in Conns
<1> DEFINE h == IF state = "HANDSHAKE" THEN SslHandshake(s) ELSE [s EXCEPT !.ret = "ok"]
           q == IF h.ret = "ok" THEN SslRead(h) ELSE h
<1>1. /\ h \in CallState /\ DataIn(h.data) <= DataIn(s.data)
      /\ h.ret = "data" => FALSE
  BY SslHandshakeType, DataInType DEF HandshakeState, CallState
<1> HIDE DEF h
<1>2. {s.data, h.data} \subseteq Seq(Record) /\ DataIn(s.data) \in Nat /\ DataIn(h.data) \in Nat
  BY <1>1, DataInType DEF HandshakeState, CallState
<1>3. /\ q \in CallState /\ DataIn(q.data) <= DataIn(s.data)
      /\ q.ret = "data" => DataIn(q.data) + 1 <= DataIn(s.data) /\ q.ssl.session \in Conns
  <2>1. CASE h.ret = "ok"
    <3>1. SslRead(h) \in CallState /\ DataIn(SslRead(h).data) \in Nat
      BY <1>1, SslReadType, DataInType DEF CallState
    <3> QED BY <1>1, <1>2, <2>1, <3>1, SslReadType
  <2>2. CASE h.ret # "ok"
    BY <1>1, <1>2, <2>2
  <2> QED BY <2>1, <2>2
<1> HIDE DEF q
<1>4. RunMbedTLS(state, s)
        = [ssl |-> q.ssl, data |-> q.data, flights |-> q.flights, ret |-> q.ret,
           state |-> StateAfter(h, q)]
  BY DEF RunMbedTLS, h, q
<1>5. StateAfter(h, q) \in {"HANDSHAKE", "READY", "CLOSED"}
  BY DEF StateAfter
<1> QED BY <1>3, <1>4, <1>5 DEF CallState

-----------------------------------------------------------------------------
(***************************************************************************)
(* Whoever comes when.  No record is there twice, a reply handler is kept  *)
(* or was called, and every call of it finds an m_socket: the assertion of *)
(* send_cb.                                                                *)
(***************************************************************************)
CountInv ==
  \A c \in Conns :
    DataIn(network[c]) + DataIn(conns[c].encrypted_data) + Taken(c) <= sent[c]

KeptInv ==
  \A c \in Conns, k \in 1..Requests : <<c, k>> \in deferred => k <= handed[c]

AnsweredInv ==
  \A d \in Conns : \A j \in DOMAIN got[d] :
    LET to == got[d][j].to
    IN  to[2] <= handed[to[1]] /\ to \notin deferred

OnceInv ==
  \A d, e \in Conns : \A i \in DOMAIN got[d], j \in DOMAIN got[e] :
    got[d][i].to = got[e][j].to => d = e /\ i = j

SocketInv == m_socket = NoConn => deferred = {}

IInv == TypeOK /\ CountInv /\ KeptInv /\ AnsweredInv /\ OnceInv /\ SocketInv

\* Fewer records are fewer requests.
LEMMA TimesRecords ==
  ASSUME NEW a \in Nat, NEW b \in Nat, a * Records <= b * Records
  PROVE  a <= b
<1>1. SUFFICES ASSUME a > b
               PROVE  FALSE
  OBVIOUS
<1>2. PICK d \in Nat : a = b + 1 + d
  <2>1. a - b - 1 \in Nat /\ a = b + 1 + (a - b - 1)
    BY <1>1
  <2> QED BY <2>1
<1>3. a * Records = b * Records + Records + d * Records
  BY <1>2
<1>4. d * Records \in Nat /\ b * Records \in Nat /\ Records > 0
  OBVIOUS
<1> QED BY <1>3, <1>4

\* The invariant holds before any client connects.
LEMMA InitInv == Init => IInv
<1> SUFFICES ASSUME Init PROVE IInv
  OBVIOUS
<1>1. TypeOK
  <2>1. <<>> \in Seq(Record) /\ <<>> \in Seq(Reply) /\ 0 \in 0..Requests * Records
    OBVIOUS
  <2>2. FreshContext \in Context
    BY DEF FreshContext, Context
  <2> QED BY <2>1, <2>2 DEF Init, TypeOK, ConnectionData, SocketState
<1>2. CountInv
  BY DataInShort DEF Init, CountInv, Taken
<1> QED BY <1>1, <1>2 DEF Init, IInv, KeptInv, AnsweredInv, OnceInv, SocketInv

\* What a call of send_cb adds to the replies.
LEMMA ArrivesAdds ==
  ASSUME got \in [Conns -> Seq(Reply)], NEW c \in Conns, NEW reply \in Reply, Arrives(c, reply)
  PROVE  /\ got' \in [Conns -> Seq(Reply)]
         /\ \A d \in Conns : \A j \in DOMAIN got'[d] :
              \/ j \in DOMAIN got[d] /\ got'[d][j] = got[d][j]
              \/ d = c /\ j = Len(got[c]) + 1 /\ got'[d][j] = reply
<1> DEFINE new == IF client[c] = "closed" THEN got[c] ELSE Append(got[c], reply)
<1>1. got[c] \in Seq(Reply) /\ new \in Seq(Reply)
  OBVIOUS
<1>2. \A j \in DOMAIN new : \/ j \in DOMAIN got[c] /\ new[j] = got[c][j]
                            \/ j = Len(got[c]) + 1 /\ new[j] = reply
  BY <1>1
<1>3. got' = [got EXCEPT ![c] = new]
  BY DEF Arrives
<1> HIDE DEF new
<1>4. got' \in [Conns -> Seq(Reply)] /\ got'[c] = new /\ \A d \in Conns \ {c} : got'[d] = got[d]
  BY <1>1, <1>3
<1>5. \A d \in Conns : \A j \in DOMAIN got'[d] :
        \/ j \in DOMAIN got[d] /\ got'[d][j] = got[d][j]
        \/ d = c /\ j = Len(got[c]) + 1 /\ got'[d][j] = reply
  <2> TAKE d \in Conns
  <2>1. CASE d = c
    BY <1>2, <1>4, <2>1
  <2>2. CASE d # c
    BY <1>4, <2>2
  <2> QED BY <2>1, <2>2
<1> QED BY <1>4, <1>5

\* A new reply is to a request that was handed over and is not kept.
LEMMA ArrivesKeepsOnce ==
  ASSUME IInv, NEW c \in Conns, NEW reply \in Reply, Arrives(c, reply),
         handed' \in [Conns -> 0..Requests], \A d \in Conns : handed[d] <= handed'[d],
         deferred' \subseteq deferred,
         reply.to[2] <= handed'[reply.to[1]], reply.to \notin deferred',
         \A d \in Conns : \A j \in DOMAIN got[d] : got[d][j].to # reply.to
  PROVE  AnsweredInv' /\ OnceInv'
<1>1. /\ got' \in [Conns -> Seq(Reply)]
      /\ \A d \in Conns : \A j \in DOMAIN got'[d] :
           \/ j \in DOMAIN got[d] /\ got'[d][j] = got[d][j]
           \/ d = c /\ j = Len(got[c]) + 1 /\ got'[d][j] = reply
  <2>1. got \in [Conns -> Seq(Reply)]
    BY DEF IInv, TypeOK
  <2> QED BY <2>1, ArrivesAdds
<1>2. AnsweredInv'
  <2> SUFFICES ASSUME NEW d \in Conns, NEW j \in DOMAIN got'[d]
               PROVE  /\ got'[d][j].to[2] <= handed'[got'[d][j].to[1]]
                      /\ got'[d][j].to \notin deferred'
    BY DEF AnsweredInv
  <2>1. CASE j \in DOMAIN got[d] /\ got'[d][j] = got[d][j]
    <3>1. /\ got[d][j].to[2] <= handed[got[d][j].to[1]]
          /\ got[d][j].to \notin deferred
      BY <2>1 DEF IInv, AnsweredInv
    <3>2. got[d][j] \in Reply
      BY <2>1 DEF IInv, TypeOK
    <3>3. got[d][j].to[1] \in Conns /\ got[d][j].to[2] \in 1..Requests
      BY <3>2 DEF Reply
    <3>4. handed[got[d][j].to[1]] \in Int /\ handed'[got[d][j].to[1]] \in Int
      <4>1. handed \in [Conns -> 0..Requests] /\ handed' \in [Conns -> 0..Requests]
        BY DEF IInv, TypeOK
      <4> QED BY <3>3, <4>1
    <3> QED BY <2>1, <3>1, <3>3, <3>4
  <2>2. CASE got'[d][j] = reply
    BY <2>2
  <2> QED BY <1>1, <2>1, <2>2
<1>3. OnceInv'
  <2> SUFFICES ASSUME NEW d \in Conns, NEW e \in Conns,
                      NEW i \in DOMAIN got'[d], NEW j \in DOMAIN got'[e],
                      got'[d][i].to = got'[e][j].to
               PROVE  d = e /\ i = j
    BY DEF OnceInv
  <2>1. \/ i \in DOMAIN got[d] /\ got'[d][i] = got[d][i]
        \/ d = c /\ i = Len(got[c]) + 1 /\ got'[d][i] = reply
    BY <1>1
  <2>2. \/ j \in DOMAIN got[e] /\ got'[e][j] = got[e][j]
        \/ e = c /\ j = Len(got[c]) + 1 /\ got'[e][j] = reply
    BY <1>1
  <2> QED BY <2>1, <2>2 DEF IInv, OnceInv
<1> QED BY <1>2, <1>3

\* One more record is taken, and the handler of a complete request answers it
\* or keeps the reply handler.
LEMMA HandleDataInv ==
  ASSUME IInv, NEW c \in Conns, NEW keys \in Conns, HandleData(c, keys), Taken(c) + 1 <= sent[c]
  PROVE  /\ gathered' \in [Conns -> 0..Records - 1]
         /\ handed' \in [Conns -> 0..Requests]
         /\ deferred' \subseteq Conns \X (1..Requests)
         /\ got' \in [Conns -> Seq(Reply)]
         /\ Taken(c)' = Taken(c) + 1
         /\ \A d \in Conns \ {c} : Taken(d)' = Taken(d)
         /\ KeptInv' /\ AnsweredInv' /\ OnceInv'
<1> DEFINE k == handed[c] + 1
           before == handed[c] * Records
           after == k * Records
           most == Requests * Records
<1>b. /\ gathered \in [Conns -> 0..Records - 1] /\ handed \in [Conns -> 0..Requests]
      /\ got \in [Conns -> Seq(Reply)] /\ deferred \subseteq Conns \X (1..Requests)
      /\ sent \in [Conns -> 0..most]
  BY DEF IInv, TypeOK
<1>c. gathered[c] \in 0..Records - 1 /\ handed[c] \in 0..Requests /\ sent[c] \in 0..most
  BY <1>b
<1>d. k \in Nat /\ most \in Int /\ before \in Int
  BY <1>c
<1>e. Taken(c) = before + gathered[c] /\ after = before + Records
  BY <1>c DEF Taken
<1> HIDE DEF before, after, most
<1>0. /\ gathered \in [Conns -> 0..Records - 1] /\ handed \in [Conns -> 0..Requests]
      /\ got \in [Conns -> Seq(Reply)] /\ deferred \subseteq Conns \X (1..Requests)
      /\ gathered[c] \in 0..Records - 1 /\ handed[c] \in 0..Requests
      /\ k \in Nat
  BY <1>b, <1>c, <1>d
<1>a. /\ before \in Int /\ most \in Int /\ sent[c] \in 0..most
      /\ Taken(c) = before + gathered[c] /\ after = before + Records
  BY <1>c, <1>d, <1>e
<1>1. CASE ~Completed(c)
  <2>1. gathered' = [gathered EXCEPT ![c] = @ + 1] /\ UNCHANGED <<handed, deferred, got>>
    BY <1>1 DEF HandleData
  <2>2. gathered[c] + 1 \in 0..Records - 1
    <3>1. gathered[c] + 1 # Records
      BY <1>1 DEF Completed
    <3> QED BY <1>0, <3>1
  <2>3. KeptInv' /\ AnsweredInv' /\ OnceInv'
    BY <2>1 DEF IInv, KeptInv, AnsweredInv, OnceInv
  <2>4. gathered'[c] = gathered[c] + 1 /\ \A d \in Conns \ {c} : gathered'[d] = gathered[d]
    BY <1>0, <2>1
  <2>6. Taken(c)' = Taken(c) + 1 /\ \A d \in Conns \ {c} : Taken(d)' = Taken(d)
    <3>1. Taken(c)' = before + gathered[c] + 1
      BY <1>0, <1>a, <2>1, <2>4 DEF Taken, before
    <3> QED BY <1>0, <1>a, <2>1, <2>4, <3>1 DEF Taken
  <2> QED BY <1>0, <2>1, <2>2, <2>3, <2>6
<1>2. CASE Completed(c)
  <2>1. /\ gathered' = [gathered EXCEPT ![c] = 0] /\ handed' = [handed EXCEPT ![c] = k]
        /\ \/ Arrives(c, [session |-> keys, to |-> <<c, k>>]) /\ UNCHANGED deferred
           \/ deferred' = deferred \cup {<<c, k>>} /\ UNCHANGED got
    BY <1>2 DEF HandleData
  <2>2. gathered[c] + 1 = Records
    BY <1>2 DEF Completed
  <2>3. after = Taken(c) + 1 /\ Taken(c) \in Int
    BY <1>0, <1>a, <2>2
  <2>4. k \in 1..Requests
    <3>1. after <= most
      BY <1>a, <2>3
    <3> QED BY <1>0, <3>1, TimesRecords DEF most, after
  <2>5. /\ handed' \in [Conns -> 0..Requests] /\ handed'[c] = k
        /\ \A d \in Conns \ {c} : handed'[d] = handed[d]
        /\ \A d \in Conns : handed[d] <= handed'[d]
        /\ gathered' \in [Conns -> 0..Records - 1] /\ gathered'[c] = 0
        /\ \A d \in Conns \ {c} : gathered'[d] = gathered[d]
    BY <1>0, <2>1, <2>4
  <2>6. Taken(c)' = Taken(c) + 1 /\ \A d \in Conns \ {c} : Taken(d)' = Taken(d)
    <3>1. Taken(c)' = after
      BY <1>a, <2>5 DEF Taken, after
    <3> QED BY <2>3, <2>5, <3>1 DEF Taken
  <2>7. <<c, k>> \notin deferred
    BY <1>0, <2>4 DEF IInv, KeptInv
  <2>8. ASSUME NEW d \in Conns, NEW j \in DOMAIN got[d]
        PROVE  got[d][j].to # <<c, k>>
    <3>1. got[d][j].to[2] <= handed[got[d][j].to[1]]
      BY DEF IInv, AnsweredInv
    <3> QED BY <1>0, <3>1
  <2>11. \A d \in Conns, i \in 1..Requests : <<d, i>> \in deferred => i <= handed'[d]
    <3> SUFFICES ASSUME NEW d \in Conns, NEW i \in 1..Requests, <<d, i>> \in deferred
                 PROVE  i <= handed'[d]
      OBVIOUS
    <3>1. i <= handed[d] /\ handed[d] <= handed'[d]
      BY <2>5 DEF IInv, KeptInv
    <3>2. i \in Int /\ handed[d] \in Int /\ handed'[d] \in Int
      BY <1>0, <2>5
    <3> QED BY <3>1, <3>2
  <2>9. CASE Arrives(c, [session |-> keys, to |-> <<c, k>>]) /\ UNCHANGED deferred
    <3> DEFINE reply == [session |-> keys, to |-> <<c, k>>]
    <3>1. reply \in Reply /\ reply.to = <<c, k>>
      BY <2>4 DEF Reply
    <3>2. got' \in [Conns -> Seq(Reply)]
      BY <1>0, <2>9, <3>1, ArrivesAdds
    <3>3. AnsweredInv' /\ OnceInv'
      <4> HIDE DEF reply
      <4> QED BY <2>5, <2>7, <2>8, <2>9, <3>1, ArrivesKeepsOnce DEF reply
    <3>4. KeptInv'
      BY <2>9, <2>11 DEF KeptInv
    <3> QED BY <1>0, <2>5, <2>6, <2>9, <3>2, <3>3, <3>4
  <2>10. CASE deferred' = deferred \cup {<<c, k>>} /\ UNCHANGED got
    <3>1. KeptInv'
      <4> SUFFICES ASSUME NEW d \in Conns, NEW i \in 1..Requests, <<d, i>> \in deferred'
                   PROVE  i <= handed'[d]
        BY DEF KeptInv
      <4>1. CASE <<d, i>> \in deferred
        BY <2>11, <4>1
      <4>2. CASE <<d, i>> = <<c, k>>
        BY <2>4, <2>5, <4>2
      <4> QED BY <2>10, <4>1, <4>2
    <3>2. AnsweredInv'
      <4> SUFFICES ASSUME NEW d \in Conns, NEW j \in DOMAIN got[d]
                   PROVE  /\ got[d][j].to[2] <= handed'[got[d][j].to[1]]
                          /\ got[d][j].to \notin deferred'
        BY <2>10 DEF AnsweredInv
      <4>1. got[d][j].to[2] <= handed[got[d][j].to[1]] /\ got[d][j].to \notin deferred
        BY DEF IInv, AnsweredInv
      <4>2. got[d][j] \in Reply
        BY <1>0
      <4>3. got[d][j].to[1] \in Conns /\ got[d][j].to[2] \in 1..Requests
        BY <4>2 DEF Reply
      <4>4. got[d][j].to \notin deferred'
        BY <2>8, <2>10, <4>1
      <4> DEFINE e == got[d][j].to[1]
                 i == got[d][j].to[2]
      <4>5. e \in Conns /\ i \in Int /\ i <= handed[e]
        BY <4>1, <4>3
      <4> HIDE DEF e, i
      <4>6. handed[e] <= handed'[e] /\ handed[e] \in Int /\ handed'[e] \in Int
        BY <1>0, <2>5, <4>5
      <4>7. i <= handed'[e]
        BY <4>5, <4>6
      <4> QED BY <4>4, <4>7 DEF e, i
    <3>3. OnceInv'
      BY <2>10 DEF IInv, OnceInv
    <3>4. deferred' \subseteq Conns \X (1..Requests)
      BY <1>0, <2>4, <2>10
    <3> QED BY <1>0, <2>5, <2>6, <2>10, <3>1, <3>2, <3>3, <3>4
  <2> QED BY <2>1, <2>9, <2>10
<1> QED BY <1>1, <1>2

\* Its records and those before it were sent: nothing that add_encrypted_data
\* does is beyond them.
LEMMA AddInv ==
  ASSUME IInv, NEW c \in Conns, NEW packet \in Seq(Record), AddEncryptedData(c, packet),
         DataIn(conns[c].encrypted_data) + DataIn(packet) + Taken(c) <= sent[c]
  PROVE  /\ conns' \in [Conns -> ConnectionData] /\ ssl' \in Context
         /\ m_socket' \in Conns \cup {NoConn}
         /\ gathered' \in [Conns -> 0..Records - 1]
         /\ handed' \in [Conns -> 0..Requests]
         /\ deferred' \subseteq Conns \X (1..Requests)
         /\ flights' \in [Conns -> SUBSET Conns]
         /\ got' \in [Conns -> Seq(Reply)]
         /\ DataIn(conns'[c].encrypted_data) + Taken(c)'
              <= DataIn(conns[c].encrypted_data) + DataIn(packet) + Taken(c)
         /\ \A d \in Conns \ {c} : conns'[d] = conns[d] /\ Taken(d)' = Taken(d)
         /\ KeptInv' /\ AnsweredInv' /\ OnceInv' /\ SocketInv'
<1> DEFINE state == IF conns[c].state = "NONE" THEN "INITIAL" ELSE conns[c].state
           begun == IF state = "INITIAL" THEN "HANDSHAKE" ELSE state
           call == [ssl |-> ResetContext(state), data |-> Push(c, packet),
                    flights |-> {}, ret |-> "run"]
           s == RunMbedTLS(begun, call)
           most == Requests * Records
<1>1. /\ conns \in [Conns -> ConnectionData] /\ ssl \in Context
      /\ m_socket \in Conns \cup {NoConn} /\ gathered \in [Conns -> 0..Records - 1]
      /\ handed \in [Conns -> 0..Requests] /\ deferred \subseteq Conns \X (1..Requests)
      /\ flights \in [Conns -> SUBSET Conns] /\ got \in [Conns -> Seq(Reply)]
      /\ sent \in [Conns -> 0..most]
  BY DEF IInv, TypeOK
<1> HIDE DEF most
<1>2. conns[c] \in ConnectionData /\ conns[c].encrypted_data \in Seq(Record)
  BY <1>1 DEF ConnectionData
<1>3. /\ DataIn(conns[c].encrypted_data) \in Nat /\ DataIn(packet) \in Nat
      /\ Taken(c) \in Int /\ most \in Int
  <2>1. handed[c] * Records \in Int /\ gathered[c] \in Int /\ most \in Int
    BY <1>1 DEF most
  <2> QED BY <1>2, <2>1, DataInType DEF Taken
<1>4. CASE state = "CLOSED"
  <2>1. UNCHANGED <<conns, ssl, m_socket, session, flights, got>>
    BY <1>4 DEF AddEncryptedData
  <2>2. \A d \in Conns : Taken(d)' = Taken(d)
    BY <2>1 DEF Taken, session
  <2>3. KeptInv' /\ AnsweredInv' /\ OnceInv' /\ SocketInv'
    BY <2>1 DEF IInv, KeptInv, AnsweredInv, OnceInv, SocketInv, session
  <2>4. DataIn(conns'[c].encrypted_data) + Taken(c)'
          <= DataIn(conns[c].encrypted_data) + DataIn(packet) + Taken(c)
    BY <1>3, <2>1, <2>2
  <2>5. /\ conns' = conns /\ ssl' = ssl /\ m_socket' = m_socket /\ gathered' = gathered
        /\ handed' = handed /\ deferred' = deferred /\ flights' = flights /\ got' = got
    BY <2>1 DEF session
  <2> QED BY <1>1, <2>2, <2>3, <2>4, <2>5
<1>5. CASE state # "CLOSED"
  <2>1. /\ ssl' = s.ssl /\ m_socket' = c
        /\ conns' = [conns EXCEPT ![c] = [state |-> s.state, encrypted_data |-> s.data]]
        /\ flights' = [flights EXCEPT ![c] = @ \cup s.flights]
        /\ \/ s.ret = "data" /\ HandleData(c, s.ssl.session)
           \/ s.ret # "data" /\ UNCHANGED <<session, got>>
    BY <1>5 DEF AddEncryptedData
  <2>2. call \in HandshakeState /\ call.data = conns[c].encrypted_data \o packet
    <3>1. ResetContext(state) \in Context
      BY <1>1 DEF ResetContext, FreshContext, Context
    <3>2. Push(c, packet) \in Seq(Record)
      BY <1>2 DEF Push
    <3> HIDE DEF state
    <3> QED BY <3>1, <3>2 DEF HandshakeState, CallState, Push
  <2>3. DataIn(call.data) = DataIn(conns[c].encrypted_data) + DataIn(packet)
    BY <1>2, <2>2, DataInConcat
  <2> HIDE DEF call, begun
  <2>4. /\ s.ssl \in Context /\ s.data \in Seq(Record) /\ s.flights \subseteq Conns
        /\ s.state \in {"HANDSHAKE", "READY", "CLOSED"}
        /\ DataIn(s.data) <= DataIn(call.data)
        /\ s.ret = "data" => DataIn(s.data) + 1 <= DataIn(call.data) /\ s.ssl.session \in Conns
    BY <2>2, RunMbedTLSType
  <2> HIDE DEF s
  <2>5. DataIn(s.data) \in Nat
    BY <2>4, DataInType
  <2>6. /\ conns' \in [Conns -> ConnectionData] /\ ssl' \in Context
        /\ m_socket' \in Conns \cup {NoConn} /\ flights' \in [Conns -> SUBSET Conns]
        /\ conns'[c].encrypted_data = s.data /\ \A d \in Conns \ {c} : conns'[d] = conns[d]
    BY <1>1, <2>1, <2>4 DEF ConnectionData, SocketState
  <2>7. SocketInv'
    BY <2>1, NoConnAssumption DEF SocketInv
  <2>8. CASE s.ret = "data" /\ HandleData(c, s.ssl.session)
    <3>1. Taken(c) + 1 <= sent[c]
      BY <1>1, <1>3, <2>3, <2>4, <2>5, <2>8
    <3>2. s.ssl.session \in Conns
      BY <2>4, <2>8
    <3>3. /\ gathered' \in [Conns -> 0..Records - 1]
          /\ handed' \in [Conns -> 0..Requests]
          /\ deferred' \subseteq Conns \X (1..Requests)
          /\ got' \in [Conns -> Seq(Reply)]
          /\ Taken(c)' = Taken(c) + 1
          /\ \A d \in Conns \ {c} : Taken(d)' = Taken(d)
          /\ KeptInv' /\ AnsweredInv' /\ OnceInv'
      BY <2>8, <3>1, <3>2, HandleDataInv
    <3>4. DataIn(conns'[c].encrypted_data) + Taken(c)'
            <= DataIn(conns[c].encrypted_data) + DataIn(packet) + Taken(c)
      BY <1>3, <2>3, <2>4, <2>5, <2>6, <2>8, <3>3
    <3> QED BY <2>6, <2>7, <3>3, <3>4
  <2>9. CASE s.ret # "data" /\ UNCHANGED <<session, got>>
    <3>1. \A d \in Conns : Taken(d)' = Taken(d)
      BY <2>9 DEF Taken, session
    <3>2. KeptInv' /\ AnsweredInv' /\ OnceInv'
      BY <2>9 DEF IInv, KeptInv, AnsweredInv, OnceInv, session
    <3>3. DataIn(conns'[c].encrypted_data) + Taken(c)'
            <= DataIn(conns[c].encrypted_data) + DataIn(packet) + Taken(c)
      BY <1>3, <2>3, <2>4, <2>5, <2>6, <3>1
    <3> QED BY <1>1, <2>6, <2>7, <2>9, <3>1, <3>2, <3>3 DEF session
  <2> QED BY <2>1, <2>8, <2>9
<1> QED BY <1>4, <1>5

\* What Receive takes from the network and gives to add_encrypted_data: a
\* packet of records, or no bytes at the end of the stream.
LEMMA ReceiveTakes ==
  ASSUME NEW c \in Conns, network[c] \in Seq(Record), Receive(c)
  PROVE  \E packet \in Seq(Record), rest \in Seq(Record) :
           /\ \/ /\ packet # <<>> /\ network[c] = packet \o rest
                 /\ \A i \in DOMAIN packet : packet[i].kind # "eof"
              \/ packet = <<>> /\ \E e \in Record : e.kind = "eof" /\ network[c] = <<e>> \o rest
           /\ DataIn(network[c]) = DataIn(packet) + DataIn(rest)
           /\ AddEncryptedData(c, packet)
           /\ network' = [network EXCEPT ![c] = rest]
<1>1. CASE /\ network[c] # <<>> /\ Head(network[c]).kind = "eof"
           /\ AddEncryptedData(c, <<>>)
           /\ network' = [network EXCEPT ![c] = Tail(@)]
  <2>1. /\ Tail(network[c]) \in Seq(Record) /\ <<>> \in Seq(Record) /\ Head(network[c]) \in Record
        /\ network[c] = <<Head(network[c])>> \o Tail(network[c])
    BY <1>1
  <2>2. DataIn(network[c]) = DataIn(<<>>) + DataIn(Tail(network[c]))
    BY <1>1, DataInTail, DataInShort
  <2>3. network' = [network EXCEPT ![c] = Tail(network[c])]
    BY <1>1
  <2> QED BY <1>1, <2>1, <2>2, <2>3
<1>2. ASSUME NEW n \in 1..(IF Glue THEN Len(network[c]) ELSE 1),
             n <= Len(network[c]),
             \A i \in 1..n : network[c][i].kind # "eof",
             AddEncryptedData(c, SubSeq(network[c], 1, n)),
             network' = [network EXCEPT ![c] = SubSeq(@, n + 1, Len(@))]
      PROVE  \E packet \in Seq(Record), rest \in Seq(Record) :
               /\ packet # <<>> /\ network[c] = packet \o rest
               /\ \A i \in DOMAIN packet : packet[i].kind # "eof"
               /\ DataIn(network[c]) = DataIn(packet) + DataIn(rest)
               /\ AddEncryptedData(c, packet)
               /\ network' = [network EXCEPT ![c] = rest]
  <2> DEFINE packet == SubSeq(network[c], 1, n)
             rest == SubSeq(network[c], n + 1, Len(network[c]))
  <2>1. n \in 1..Len(network[c]) /\ n \in 0..Len(network[c])
    BY <1>2
  <2>2. /\ packet \in Seq(Record) /\ rest \in Seq(Record)
        /\ network[c] = packet \o rest
        /\ DataIn(network[c]) = DataIn(packet) + DataIn(rest)
    BY <2>1, DataInSplit
  <2>3. packet # <<>> /\ \A i \in DOMAIN packet : packet[i].kind # "eof"
    BY <1>2, <2>1
  <2>4. network' = [network EXCEPT ![c] = rest]
    BY <1>2
  <2> HIDE DEF packet, rest
  <2>5. AddEncryptedData(c, packet)
    BY <1>2 DEF packet
  <2> QED BY <2>2, <2>3, <2>4, <2>5
<1>3. CASE \E n \in 1..(IF Glue THEN Len(network[c]) ELSE 1) :
             /\ n <= Len(network[c])
             /\ \A i \in 1..n : network[c][i].kind # "eof"
             /\ AddEncryptedData(c, SubSeq(network[c], 1, n))
             /\ network' = [network EXCEPT ![c] = SubSeq(@, n + 1, Len(@))]
  BY <1>2, <1>3
<1> QED BY <1>1, <1>3 DEF Receive

\* A packet keeps the invariant, whoever it is from.
LEMMA ReceiveInv ==
  ASSUME IInv, NEW c \in Conns, Receive(c)
  PROVE  IInv'
<1>1. PICK packet \in Seq(Record), rest \in Seq(Record) :
        /\ DataIn(network[c]) = DataIn(packet) + DataIn(rest)
        /\ AddEncryptedData(c, packet)
        /\ network' = [network EXCEPT ![c] = rest]
  <2>1. network[c] \in Seq(Record)
    BY DEF IInv, TypeOK
  <2> QED BY <2>1, ReceiveTakes
<1>2. UNCHANGED <<server, client, sent>>
  BY DEF Receive
<1> DEFINE enc == DataIn(conns[c].encrypted_data)
           rst == DataIn(rest)
           pkt == DataIn(packet)
           tak == Taken(c)
           most == Requests * Records
<1>3. /\ conns \in [Conns -> ConnectionData] /\ network \in [Conns -> Seq(Record)]
      /\ sent \in [Conns -> 0..most]
      /\ handed \in [Conns -> 0..Requests] /\ gathered \in [Conns -> 0..Records - 1]
      /\ server \in {"new", "listening", "failed"}
      /\ client \in [Conns -> {"idle", "hello", "open", "closed"}]
  BY DEF IInv, TypeOK
<1> HIDE DEF most
<1>4. rst \in Nat /\ pkt \in Nat /\ enc \in Nat /\ tak \in Int /\ sent[c] \in Int
  <2>1. handed[c] * Records \in Int /\ gathered[c] \in Int /\ most \in Int
    BY <1>3 DEF most
  <2>2. conns[c].encrypted_data \in Seq(Record) /\ sent[c] \in Int
    BY <1>3, <2>1 DEF ConnectionData
  <2> QED BY <2>1, <2>2, DataInType DEF Taken
<1>5. pkt + rst + enc + tak <= sent[c]
  BY <1>1 DEF IInv, CountInv
<1>6. enc + pkt + tak <= sent[c]
  <2> HIDE DEF enc, rst, pkt, tak
  <2> QED BY <1>4, <1>5
<1>7. /\ conns' \in [Conns -> ConnectionData] /\ ssl' \in Context
      /\ m_socket' \in Conns \cup {NoConn}
      /\ gathered' \in [Conns -> 0..Records - 1]
      /\ handed' \in [Conns -> 0..Requests]
      /\ deferred' \subseteq Conns \X (1..Requests)
      /\ flights' \in [Conns -> SUBSET Conns]
      /\ got' \in [Conns -> Seq(Reply)]
      /\ DataIn(conns'[c].encrypted_data) + Taken(c)' <= enc + pkt + tak
      /\ \A d \in Conns \ {c} : conns'[d] = conns[d] /\ Taken(d)' = Taken(d)
      /\ KeptInv' /\ AnsweredInv' /\ OnceInv' /\ SocketInv'
  BY <1>1, <1>6, AddInv
<1>8. /\ network' \in [Conns -> Seq(Record)] /\ network'[c] = rest
      /\ \A d \in Conns \ {c} : network'[d] = network[d]
  BY <1>1, <1>3
<1>9. TypeOK'
  BY <1>2, <1>3, <1>7, <1>8 DEF TypeOK, most
<1>10. CountInv'
  <2> SUFFICES ASSUME NEW d \in Conns
               PROVE  DataIn(network'[d]) + DataIn(conns'[d].encrypted_data) + Taken(d)' <= sent[d]
    BY <1>2 DEF CountInv
  <2>1. CASE d = c
    <3> DEFINE enc2 == DataIn(conns'[c].encrypted_data)
               tak2 == Taken(c)'
    <3>1. enc2 \in Nat /\ tak2 \in Int
      <4>1. handed'[c] * Records \in Int /\ gathered'[c] \in Int
        BY <1>7
      <4>2. conns'[c].encrypted_data \in Seq(Record)
        BY <1>7 DEF ConnectionData
      <4> QED BY <4>1, <4>2, DataInType DEF Taken
    <3>2. enc2 + tak2 <= enc + pkt + tak
      BY <1>7
    <3>3. rst + enc2 + tak2 <= sent[c]
      <4> HIDE DEF enc, rst, pkt, tak, enc2, tak2
      <4> QED BY <1>4, <1>5, <3>1, <3>2
    <3> QED BY <1>8, <2>1, <3>3
  <2>2. CASE d # c
    BY <1>7, <1>8, <2>2 DEF IInv, CountInv
  <2> QED BY <2>1, <2>2
<1> QED BY <1>7, <1>9, <1>10 DEF IInv

\* A client that puts records on the way, sent' counting the data among them.
LEMMA SendInv ==
  ASSUME IInv, NEW c \in Conns, NEW records \in Seq(Record), Send(c, records),
         client' \in [Conns -> {"idle", "hello", "open", "closed"}],
         sent' \in [Conns -> 0..Requests * Records],
         sent'[c] = sent[c] + DataIn(records),
         \A d \in Conns \ {c} : sent'[d] = sent[d],
         UNCHANGED <<server, conns, ssl, m_socket, session, flights, got>>
  PROVE  IInv'
<1> DEFINE most == Requests * Records
<1>1. /\ network \in [Conns -> Seq(Record)] /\ sent \in [Conns -> 0..most]
      /\ conns \in [Conns -> ConnectionData]
      /\ handed \in [Conns -> 0..Requests] /\ gathered \in [Conns -> 0..Records - 1]
      /\ sent' \in [Conns -> 0..most]
  BY DEF IInv, TypeOK
<1>2. most \in Int
  OBVIOUS
<1> HIDE DEF most
<1>3. network' = [network EXCEPT ![c] = network[c] \o records]
  BY DEF Send
<1>4. /\ network' \in [Conns -> Seq(Record)] /\ network'[c] = network[c] \o records
      /\ \A d \in Conns \ {c} : network'[d] = network[d]
  BY <1>1, <1>3
<1>5. TypeOK'
  BY <1>4 DEF IInv, TypeOK, session
<1>6. CountInv'
  <2> SUFFICES ASSUME NEW d \in Conns
               PROVE  DataIn(network'[d]) + DataIn(conns[d].encrypted_data) + Taken(d) <= sent'[d]
    BY DEF CountInv, Taken, session
  <2>1. DataIn(network[d]) + DataIn(conns[d].encrypted_data) + Taken(d) <= sent[d]
    BY DEF IInv, CountInv
  <2>2. CASE d = c
    <3>1. DataIn(network'[c]) = DataIn(network[c]) + DataIn(records)
      BY <1>1, <1>4, DataInConcat
    <3>2. handed[c] * Records \in Int /\ gathered[c] \in Int /\ sent[c] \in Int
      BY <1>1, <1>2
    <3>3. conns[c].encrypted_data \in Seq(Record)
      BY <1>1 DEF ConnectionData
    <3>4. /\ DataIn(conns[c].encrypted_data) \in Nat /\ DataIn(network[c]) \in Nat
          /\ DataIn(records) \in Nat /\ Taken(c) \in Int
      <4>1. network[c] \in Seq(Record)
        BY <1>1
      <4>2. Taken(c) \in Int
        BY <3>2 DEF Taken
      <4> QED BY <3>3, <4>1, <4>2, DataInType
    <3> QED BY <2>1, <2>2, <3>1, <3>2, <3>4
  <2>3. CASE d # c
    BY <1>4, <2>1, <2>3
  <2> QED BY <2>2, <2>3
<1> QED BY <1>5, <1>6 DEF IInv, KeptInv, AnsweredInv, OnceInv, SocketInv, session

\* What a client sends are records.
LEMMA RecType ==
  ASSUME NEW c \in Conns, NEW kind \in {"hello", "finished", "data", "close_notify", "eof"}
  PROVE  Rec(c, kind) \in Record /\ Rec(c, kind).kind = kind
BY DEF Rec, Record

\* A kept reply handler is called: its reply arrives, somewhere, or does not.
LEMMA DeferredReplyInv ==
  ASSUME IInv, NEW c \in Conns, NEW k \in 1..Requests, DeferredReply(c, k)
  PROVE  IInv'
<1> DEFINE reply == [session |-> ssl.session, to |-> <<c, k>>]
<1>1. /\ <<c, k>> \in deferred /\ deferred' = deferred \ {<<c, k>>}
      /\ UNCHANGED <<server, client, sent, network, conns, ssl, m_socket, gathered, handed, flights>>
  BY DEF DeferredReply
<1>2. /\ handed \in [Conns -> 0..Requests] /\ deferred \subseteq Conns \X (1..Requests)
      /\ got \in [Conns -> Seq(Reply)] /\ ssl \in Context /\ m_socket \in Conns
  BY <1>1 DEF IInv, TypeOK, SocketInv
<1>3. got' \in [Conns -> Seq(Reply)] /\ AnsweredInv' /\ OnceInv'
  <2>1. CASE ssl.session # NoConn /\ Arrives(m_socket, reply)
    <3>1. reply \in Reply
      BY <1>2, <2>1 DEF Reply, Context
    <3>2. reply.to = <<c, k>>
      OBVIOUS
    <3> HIDE DEF reply
    <3>3. k <= handed'[c] /\ \A d \in Conns : handed[d] <= handed'[d]
      BY <1>1, <1>2 DEF IInv, KeptInv
    <3>4. \A d \in Conns : \A j \in DOMAIN got[d] : got[d][j].to # reply.to
      BY <1>1, <3>2 DEF IInv, AnsweredInv
    <3>5. reply.to[2] <= handed'[reply.to[1]] /\ reply.to \notin deferred' /\ deferred' \subseteq deferred
      BY <1>1, <3>2, <3>3
    <3>6. got' \in [Conns -> Seq(Reply)]
      BY <1>2, <2>1, <3>1, ArrivesAdds
    <3> QED BY <1>1, <1>2, <2>1, <3>1, <3>3, <3>4, <3>5, <3>6, ArrivesKeepsOnce
  <2>2. CASE UNCHANGED got
    BY <1>1, <1>2, <2>2 DEF IInv, AnsweredInv, OnceInv
  <2> QED BY <2>1, <2>2 DEF DeferredReply
<1>4. TypeOK'
  BY <1>1, <1>3 DEF IInv, TypeOK
<1>5. CountInv'
  BY <1>1 DEF IInv, CountInv, Taken
<1>6. KeptInv' /\ SocketInv'
  BY <1>1 DEF IInv, KeptInv, SocketInv
<1> QED BY <1>3, <1>4, <1>5, <1>6 DEF IInv

\* Every step keeps the invariant.
LEMMA NextInv == IInv /\ [Next]_vars => IInv'
<1> SUFFICES ASSUME IInv, [Next]_vars PROVE IInv'
  OBVIOUS
<1>0. /\ client \in [Conns -> {"idle", "hello", "open", "closed"}]
      /\ sent \in [Conns -> 0..Requests * Records]
  BY DEF IInv, TypeOK
<1>1. CASE Start
  BY <1>1 DEF Start, session, IInv, TypeOK, CountInv, Taken, KeptInv, AnsweredInv, OnceInv, SocketInv
<1>2. ASSUME NEW c \in Conns, Connect(c) PROVE IInv'
  <2>1. <<Rec(c, "hello")>> \in Seq(Record) /\ DataIn(<<Rec(c, "hello")>>) = 0
    BY RecType, DataInShort
  <2>2. client' \in [Conns -> {"idle", "hello", "open", "closed"}]
    BY <1>0, <1>2 DEF Connect
  <2>3. sent[c] + 0 = sent[c]
    BY <1>0
  <2> QED BY <1>0, <1>2, <2>1, <2>2, <2>3, SendInv DEF Connect
<1>3. ASSUME NEW c \in Conns, Finish(c) PROVE IInv'
  <2>1. <<Rec(c, "finished")>> \in Seq(Record) /\ DataIn(<<Rec(c, "finished")>>) = 0
    BY RecType, DataInShort
  <2>2. client' \in [Conns -> {"idle", "hello", "open", "closed"}]
    BY <1>0, <1>3 DEF Finish
  <2>3. sent[c] + 0 = sent[c]
    BY <1>0
  <2> QED BY <1>0, <1>3, <2>1, <2>2, <2>3, SendInv DEF Finish
<1>4. ASSUME NEW c \in Conns, SendData(c) PROVE IInv'
  <2>1. <<Rec(c, "data")>> \in Seq(Record) /\ DataIn(<<Rec(c, "data")>>) = 1
    BY RecType, DataInShort
  <2>2. /\ sent' \in [Conns -> 0..Requests * Records] /\ sent'[c] = sent[c] + 1
        /\ \A d \in Conns \ {c} : sent'[d] = sent[d]
    <3> DEFINE most == Requests * Records
    <3>1. most \in Int
      OBVIOUS
    <3>2. sent \in [Conns -> 0..most] /\ sent[c] < most /\ sent' = [sent EXCEPT ![c] = @ + 1]
      BY <1>0, <1>4 DEF SendData
    <3> HIDE DEF most
    <3>3. sent' \in [Conns -> 0..most] /\ sent'[c] = sent[c] + 1
          /\ \A d \in Conns \ {c} : sent'[d] = sent[d]
      BY <3>1, <3>2
    <3> QED BY <3>3 DEF most
  <2> QED BY <1>0, <1>4, <2>1, <2>2, SendInv DEF SendData
<1>5. ASSUME NEW c \in Conns, Close(c) PROVE IInv'
  <2>1. client' \in [Conns -> {"idle", "hello", "open", "closed"}]
    BY <1>0, <1>5 DEF Close
  <2>2. sent[c] + 0 = sent[c]
    BY <1>0
  <2>3. CASE Send(c, <<Rec(c, "close_notify"), Rec(c, "eof")>>)
    <3>1. /\ <<Rec(c, "close_notify"), Rec(c, "eof")>> \in Seq(Record)
          /\ DataIn(<<Rec(c, "close_notify"), Rec(c, "eof")>>) = 0
      BY RecType, DataInShort
    <3> QED BY <1>0, <1>5, <2>1, <2>2, <2>3, <3>1, SendInv DEF Close
  <2>4. CASE Send(c, <<Rec(c, "eof")>>)
    <3>1. <<Rec(c, "eof")>> \in Seq(Record) /\ DataIn(<<Rec(c, "eof")>>) = 0
      BY RecType, DataInShort
    <3> QED BY <1>0, <1>5, <2>1, <2>2, <2>4, <3>1, SendInv DEF Close
  <2> QED BY <1>5, <2>3, <2>4 DEF Close
<1>6. CASE UNCHANGED vars
  <2>1. /\ UNCHANGED <<server, client, sent, network, conns, ssl>>
        /\ UNCHANGED <<m_socket, gathered, handed, deferred, flights, got>>
    BY <1>6 DEF vars, session
  <2>2. TypeOK'
    BY <2>1 DEF IInv, TypeOK
  <2>3. CountInv'
    BY <2>1 DEF IInv, CountInv, Taken
  <2>4. KeptInv' /\ AnsweredInv' /\ OnceInv' /\ SocketInv'
    BY <2>1 DEF IInv, KeptInv, AnsweredInv, OnceInv, SocketInv
  <2> QED BY <2>2, <2>3, <2>4 DEF IInv
<1> QED BY <1>1, <1>2, <1>3, <1>4, <1>5, <1>6, ReceiveInv, DeferredReplyInv DEF Next, ConnStep

\* The invariant holds in every reachable state.
LEMMA Invariance == Spec => []IInv
BY InitInv, NextInv, PTL DEF Spec

\* The shape of the state: no call leaves the context half set up, and a
\* request that is handed over is one that its client sent.
THEOREM TypeCorrect == Spec => []TypeOK
BY Invariance, PTL DEF IInv

\* At most one reply to a request, wherever it arrived.
LEMMA AtMostOneAnswer ==
  ASSUME IInv, NEW c \in Conns, NEW k \in 1..Requests
  PROVE  /\ Cardinality(AnswersTo(c, k)) <= (IF <<c, k>> \in deferred THEN 0 ELSE 1)
         /\ AnswersTo(c, k) # {} \/ <<c, k>> \in deferred => k <= handed[c]
<1>1. \A a \in AnswersTo(c, k) :
        \E d \in Conns : \E j \in DOMAIN got[d] : a = <<d, j>> /\ got[d][j].to = <<c, k>>
  BY DEF AnswersTo
<1>2. \A a, b \in AnswersTo(c, k) : a = b
  BY <1>1 DEF IInv, OnceInv
<1>3. \A a \in AnswersTo(c, k) : k <= handed[c] /\ <<c, k>> \notin deferred
  BY <1>1 DEF IInv, AnsweredInv
<1>4. <<c, k>> \in deferred => k <= handed[c]
  BY DEF IInv, KeptInv
<1>5. CASE AnswersTo(c, k) = {}
  BY <1>4, <1>5, FS_EmptySet
<1>6. CASE AnswersTo(c, k) # {}
  <2>1. PICK a : AnswersTo(c, k) = {a}
    BY <1>2, <1>6
  <2>2. Cardinality(AnswersTo(c, k)) = 1
    BY <2>1, FS_Singleton
  <2> QED BY <1>3, <1>6, <2>2
<1> QED BY <1>5, <1>6

\* Whoever comes when, and whatever packets hold: no record and no request is
\* there twice, and a request that was handed over is answered at most once,
\* on whatever connection that is, and not before it was handed over.
THEOREM NeverTwice == Spec => []NothingTwice
<1>1. IInv => NothingTwice
  BY AtMostOneAnswer DEF NothingTwice, IInv, CountInv
<1> QED BY <1>1, Invariance, PTL

=============================================================================
