-------------------------- MODULE HttpServerProofs --------------------------
(***************************************************************************)
(* Proofs about HttpServer, for any connections, any streams of tokens and *)
(* any way TCP cuts them.                                                  *)
(*                                                                         *)
(* The argument: the data of a connection's session is always the stretch  *)
(* of its stream between the last dispatch and what has been received, as  *)
(* long as no other connection uses the same session; a packet extends     *)
(* that stretch at its end and a dispatch makes it empty.                  *)
(***************************************************************************)
EXTENDS HttpServer, WellFoundedInduction, SequenceTheorems, TLAPS

USE PortOfAssumption, StreamAssumption, EndsAssumption

-----------------------------------------------------------------------------
(* The parser's operators return what they should. *)

\* Least returns a least element.
LEMMA LeastProperties ==
  ASSUME NEW S \in SUBSET Nat, S # {}
  PROVE  Least(S) \in S /\ \A j \in S : Least(S) <= j
<1> DEFINE R == OpToRel(<, Nat)
<1>1. PICK i \in S : \A j \in S : ~ (<<j, i>> \in R)
  <2> HIDE DEF R
  <2>1. IsWellFoundedOn(R, Nat)
    BY NatLessThanWellFounded DEF R
  <2> QED BY <2>1, WFMin
<1>2. ASSUME NEW j \in S
      PROVE  i <= j
  <2>1. R = {ss \in Nat \X Nat : ss[1] < ss[2]}
    BY DEF OpToRel
  <2>2. <<j, i>> \in Nat \X Nat /\ i \in Nat /\ j \in Nat
    OBVIOUS
  <2>3. ~(j < i)
    <3> HIDE DEF R
    <3> QED BY <1>1, <2>1, <2>2
  <2> QED BY <2>2, <2>3
<1> QED BY <1>2 DEF Least

\* Greatest returns a greatest element.
LEMMA GreatestProperties ==
  ASSUME NEW n \in Nat, NEW S \in SUBSET (1..n), S # {}
  PROVE  Greatest(S) \in S /\ \A j \in S : j <= Greatest(S)
<1> DEFINE M == {n - i : i \in S}
<1>1. M \in SUBSET Nat /\ M # {}
  <2>1. \A i \in S : i \in Nat /\ n - i \in Nat
    OBVIOUS
  <2>2. M \in SUBSET Nat
    BY <2>1
  <2> QED BY <2>2
<1>2. Least(M) \in M /\ \A m \in M : Least(M) <= m
  <2> HIDE DEF M
  <2> QED BY <1>1, LeastProperties
<1>3. PICK i \in S : Least(M) = n - i
  BY <1>2
<1>4. \A j \in S : n - i <= n - j
  BY <1>2, <1>3
<1>5. \A j \in S : j <= i
  BY <1>4
<1> QED BY <1>5 DEF Greatest

\* A part of a text is a text.
LEMMA TextType ==
  ASSUME NEW d \in Seq(Token), NEW I \in SUBSET DOMAIN d
  PROVE  Text(d, I) \in Seq(Token)
<1>1. CASE I = {}
  BY <1>1 DEF Text
<1>2. CASE I # {}
  <2>1. Len(d) \in Nat /\ I \in SUBSET (1..Len(d)) /\ I \in SUBSET Nat
    OBVIOUS
  <2>2. Least(I) \in 1..Len(d) /\ Greatest(I) \in 1..Len(d)
    BY <1>2, <2>1, LeastProperties, GreatestProperties
  <2>3. SubSeq(d, Least(I), Greatest(I)) \in Seq(Token)
    BY <2>2, SubSeqProperties
  <2> QED BY <1>2, <2>3 DEF Text
<1> QED BY <1>1, <1>2

\* The endpoint of a request is a text.
LEMMA EndpointType ==
  ASSUME NEW d \in Seq(Token)
  PROVE  Endpoint(d) \in Seq(Token)
BY TextType DEF Endpoint, Word, FirstLine

\* The payload of a request is a text.
LEMMA PayloadType ==
  ASSUME NEW d \in Seq(Token)
  PROVE  Payload(d) \in Seq(Token)
<1>1. CASE HeaderEnds(d) = {}
  BY <1>1 DEF Payload
<1>2. CASE HeaderEnds(d) # {}
  <2>1. HeaderEnds(d) \in SUBSET Nat /\ HeaderEnds(d) \in SUBSET (1..Len(d))
    BY DEF HeaderEnds
  <2>2. HeaderSize(d) \in 1..Len(d)
    BY <1>2, <2>1, LeastProperties DEF HeaderSize
  <2>3. SubSeq(d, HeaderSize(d) + 1, Len(d)) \in Seq(Token)
    BY <2>2, SubSeqProperties
  <2> QED BY <1>2, <2>3 DEF Payload
<1> QED BY <1>1, <1>2

\* A length that is read is a number, refused or absent.
LEMMA ParsedLengthType ==
  ASSUME NEW d \in Seq(Token), NEW clen \in Nat \cup {Absent, Refused}
  PROVE  ParsedLength(clen, d) \in Nat \cup {Absent, Refused}
<1>1. \A j \in DOMAIN d : d[j].num \in Nat \cup {Refused}
  <2>1. \A j \in DOMAIN d : d[j] \in Token
    OBVIOUS
  <2>2. \A t \in Token : t.num \in Nat \cup {Refused}
    BY DEF Token, TokenOf
  <2> QED BY <2>1, <2>2
<1>2. \A i \in Nat : LengthAt(d, i) \in Nat \cup {Refused}
  BY <1>1 DEF LengthAt, IsKind
<1>3. CASE clen = Absent /\ ClenLines(d) # {}
  <2>1. ClenLines(d) \in SUBSET Nat
    BY DEF ClenLines
  <2>2. Least(ClenLines(d)) \in Nat
    BY <1>3, <2>1, LeastProperties
  <2> QED BY <1>2, <1>3, <2>2 DEF ParsedLength
<1> QED BY <1>3 DEF ParsedLength

\* A session that gathers a packet is a session with its bytes at the end.
LEMMA GatheredType ==
  ASSUME NEW old \in Session, NEW packet \in Seq(Token), packet # <<>>
  PROVE  /\ Gathered(old, packet) \in Session
         /\ Gathered(old, packet).data = old.data \o packet
         /\ Gathered(old, packet).data # <<>>
<1> DEFINE d == old.data \o packet
           n == ParsedLength(old.clen, d)
<1>1. old.data \in Seq(Token) /\ old.clen \in Nat \cup {Absent, Refused}
  BY DEF Session
<1>2. d \in Seq(Token) /\ d # <<>>
  BY <1>1
<1>3. n \in Nat \cup {Absent, Refused}
  <2> HIDE DEF d
  <2> QED BY <1>1, <1>2, ParsedLengthType
<1>4. Gathered(old, packet) = [data |-> d, clen |-> n]
  BY DEF Gathered
<1> HIDE DEF d, n
<1>5. [data |-> d, clen |-> n] \in Session
  BY <1>2, <1>3 DEF Session
<1>6. Gathered(old, packet).data = d
  BY <1>4
<1>7. d = old.data \o packet
  BY DEF d
<1> QED BY <1>2, <1>4, <1>5, <1>6, <1>7

\* A port without a session has nothing gathered.
LEMMA NoSessionType == NoSession \in Session /\ NoSession.data = <<>>
BY DEF NoSession, NewSession, Session

\* A packet that may arrive is the next stretch of what was sent.
LEMMA PacketProperties ==
  ASSUME TypeOK, NEW c \in Conns, NEW packet \in Packets(c)
  PROVE  \E last \in received[c] + 1 .. Len(Stream[c]) :
           /\ last <= SentUpTo(c)
           /\ packet = SubSeq(Stream[c], received[c] + 1, last)
           /\ packet \in Seq(Token)
           /\ packet # <<>>
           /\ received[c] + Len(packet) = last
<1>1. /\ received[c] \in Nat
      /\ Stream[c] \in Seq(Token)
  BY DEF TypeOK
<1>2. SentUpTo(c) \in 0..Len(Stream[c])
  BY DEF TypeOK, SentUpTo
<1>3. PICK last \in received[c] + 1 .. SentUpTo(c) :
         packet = SubSeq(Stream[c], received[c] + 1, last)
  BY DEF Packets
<1>4. last \in received[c] + 1 .. Len(Stream[c])
  BY <1>1, <1>2, <1>3
<1>5. packet \in Seq(Token) /\ Len(packet) = last - received[c]
  BY <1>1, <1>3, <1>4, SubSeqProperties
<1>6. packet # <<>> /\ received[c] + Len(packet) = last
  BY <1>1, <1>4, <1>5
<1>7. last <= SentUpTo(c)
  BY <1>1, <1>2, <1>3
<1> QED BY <1>3, <1>4, <1>5, <1>6, <1>7

-----------------------------------------------------------------------------
(* Type correctness. *)

\* What a client has sent ends before the end of its next request.
LEMMA SentUpToGrows ==
  ASSUME TypeOK, NEW c \in Conns, sent[c] < Len(Ends[c])
  PROVE  SentUpTo(c) <= Ends[c][sent[c] + 1]
<1>1. sent[c] \in Nat /\ Ends[c] \in Seq(1..Len(Stream[c])) /\ Stream[c] \in Seq(Token)
  BY DEF TypeOK
<1>2. Ends[c][sent[c] + 1] \in 1..Len(Stream[c])
  BY <1>1
<1>3. CASE sent[c] = 0
  BY <1>2, <1>3 DEF SentUpTo
<1>4. CASE sent[c] # 0
  <2>1. sent[c] \in 1..Len(Ends[c]) /\ sent[c] + 1 \in 1..Len(Ends[c]) /\ sent[c] < sent[c] + 1
    BY <1>1, <1>4
  <2>2. Ends[c][sent[c]] < Ends[c][sent[c] + 1]
    BY <2>1
  <2>3. Ends[c][sent[c]] \in Nat
    BY <1>1, <2>1
  <2> QED BY <1>2, <1>4, <2>2, <2>3 DEF SentUpTo
<1> QED BY <1>3, <1>4

\* What handle_endpoint does to the dispatches and the replies.
LEMMA HandleEndpointType ==
  ASSUME TypeOK, NEW c \in Conns, NEW d \in Seq(Token), HandleEndpoint(c, d),
         received'[c] \in Nat
  PROVE  /\ dispatched' \in [Conns -> Seq(Dispatch)]
         /\ deferred' \subseteq Conns \X (Nat \ {0})
         /\ replies' \in [Conns -> Seq(Reply)]
<1> DEFINE e == [endpoint |-> Endpoint(d), payload |-> Payload(d),
                 data |-> d, upto |-> received'[c]]
           i == Len(dispatched[c]) + 1
<1>1. e \in Dispatch
  BY EndpointType, PayloadType DEF Dispatch
<1>2. dispatched' = [dispatched EXCEPT ![c] = Append(@, e)]
  BY DEF HandleEndpoint
<1>3. i \in Nat \ {0}
  BY DEF TypeOK
<1> HIDE DEF e
<1>4. dispatched' \in [Conns -> Seq(Dispatch)]
  BY <1>1, <1>2 DEF TypeOK
<1>5. \A st \in {"handler", "NOT_FOUND"} : [to |-> i, status |-> st] \in Reply
  BY <1>3 DEF Reply
<1>6. \/ \E st \in {"handler", "NOT_FOUND"} :
           replies' = [replies EXCEPT ![c] = Append(@, [to |-> i, status |-> st])]
         /\ deferred' = deferred
      \/ replies' = replies /\ deferred' = deferred \cup {<<c, i>>}
  BY DEF HandleEndpoint, SendReply
<1> HIDE DEF i
<1>7. deferred' \subseteq Conns \X (Nat \ {0})
  BY <1>3, <1>6 DEF TypeOK
<1>8. replies' \in [Conns -> Seq(Reply)]
  <2>1. ASSUME NEW r \in Reply, replies' = [replies EXCEPT ![c] = Append(@, r)]
        PROVE  replies' \in [Conns -> Seq(Reply)]
    BY <2>1 DEF TypeOK
  <2>2. CASE replies' = replies
    BY <2>2 DEF TypeOK
  <2> QED BY <1>5, <1>6, <2>1, <2>2
<1> QED BY <1>4, <1>7, <1>8

\* The types hold before the server listens.
LEMMA InitTypeOK == Init => TypeOK
<1> SUFFICES ASSUME Init PROVE TypeOK
  OBVIOUS
<1>1. sessions \in [Ports -> Session]
      /\ \A p \in Ports : sessions[p].data = <<>> => sessions[p] = NoSession
  BY NoSessionType DEF Init
<1> QED BY <1>1 DEF Init, TypeOK, SentUpTo

\* A packet keeps the types, whatever the session makes of it.
LEMMA ReceiveTypeOK ==
  ASSUME TypeOK, NEW c \in Conns, NEW packet \in Packets(c), Receive(c, packet)
  PROVE  TypeOK'
<1>1. PICK last \in received[c] + 1 .. Len(Stream[c]) :
           /\ last <= SentUpTo(c)
           /\ packet \in Seq(Token)
           /\ packet # <<>>
           /\ received[c] + Len(packet) = last
  BY PacketProperties
<1>2. received' = [received EXCEPT ![c] = last] /\ last \in Nat
  <2>1. received' = [received EXCEPT ![c] = received[c] + Len(packet)]
    BY DEF Receive
  <2>2. received[c] \in Nat
    BY DEF TypeOK
  <2>3. last \in Nat
    BY <1>1, <2>2
  <2>4. received[c] + Len(packet) = last
    BY <1>1
  <2> QED BY <2>1, <2>3, <2>4
<1>3. /\ received' \in [Conns -> Nat]
      /\ received'[c] = last
      /\ \A b \in Conns : received'[b] <= SentUpTo(b)
  BY <1>1, <1>2 DEF TypeOK
<1>4. UNCHANGED <<conn, sent>> /\ \A b \in Conns : SentUpTo(b)' = SentUpTo(b)
  BY DEF Receive, SentUpTo
<1> DEFINE p == SessionKey(c)
<1>5. p \in Ports
  BY DEF SessionKey
<1>6. PICK s \in {Gathered(sessions[p], packet)} :
       \/ /\ sessions' = [sessions EXCEPT ![p] = s]
          /\ UNCHANGED <<server, dispatched, deferred, replies>>
       \/ /\ sessions' = [sessions EXCEPT ![p] = s]
          /\ server' = "threw"
          /\ UNCHANGED <<dispatched, deferred, replies>>
       \/ /\ HandleEndpoint(c, s.data)
          /\ sessions' = [sessions EXCEPT ![p] = Erase(s)]
          /\ UNCHANGED server
  BY DEF Receive
<1>7. s \in Session /\ s.data \in Seq(Token) /\ s.data # <<>>
  <2>1. sessions[p] \in Session
    BY <1>5 DEF TypeOK
  <2>2. s \in Session /\ s.data # <<>>
    <3> HIDE DEF p
    <3> QED BY <1>1, <1>6, <2>1, GatheredType
  <2> QED BY <2>2 DEF Session
<1> HIDE DEF p
<1>8. /\ sessions' \in [Ports -> Session]
      /\ \A q \in Ports : sessions'[q].data = <<>> => sessions'[q] = NoSession
  <2>1. CASE sessions' = [sessions EXCEPT ![p] = s]
    BY <1>7, <2>1 DEF TypeOK
  <2>2. CASE sessions' = [sessions EXCEPT ![p] = Erase(s)]
    BY <2>2, NoSessionType DEF TypeOK, Erase
  <2> QED BY <1>6, <2>1, <2>2
<1>9. /\ dispatched' \in [Conns -> Seq(Dispatch)]
      /\ deferred' \subseteq Conns \X (Nat \ {0})
      /\ replies' \in [Conns -> Seq(Reply)]
  <2>1. CASE HandleEndpoint(c, s.data)
    BY <1>2, <1>3, <1>7, <2>1, HandleEndpointType
  <2>2. CASE UNCHANGED <<dispatched, deferred, replies>>
    BY <2>2 DEF TypeOK
  <2> QED BY <1>6, <2>1, <2>2
<1>10. server' \in {"new", "listening", "threw"}
  BY <1>6 DEF TypeOK
<1> QED BY <1>3, <1>4, <1>8, <1>9, <1>10 DEF TypeOK

\* Every step keeps the types.
LEMMA NextTypeOK == TypeOK /\ [Next]_vars => TypeOK'
<1> SUFFICES ASSUME TypeOK, [Next]_vars PROVE TypeOK'
  OBVIOUS
<1>1. CASE Listen
  BY <1>1 DEF Listen, TypeOK, SentUpTo
<1>2. ASSUME NEW c \in Conns, Accept(c) \/ RecvClose(c)
      PROVE  TypeOK'
  BY <1>2 DEF Accept, RecvClose, TypeOK, SentUpTo
<1>3. ASSUME NEW c \in Conns, ClientSend(c)
      PROVE  TypeOK'
  <2>1. /\ sent' = [sent EXCEPT ![c] = @ + 1] /\ sent[c] < Len(Ends[c])
        /\ UNCHANGED <<server, conn, received, sessions, dispatched, deferred, replies>>
    BY <1>3 DEF ClientSend
  <2>2. Ends[c] \in Seq(1..Len(Stream[c]))
    OBVIOUS
  <2>3. sent' \in [Conns -> Nat] /\ \A b \in Conns : sent'[b] <= Len(Ends[b])
    BY <2>1, <2>2 DEF TypeOK
  <2>4. \A b \in Conns : received[b] <= SentUpTo(b)'
    <3>1. SentUpTo(c)' = Ends[c][sent[c] + 1]
      BY <2>1 DEF TypeOK, SentUpTo
    <3>2. received[c] \in Nat /\ SentUpTo(c) \in Nat /\ Ends[c][sent[c] + 1] \in Nat
      <4>1. received[c] \in Nat /\ sent[c] \in Nat
        BY DEF TypeOK
      <4>2. Len(Ends[c]) \in Nat /\ \A i \in 1..Len(Ends[c]) : Ends[c][i] \in Nat
        BY <2>2
      <4>3. sent[c] + 1 \in 1..Len(Ends[c]) /\ (sent[c] # 0 => sent[c] \in 1..Len(Ends[c]))
        BY <2>1, <4>1, <4>2
      <4> QED BY <4>1, <4>2, <4>3 DEF SentUpTo
    <3>3. received[c] <= SentUpTo(c)'
      <4>1. received[c] <= SentUpTo(c)
        BY DEF TypeOK
      <4>2. SentUpTo(c) <= Ends[c][sent[c] + 1]
        BY <2>1, SentUpToGrows
      <4> QED BY <3>1, <3>2, <4>1, <4>2
    <3>4. \A b \in Conns : b # c => SentUpTo(b)' = SentUpTo(b)
      BY <2>1 DEF TypeOK, SentUpTo
    <3> QED BY <3>3, <3>4 DEF TypeOK
  <2> QED BY <2>1, <2>3, <2>4 DEF TypeOK
<1>4. ASSUME NEW c \in Conns, RecvPacket(c)
      PROVE  TypeOK'
  BY <1>4, ReceiveTypeOK DEF RecvPacket
<1>5. ASSUME NEW c \in Conns, NEW i \in 1..Len(dispatched[c]), DeferredReply(c, i)
      PROVE  TypeOK'
  <2>1. [to |-> i, status |-> "handler"] \in Reply
    BY DEF Reply
  <2>2. replies' \in [Conns -> Seq(Reply)]
    BY <1>5, <2>1 DEF DeferredReply, SendReply, TypeOK
  <2> QED BY <1>5, <2>2 DEF DeferredReply, TypeOK, SentUpTo
<1>6. CASE UNCHANGED vars
  BY <1>6 DEF vars, TypeOK, SentUpTo
<1> QED BY <1>1, <1>2, <1>3, <1>4, <1>5, <1>6 DEF Next, ConnStep

\* The state keeps its shape, and a session that is not in use has nothing of
\* an earlier request left in it.
THEOREM ServerTypeCorrect == Spec => []TypeOK
BY InitTypeOK, NextTypeOK, PTL DEF Spec

-----------------------------------------------------------------------------
(* Nothing is lost or mixed.                                               *)

\* No two connections share a key of m_active_sessions.
PortsDistinct == \A b, c \in Conns : PortOf[b] = PortOf[c] => b = c

LastUpto(c) == From(c, Len(dispatched[c]) + 1)

\* NothingLostOrMixed for one connection; a dispatch never took more than
\* was received.
SegmentsOf(c) ==
  /\ LastUpto(c) \in 0..received[c]
  /\ \A i \in 1..Len(dispatched[c]) :
       dispatched[c][i].data = Segment(c, From(c, i), dispatched[c][i].upto)
  /\ sessions[PortOf[c]].data = Segment(c, LastUpto(c), received[c])

SegmentInv == TypeOK /\ \A c \in Conns : SegmentsOf(c)

\* Bytes are accounted for on a connection where nothing happens.
LEMMA SegmentsUnchanged ==
  ASSUME NEW c \in Conns, SegmentsOf(c), dispatched'[c] = dispatched[c],
         received'[c] = received[c], sessions'[PortOf[c]] = sessions[PortOf[c]]
  PROVE  SegmentsOf(c)'
BY DEF SegmentsOf, LastUpto, From, Segment

\* Before anything is received all bytes are accounted for.
LEMMA InitSegments == Init => SegmentInv
<1> SUFFICES ASSUME Init, NEW c \in Conns PROVE SegmentsOf(c)
  BY InitTypeOK DEF SegmentInv
<1>1. LastUpto(c) = 0 /\ received[c] = 0 /\ Len(dispatched[c]) = 0
  BY DEF Init, LastUpto, From
<1>2. sessions[PortOf[c]].data = <<>>
  BY NoSessionType DEF Init
<1>3. Segment(c, 0, 0) = <<>>
  BY SubSeqEmpty DEF Segment
<1> QED BY <1>1, <1>2, <1>3 DEF SegmentsOf

\* The packet continues the session's stretch of the stream.
LEMMA PacketContinues ==
  ASSUME SegmentInv, NEW c \in Conns, NEW last \in received[c] + 1 .. Len(Stream[c])
  PROVE  Segment(c, LastUpto(c), received[c]) \o SubSeq(Stream[c], received[c] + 1, last)
           = Segment(c, LastUpto(c), last)
<1>1. /\ Stream[c] \in Seq(Token) /\ received[c] \in Nat /\ LastUpto(c) \in 0..received[c]
  BY DEF SegmentInv, SegmentsOf, TypeOK
<1> DEFINE m == LastUpto(c) + 1
           k == received[c]
           seq == Stream[c]
<1>2. /\ m \in 1..Len(seq) + 1
      /\ k \in m - 1 .. Len(seq)
      /\ last \in k .. Len(seq)
      /\ seq \in Seq(Token)
  BY <1>1
<1>3. SubSeq(seq, m, k) \o SubSeq(seq, k + 1, last) = SubSeq(seq, m, last)
  <2> HIDE DEF m, k, seq
  <2> QED BY <1>2, ConcatAdjacentSubSeq
<1> QED BY <1>3 DEF Segment

\* The types of what belongs to a connection.
LEMMA TypesOfConnection ==
  ASSUME TypeOK, NEW c \in Conns
  PROVE  /\ PortOf[c] \in Ports
         /\ sessions \in [Ports -> Session]
         /\ received \in [Conns -> Nat]
         /\ dispatched \in [Conns -> Seq(Dispatch)]
         /\ received[c] \in Nat
         /\ dispatched[c] \in Seq(Dispatch)
         /\ Len(dispatched[c]) \in Nat
<1>1. /\ sessions \in [Ports -> Session]
      /\ received \in [Conns -> Nat]
      /\ dispatched \in [Conns -> Seq(Dispatch)]
  BY DEF TypeOK
<1>2. dispatched[c] \in Seq(Dispatch)
  BY <1>1
<1>3. Len(dispatched[c]) \in Nat
  BY <1>2
<1> QED BY <1>1, <1>2, <1>3

\* A packet goes to the session of its own connection, or to its dispatch.
LEMMA ReceiveSegments ==
  ASSUME PortsDistinct, SegmentInv, NEW c \in Conns, NEW packet \in Packets(c),
         Receive(c, packet)
  PROVE  \A b \in Conns : SegmentsOf(b)'
<1> DEFINE p == PortOf[c]
           len == Len(dispatched[c])
<1>1. PICK last \in received[c] + 1 .. Len(Stream[c]) :
           /\ packet = SubSeq(Stream[c], received[c] + 1, last)
           /\ packet \in Seq(Token)
           /\ packet # <<>>
           /\ received[c] + Len(packet) = last
  BY PacketProperties DEF SegmentInv
<1>2. PICK s \in {Gathered(sessions[p], packet)} :
       \/ /\ sessions' = [sessions EXCEPT ![p] = s]
          /\ UNCHANGED dispatched
       \/ /\ HandleEndpoint(c, s.data)
          /\ sessions' = [sessions EXCEPT ![p] = NoSession]
  BY DEF Receive, SessionKey, Erase
<1>3. received' = [received EXCEPT ![c] = received[c] + Len(packet)]
  BY DEF Receive
<1>4. p \in Ports /\ sessions \in [Ports -> Session] /\ received \in [Conns -> Nat]
      /\ dispatched \in [Conns -> Seq(Dispatch)] /\ received[c] \in Nat /\ last \in Nat
      /\ dispatched[c] \in Seq(Dispatch) /\ len \in Nat
  <2>1. TypeOK
    BY DEF SegmentInv
  <2>2. last \in Nat
    BY <1>1, <2>1, TypesOfConnection
  <2> QED BY <2>1, <2>2, TypesOfConnection
<1>5. received'[c] = last /\ \A b \in Conns : b # c => received'[b] = received[b]
  BY <1>1, <1>3, <1>4
<1>6. s.data = Segment(c, LastUpto(c), last)
  <2>1. s.data = sessions[p].data \o packet
    BY <1>1, <1>2, <1>4, GatheredType
  <2>2. sessions[p].data = Segment(c, LastUpto(c), received[c])
    BY DEF SegmentInv, SegmentsOf
  <2> QED BY <1>1, <2>1, <2>2, PacketContinues
<1>7. LastUpto(c) \in 0..last
  BY <1>1, <1>4 DEF SegmentInv, SegmentsOf
<1>8. ASSUME NEW b \in Conns, b # c
      PROVE  SegmentsOf(b)'
  <2>1. PortOf[b] # p /\ PortOf[b] \in Ports
    BY <1>8 DEF PortsDistinct
  <2>2. sessions'[PortOf[b]] = sessions[PortOf[b]]
    BY <1>2, <1>4, <2>1
  <2>3. dispatched'[b] = dispatched[b]
    BY <1>2, <1>4, <1>8 DEF HandleEndpoint
  <2> QED BY <1>5, <1>8, <2>2, <2>3, SegmentsUnchanged DEF SegmentInv
<1>9. SegmentsOf(c)'
  <2>1. CASE sessions' = [sessions EXCEPT ![p] = s] /\ UNCHANGED dispatched
    <3>1. LastUpto(c)' = LastUpto(c) /\ \A i : From(c, i)' = From(c, i)
      BY <2>1 DEF LastUpto, From
    <3>2. sessions'[p] = s
      BY <1>4, <2>1
    <3>3. dispatched' = dispatched
      BY <2>1
    <3>4. LastUpto(c)' \in 0..received'[c]
      BY <1>5, <1>7, <3>1
    <3>5. \A i \in 1..Len(dispatched'[c]) :
             dispatched'[c][i].data = Segment(c, From(c, i)', dispatched'[c][i].upto)
      BY <3>1, <3>3 DEF SegmentInv, SegmentsOf
    <3>6. sessions'[PortOf[c]].data = Segment(c, LastUpto(c)', received'[c])
      BY <1>5, <1>6, <3>1, <3>2
    <3> QED BY <3>4, <3>5, <3>6 DEF SegmentsOf, Segment
  <2>2. CASE HandleEndpoint(c, s.data) /\ sessions' = [sessions EXCEPT ![p] = NoSession]
    <3> DEFINE e == [endpoint |-> Endpoint(s.data), payload |-> Payload(s.data),
                     data |-> s.data, upto |-> received'[c]]
    <3>1. dispatched' = [dispatched EXCEPT ![c] = Append(@, e)]
      BY <2>2 DEF HandleEndpoint
    <3>2. e.data = Segment(c, LastUpto(c), last) /\ e.upto = last
      BY <1>5, <1>6
    <3> HIDE DEF e
    <3>3. /\ Len(dispatched'[c]) = len + 1
          /\ dispatched'[c][len + 1] = e
          /\ \A i \in 1..len : dispatched'[c][i] = dispatched[c][i]
      BY <1>4, <3>1
    <3> HIDE DEF len
    <3>4. LastUpto(c)' = last
      BY <1>4, <3>2, <3>3 DEF LastUpto, From
    <3>5. \A i \in 1..len + 1 : From(c, i)' = From(c, i)
      BY <1>4, <3>3 DEF From
    <3>6. LastUpto(c) = From(c, len + 1)
      BY DEF LastUpto, len
    <3>7. \A i \in 1..Len(dispatched'[c]) :
             dispatched'[c][i].data = Segment(c, From(c, i)', dispatched'[c][i].upto)
      <4> SUFFICES ASSUME NEW i \in 1..len + 1
                   PROVE  dispatched'[c][i].data = Segment(c, From(c, i)', dispatched'[c][i].upto)
        BY <3>3
      <4>1. CASE i = len + 1
        BY <1>4, <3>2, <3>3, <3>5, <3>6, <4>1
      <4>2. CASE i \in 1..len
        BY <1>4, <3>3, <3>5, <4>2 DEF SegmentInv, SegmentsOf, len
      <4> QED BY <1>4, <4>1, <4>2
    <3>8. sessions'[p].data = <<>>
      BY <1>4, <2>2, NoSessionType
    <3>9. Segment(c, last, last) = <<>>
      BY <1>4, SubSeqEmpty DEF Segment
    <3> QED BY <1>4, <1>5, <3>4, <3>7, <3>8, <3>9 DEF SegmentsOf, Segment
  <2> QED BY <1>2, <2>1, <2>2
<1> QED BY <1>8, <1>9

\* Every step accounts for all bytes.
LEMMA NextSegments ==
  PortsDistinct /\ SegmentInv /\ [Next]_vars => SegmentInv'
<1> SUFFICES ASSUME PortsDistinct, SegmentInv, [Next]_vars
             PROVE  \A b \in Conns : SegmentsOf(b)'
  BY NextTypeOK DEF SegmentInv
<1>1. ASSUME NEW c \in Conns, RecvPacket(c)
      PROVE  \A b \in Conns : SegmentsOf(b)'
  BY <1>1, ReceiveSegments DEF RecvPacket
<1>2. CASE UNCHANGED <<received, sessions, dispatched>>
  BY <1>2, SegmentsUnchanged DEF SegmentInv
<1>3. Listen \/ (\E c \in Conns : Accept(c) \/ ClientSend(c) \/ RecvClose(c)
                   \/ \E i \in 1..Len(dispatched[c]) : DeferredReply(c, i))
      => UNCHANGED <<received, sessions, dispatched>>
  BY DEF Listen, Accept, ClientSend, RecvClose, DeferredReply
<1> QED BY <1>1, <1>2, <1>3 DEF Next, ConnStep, vars

\* Without TLS, and as long as no two connections have the same port, every
\* byte received on a connection is handed over exactly once, in order and
\* with no bytes of another client, wherever TCP cuts the streams.
THEOREM ServerLosesNothing ==
  ASSUME PortsDistinct
  PROVE  Spec => []NothingLostOrMixed
<1>1. SegmentInv => NothingLostOrMixed
  BY DEF SegmentInv, SegmentsOf, LastUpto, NothingLostOrMixed
<1>2. SegmentInv /\ [Next]_vars => SegmentInv'
  BY NextSegments
<1> QED BY <1>1, <1>2, InitSegments, PTL DEF Spec

-----------------------------------------------------------------------------
(* Every call of handle_endpoint is answered once.                         *)

AnsweredOf(c) ==
  /\ \A j \in 1..Len(replies[c]) :
       /\ replies[c][j].to \in 1..Len(dispatched[c])
       /\ <<c, replies[c][j].to>> \notin deferred
  /\ \A j, k \in 1..Len(replies[c]) : replies[c][j].to = replies[c][k].to => j = k
  /\ \A i \in 1..Len(dispatched[c]) :
       <<c, i>> \in deferred \/ \E j \in 1..Len(replies[c]) : replies[c][j].to = i
  /\ \A i : <<c, i>> \in deferred => i \in 1..Len(dispatched[c])

AnswerInv == TypeOK /\ \A c \in Conns : AnsweredOf(c)

\* Answers are as they were on a connection where nothing happens.
LEMMA AnsweredUnchanged ==
  ASSUME NEW c \in Conns, AnsweredOf(c), dispatched'[c] = dispatched[c],
         replies'[c] = replies[c], \A i : <<c, i>> \in deferred' <=> <<c, i>> \in deferred
  PROVE  AnsweredOf(c)'
BY DEF AnsweredOf

\* One more dispatch, that is answered at once or kept.
LEMMA DispatchAnswered ==
  ASSUME AnswerInv, NEW c \in Conns, NEW d, HandleEndpoint(c, d)
  PROVE  \A b \in Conns : AnsweredOf(b)'
<1> DEFINE e == [endpoint |-> Endpoint(d), payload |-> Payload(d),
                 data |-> d, upto |-> received'[c]]
           len == Len(dispatched[c])
           m == Len(replies[c])
<1>1. /\ dispatched \in [Conns -> Seq(Dispatch)] /\ replies \in [Conns -> Seq(Reply)]
      /\ len \in Nat /\ m \in Nat
  <2>1. dispatched \in [Conns -> Seq(Dispatch)] /\ replies \in [Conns -> Seq(Reply)]
    BY DEF AnswerInv, TypeOK
  <2> QED BY <2>1
<1>2. dispatched' = [dispatched EXCEPT ![c] = Append(@, e)]
  BY DEF HandleEndpoint
<1>3. \/ /\ deferred' = deferred
         /\ \E st \in {"handler", "NOT_FOUND"} :
              replies' = [replies EXCEPT ![c] = Append(@, [to |-> len + 1, status |-> st])]
      \/ /\ deferred' = deferred \cup {<<c, len + 1>>}
         /\ replies' = replies
  BY DEF HandleEndpoint, SendReply
<1> HIDE DEF e
<1>4. /\ Len(dispatched'[c]) = len + 1
      /\ \A b \in Conns : b # c => dispatched'[b] = dispatched[b]
  BY <1>1, <1>2
<1>5. /\ \A j \in 1..m : replies[c][j].to \in 1..len /\ <<c, replies[c][j].to>> \notin deferred
      /\ \A j, k \in 1..m : replies[c][j].to = replies[c][k].to => j = k
      /\ \A i \in 1..len : <<c, i>> \in deferred \/ \E j \in 1..m : replies[c][j].to = i
      /\ \A i : <<c, i>> \in deferred => i \in 1..len
  BY DEF AnswerInv, AnsweredOf
<1>6. ASSUME NEW b \in Conns, b # c
      PROVE  AnsweredOf(b)'
  BY <1>1, <1>3, <1>4, <1>6, AnsweredUnchanged DEF AnswerInv
<1>7. \A r : Len(Append(replies[c], r)) = m + 1 /\ Append(replies[c], r)[m + 1] = r
             /\ \A j \in 1..m : Append(replies[c], r)[j] = replies[c][j]
  BY <1>1
<1>8. \A r : replies' = [replies EXCEPT ![c] = Append(@, r)]
               => replies'[c] = Append(replies[c], r)
  BY <1>1
<1>9. Len(replies[c]) = m
  OBVIOUS
<1> HIDE DEF len, m
<1>10. /\ \A j \in 1..m + 1 : j = m + 1 \/ j \in 1..m
       /\ \A i \in 1..len + 1 : i = len + 1 \/ i \in 1..len
       /\ \A i \in 1..len : i \in 1..len + 1 /\ i # len + 1
       /\ \A j \in 1..m : j \in 1..m + 1
       /\ m + 1 \in 1..m + 1 /\ len + 1 \in 1..len + 1
  BY <1>1
<1>11. ASSUME NEW st, deferred' = deferred,
              replies' = [replies EXCEPT ![c] = Append(@, [to |-> len + 1, status |-> st])]
       PROVE  AnsweredOf(c)'
  <2> DEFINE r == [to |-> len + 1, status |-> st]
  <2>1. /\ Len(replies'[c]) = m + 1
        /\ replies'[c][m + 1].to = len + 1
        /\ \A j \in 1..m : replies'[c][j] = replies[c][j]
    <3>1. r.to = len + 1
      OBVIOUS
    <3>2. replies'[c] = Append(replies[c], r)
      BY <1>8, <1>11
    <3> HIDE DEF r
    <3> QED BY <1>7, <3>1, <3>2
  <2>2. \A j \in 1..m + 1 : /\ replies'[c][j].to \in 1..len + 1
                            /\ <<c, replies'[c][j].to>> \notin deferred'
    BY <1>5, <1>10, <1>11, <2>1
  <2>3. \A j, k \in 1..m + 1 : replies'[c][j].to = replies'[c][k].to => j = k
    <3>1. \A j \in 1..m : replies[c][j].to # len + 1
      BY <1>5, <1>10
    <3> QED BY <1>5, <1>10, <2>1, <3>1
  <2>4. \A i \in 1..len + 1 :
          <<c, i>> \in deferred' \/ \E j \in 1..m + 1 : replies'[c][j].to = i
    BY <1>5, <1>10, <1>11, <2>1
  <2>5. \A i : <<c, i>> \in deferred' => i \in 1..len + 1
    BY <1>5, <1>10, <1>11
  <2> QED BY <1>4, <2>1, <2>2, <2>3, <2>4, <2>5 DEF AnsweredOf
<1>12. ASSUME deferred' = deferred \cup {<<c, len + 1>>}, replies' = replies
       PROVE  AnsweredOf(c)'
  <2>1. \A i : <<c, i>> \in deferred' <=> <<c, i>> \in deferred \/ i = len + 1
    BY <1>12
  <2>2. \A j \in 1..m : /\ replies[c][j].to \in 1..len + 1
                        /\ <<c, replies[c][j].to>> \notin deferred'
    BY <1>5, <1>10, <2>1
  <2>3. \A i \in 1..len + 1 :
          <<c, i>> \in deferred' \/ \E j \in 1..m : replies[c][j].to = i
    BY <1>5, <1>10, <2>1
  <2>4. \A i : <<c, i>> \in deferred' => i \in 1..len + 1
    BY <1>5, <1>10, <2>1
  <2> QED BY <1>4, <1>5, <1>9, <1>12, <2>2, <2>3, <2>4 DEF AnsweredOf
<1> QED BY <1>3, <1>6, <1>11, <1>12

\* A reply handler that is called late answers a dispatch without an answer.
LEMMA DeferredAnswered ==
  ASSUME AnswerInv, NEW c \in Conns, NEW i \in 1..Len(dispatched[c]), DeferredReply(c, i)
  PROVE  \A b \in Conns : AnsweredOf(b)'
<1> DEFINE r == [to |-> i, status |-> "handler"]
           len == Len(dispatched[c])
           m == Len(replies[c])
<1>1. replies \in [Conns -> Seq(Reply)] /\ m \in Nat
  <2>1. replies \in [Conns -> Seq(Reply)]
    BY DEF AnswerInv, TypeOK
  <2> QED BY <2>1
<1>2. /\ <<c, i>> \in deferred /\ deferred' = deferred \ {<<c, i>>}
      /\ replies' = [replies EXCEPT ![c] = Append(@, r)] /\ r.to = i
      /\ dispatched' = dispatched
  BY DEF DeferredReply, SendReply
<1> HIDE DEF r
<1>3. /\ Len(replies'[c]) = m + 1
      /\ replies'[c][m + 1].to = i
      /\ \A j \in 1..m : replies'[c][j] = replies[c][j]
      /\ \A b \in Conns : b # c => replies'[b] = replies[b]
  BY <1>1, <1>2
<1>4. /\ \A j \in 1..m : replies[c][j].to \in 1..len /\ <<c, replies[c][j].to>> \notin deferred
      /\ \A j, k \in 1..m : replies[c][j].to = replies[c][k].to => j = k
      /\ \A k \in 1..len : <<c, k>> \in deferred \/ \E j \in 1..m : replies[c][j].to = k
      /\ \A k : <<c, k>> \in deferred => k \in 1..len
  BY DEF AnswerInv, AnsweredOf
<1>5. ASSUME NEW b \in Conns, b # c
      PROVE  AnsweredOf(b)'
  BY <1>2, <1>3, <1>5, AnsweredUnchanged DEF AnswerInv
<1>6. \A k : <<c, k>> \in deferred' <=> <<c, k>> \in deferred /\ k # i
  BY <1>2
<1>7. i \in 1..len /\ Len(dispatched'[c]) = len
  BY <1>2
<1> HIDE DEF len, m
<1>8. /\ \A j \in 1..m + 1 : j = m + 1 \/ j \in 1..m
      /\ \A j \in 1..m : j \in 1..m + 1
      /\ m + 1 \in 1..m + 1
  BY <1>1
<1>9. \A j \in 1..m : replies[c][j].to # i
  BY <1>2, <1>4
<1>10. AnsweredOf(c)'
  <2>1. \A j \in 1..m + 1 : /\ replies'[c][j].to \in 1..len
                            /\ <<c, replies'[c][j].to>> \notin deferred'
    BY <1>3, <1>4, <1>6, <1>7, <1>8
  <2>2. \A j, k \in 1..m + 1 : replies'[c][j].to = replies'[c][k].to => j = k
    BY <1>3, <1>4, <1>8, <1>9
  <2>3. \A k \in 1..len :
          <<c, k>> \in deferred' \/ \E j \in 1..m + 1 : replies'[c][j].to = k
    BY <1>3, <1>4, <1>6, <1>8
  <2>4. \A k : <<c, k>> \in deferred' => k \in 1..len
    BY <1>4, <1>6
  <2> QED BY <1>3, <1>7, <2>1, <2>2, <2>3, <2>4 DEF AnsweredOf
<1> QED BY <1>5, <1>10

\* Every step answers a dispatch once, or keeps its reply handler.
LEMMA NextAnswered == AnswerInv /\ [Next]_vars => AnswerInv'
<1> SUFFICES ASSUME AnswerInv, [Next]_vars
             PROVE  \A b \in Conns : AnsweredOf(b)'
  BY NextTypeOK DEF AnswerInv
<1>1. CASE UNCHANGED <<dispatched, deferred, replies>>
  BY <1>1, AnsweredUnchanged DEF AnswerInv
<1>2. ASSUME NEW c \in Conns, NEW i \in 1..Len(dispatched[c]), DeferredReply(c, i)
      PROVE  \A b \in Conns : AnsweredOf(b)'
  BY <1>2, DeferredAnswered
<1>3. ASSUME NEW c \in Conns, RecvPacket(c)
      PROVE  \A b \in Conns : AnsweredOf(b)'
  <2>1. UNCHANGED <<dispatched, deferred, replies>> \/ \E d : HandleEndpoint(c, d)
    BY <1>3 DEF RecvPacket, Receive
  <2> QED BY <1>1, <2>1, DispatchAnswered
<1>4. Listen \/ (\E c \in Conns : Accept(c) \/ ClientSend(c) \/ RecvClose(c)) \/ UNCHANGED vars
      => UNCHANGED <<dispatched, deferred, replies>>
  BY DEF Listen, Accept, ClientSend, RecvClose, vars
<1> QED BY <1>1, <1>2, <1>3, <1>4 DEF Next, ConnStep

\* Without a dispatch there is no answer.
LEMMA InitAnswered == Init => AnswerInv
BY InitTypeOK DEF Init, AnswerInv, AnsweredOf

\* Whatever the clients and the network do, a call of handle_endpoint is
\* answered at most once, on the connection its request came from, and is not
\* forgotten.
THEOREM ServerAnswersOnce == Spec => []AnsweredOnce
<1>1. AnswerInv => AnsweredOnce
  BY DEF AnswerInv, AnsweredOf, AnsweredOnce
<1> QED BY <1>1, InitAnswered, NextAnswered, PTL DEF Spec

=============================================================================
