-------------------------- MODULE HttpServiceProofs --------------------------
(***************************************************************************)
(* Proofs about HttpServer, for streams of requests as clients write them: *)
(* when a session stops waiting, what it then hands over, and that the     *)
(* server implements HttpService.                                          *)
(*                                                                         *)
(* The argument: the data of a session that began with a request agrees    *)
(* with that request as far as both go, so the parser finds the request's  *)
(* own header block, Content-Length and endpoint in it.                    *)
(***************************************************************************)
EXTENDS HttpServerProofs, FiniteSetTheorems

-----------------------------------------------------------------------------
\* The least element, by what it is.
LEMMA LeastIs ==
  ASSUME NEW S \in SUBSET Nat, NEW m \in S, \A j \in S : m <= j
  PROVE  Least(S) = m
<1>1. Least(S) \in S /\ Least(S) <= m
  BY LeastProperties
<1>2. m \in Nat /\ Least(S) \in Nat /\ m <= Least(S)
  BY <1>1
<1> QED BY <1>1, <1>2

\* The greatest element, by what it is.
LEMMA GreatestIs ==
  ASSUME NEW n \in Nat, NEW S \in SUBSET (1..n), NEW m \in S, \A j \in S : j <= m
  PROVE  Greatest(S) = m
<1>1. Greatest(S) \in S /\ m <= Greatest(S)
  BY GreatestProperties
<1>2. m \in 1..n /\ Greatest(S) \in 1..n /\ Greatest(S) <= m
  BY <1>1
<1> QED BY <1>1, <1>2

-----------------------------------------------------------------------------
(* What the parser finds in data that begins with a request. *)

\* d and q agree as far as both go.
Begins(d, q) == \A i \in DOMAIN d : i \in DOMAIN q => d[i] = q[i]

\* The kinds of a request's tokens, by position.
LEMMA KindsOfRequest ==
  ASSUME NEW q \in Seq(Token), NEW h, Written(q, h)
  PROVE  /\ h \in {6, 9, 10} /\ h <= Len(q) /\ Len(q) \in Nat
         /\ q[1].kind = "method" /\ q[2].kind = "target" /\ q[3].kind = "tail"
         /\ q[4].kind = "version" /\ q[5].kind = "eol"
         /\ q[h].kind = "blank"
         /\ h = 6 => Len(q) <= 6
         /\ h # 6 => q[6].kind = "clen" /\ q[7].kind = "digit"
         /\ h = 9 => q[8].kind = "eol" /\ q[7].num = Len(q) - 9
         /\ h = 10 => /\ q[8].kind = "more" /\ q[9].kind = "eol"
                      /\ q[7].num \in 0..q[8].num /\ q[8].num = Len(q) - 10
         /\ \A i \in 1..Len(q) : h < i => q[i].kind = "body"
BY DEF Written, RequestLine, LengthLine

\* The same of data that begins with the request.
LEMMA KindsOfData ==
  ASSUME NEW d \in Seq(Token), NEW q \in Seq(Token), NEW h, Written(q, h), Begins(d, q)
  PROVE  /\ h \in {6, 9, 10} /\ Len(d) \in Nat /\ DOMAIN d = 1..Len(d)
         /\ \A i \in 1..Len(d) : i <= h => d[i] = q[i]
         /\ \A i \in 1..Len(d) : i <= h => (Newline(d[i]) <=> i \in {5, h - 1, h})
         /\ \A i \in 1..Len(d) : i <= h => (d[i].kind = "clen" <=> i = 6 /\ h # 6)
<1>1. h \in {6, 9, 10} /\ h <= Len(q) /\ Len(q) \in Nat
  BY KindsOfRequest
<1>2. \A i \in 1..Len(d) : i <= h => d[i] = q[i]
  BY <1>1 DEF Begins
<1>3. \A i \in 1..h : /\ Newline(q[i]) <=> i \in {5, h - 1, h}
                      /\ q[i].kind = "clen" <=> i = 6 /\ h # 6
  <2>1. /\ q[1].kind = "method" /\ q[2].kind = "target" /\ q[3].kind = "tail"
        /\ q[4].kind = "version" /\ q[5].kind = "eol" /\ q[h].kind = "blank"
    BY KindsOfRequest
  <2>2. CASE h = 6
    <3>1. \A i \in 1..h : i \in {1, 2, 3, 4, 5, 6}
      BY <2>2
    <3> QED BY <2>1, <2>2, <3>1 DEF Newline
  <2>3. CASE h = 9
    <3>1. \A i \in 1..h : i \in {1, 2, 3, 4, 5, 6, 7, 8, 9}
      BY <2>3
    <3>2. q[6].kind = "clen" /\ q[7].kind = "digit" /\ q[8].kind = "eol"
      BY <2>3, KindsOfRequest
    <3> QED BY <2>1, <2>3, <3>1, <3>2 DEF Newline
  <2>4. CASE h = 10
    <3>1. \A i \in 1..h : i \in {1, 2, 3, 4, 5, 6, 7, 8, 9, 10}
      BY <2>4
    <3>2. /\ q[6].kind = "clen" /\ q[7].kind = "digit" /\ q[8].kind = "more"
          /\ q[9].kind = "eol"
      BY <2>4, KindsOfRequest
    <3> QED BY <2>1, <2>4, <3>1, <3>2 DEF Newline
  <2> QED BY <1>1, <2>2, <2>3, <2>4
<1>4. \A i \in 1..Len(d) : i <= h => i \in 1..h
  BY <1>1
<1>5. Len(d) \in Nat /\ DOMAIN d = 1..Len(d)
  OBVIOUS
<1> QED BY <1>1, <1>2, <1>3, <1>4, <1>5

\* The header block of the beginning of a request ends where it does in the request.
LEMMA BlockEnds ==
  ASSUME NEW d \in Seq(Token), NEW q \in Seq(Token), NEW h, Written(q, h), Begins(d, q)
  PROVE  /\ \A i \in HeaderEnds(d) : h <= i
         /\ Len(d) < h => HeaderEnds(d) = {}
         /\ h <= Len(d) => h \in HeaderEnds(d) /\ HeaderSize(d) = h
<1>1. /\ h \in {6, 9, 10} /\ Len(d) \in Nat /\ DOMAIN d = 1..Len(d)
      /\ \A i \in 1..Len(d) : i <= h => (Newline(d[i]) <=> i \in {5, h - 1, h})
  BY KindsOfData
<1>2. HeaderEnds(d) \in SUBSET Nat /\ HeaderEnds(d) \in SUBSET (1..Len(d))
  BY <1>1 DEF HeaderEnds
<1>3. ASSUME NEW i \in HeaderEnds(d), i < h
      PROVE  FALSE
  <2>1. i \in 1..Len(d) /\ Newline(d[i]) /\ (i = 1 \/ Newline(d[i - 1]))
    BY <1>1, <1>3 DEF HeaderEnds
  <2>2. i \in {5, h - 1}
    BY <1>1, <1>3, <2>1
  <2>3. i - 1 \in 1..Len(d) /\ i - 1 <= h /\ i # 1 /\ i - 1 \notin {5, h - 1, h}
    BY <1>1, <1>3, <2>1, <2>2
  <2> QED BY <1>1, <2>1, <2>3
<1>4. ASSUME h <= Len(d)
      PROVE  h \in HeaderEnds(d)
  <2>1. h \in 1..Len(d) /\ h - 1 \in 1..Len(d)
    BY <1>1, <1>4
  <2>2. Newline(d[h]) /\ Newline(d[h - 1])
    BY <1>1, <2>1
  <2> QED BY <1>1, <2>1, <2>2 DEF HeaderEnds
<1>5. \A i \in HeaderEnds(d) : h <= i
  BY <1>1, <1>2, <1>3
<1>6. ASSUME h <= Len(d)
      PROVE  HeaderSize(d) = h
  <2>1. h \in HeaderEnds(d)
    BY <1>4, <1>6
  <2>2. Least(HeaderEnds(d)) \in HeaderEnds(d) /\ Least(HeaderEnds(d)) <= h
    BY <1>2, <2>1, LeastProperties
  <2>3. Least(HeaderEnds(d)) = h
    BY <1>1, <1>2, <1>5, <2>2
  <2> QED BY <2>1, <2>3 DEF HeaderSize
<1>7. Len(d) < h => HeaderEnds(d) = {}
  BY <1>1, <1>2, <1>5
<1> QED BY <1>4, <1>5, <1>6, <1>7

\* The length of a request's body, as far as its header block is there.
LEMMA LengthsFound ==
  ASSUME NEW d \in Seq(Token), NEW q \in Seq(Token), NEW h, Written(q, h), Begins(d, q)
  PROVE  /\ h = 6 \/ Len(d) < 6 => ClenLines(d) = {}
         /\ h # 6 /\ 6 <= Len(d) => ClenLines(d) = {6}
         /\ Len(d) <= 6 => LengthAt(d, 6) = Refused
         /\ h # 6 /\ 6 < Len(d) => LengthAt(d, 6) \in 0..Len(q) - h
         /\ h # 6 /\ h <= Len(d) => LengthAt(d, 6) = Len(q) - h
<1>1. /\ h \in {6, 9, 10} /\ Len(d) \in Nat /\ DOMAIN d = 1..Len(d)
      /\ \A i \in 1..Len(d) : i <= h => d[i] = q[i]
      /\ \A i \in 1..Len(d) : i <= h => (Newline(d[i]) <=> i \in {5, h - 1, h})
      /\ \A i \in 1..Len(d) : i <= h => (d[i].kind = "clen" <=> i = 6 /\ h # 6)
  BY KindsOfData
<1>2. /\ \A i \in HeaderEnds(d) : h <= i
      /\ h <= Len(d) => h \in HeaderEnds(d)
  BY BlockEnds
<1>3. HeaderEnds(d) \in SUBSET Nat
  BY <1>1 DEF HeaderEnds
<1>4. ASSUME NEW i \in ClenLines(d)
      PROVE  i = 6 /\ h # 6 /\ 6 <= Len(d)
  <2>1. i \in 1..Len(d) /\ d[i].kind = "clen" /\ \A e \in HeaderEnds(d) : i < e
    BY <1>1, <1>4 DEF ClenLines
  <2>2. i <= h
    BY <1>1, <1>2, <2>1
  <2> QED BY <1>1, <2>1, <2>2
<1>5. ASSUME h # 6, 6 <= Len(d)
      PROVE  6 \in ClenLines(d)
  <2>1. 6 \in 1..Len(d) /\ 5 \in 1..Len(d) /\ 6 <= h /\ 5 <= h
    BY <1>1, <1>5
  <2>2. d[6].kind = "clen" /\ Newline(d[5])
    BY <1>1, <1>5, <2>1
  <2>3. \A e \in HeaderEnds(d) : 6 < e
    BY <1>1, <1>2, <1>3, <1>5
  <2> QED BY <1>1, <2>1, <2>2, <2>3 DEF ClenLines
<1>6. ASSUME h # 6, 6 < Len(d)
      PROVE  /\ LengthAt(d, 6) \in 0..Len(q) - h
             /\ h <= Len(d) => LengthAt(d, 6) = Len(q) - h
  <2>1. 7 \in DOMAIN d /\ d[7] = q[7] /\ (8 \in DOMAIN d => d[8] = q[8])
    BY <1>1, <1>6
  <2>2. Len(q) \in Nat /\ h <= Len(q)
    BY KindsOfRequest
  <2>3. IsKind(d, 6 + 1, "digit")
    BY <1>1, <1>6, <2>1, KindsOfRequest DEF IsKind
  <2>4. CASE h = 9
    <3>1. ~IsKind(d, 6 + 2, "more")
      BY <2>1, <2>4, KindsOfRequest DEF IsKind
    <3>2. LengthAt(d, 6) = q[7].num
      BY <2>1, <2>3, <3>1 DEF LengthAt
    <3>3. q[7].num = Len(q) - 9
      BY <2>4, KindsOfRequest
    <3> QED BY <2>2, <2>4, <3>2, <3>3
  <2>5. CASE h = 10
    <3>1. q[8].kind = "more" /\ q[7].num \in 0..q[8].num /\ q[8].num = Len(q) - 10
      BY <2>5, KindsOfRequest
    <3>2. CASE 8 \in DOMAIN d
      <4>1. IsKind(d, 6 + 2, "more")
        BY <2>1, <3>1, <3>2 DEF IsKind
      <4>2. LengthAt(d, 6) = q[8].num
        BY <2>1, <2>3, <3>2, <4>1 DEF LengthAt
      <4> QED BY <2>2, <2>5, <3>1, <4>2
    <3>3. CASE 8 \notin DOMAIN d
      <4>1. ~IsKind(d, 6 + 2, "more")
        BY <3>3 DEF IsKind
      <4>2. LengthAt(d, 6) = q[7].num
        BY <2>1, <2>3, <4>1 DEF LengthAt
      <4> QED BY <1>1, <2>2, <2>5, <3>1, <3>3, <4>2
    <3> QED BY <3>2, <3>3
  <2> QED BY <1>1, <1>6, <2>4, <2>5
<1>7. Len(d) <= 6 => LengthAt(d, 6) = Refused
  BY <1>1 DEF LengthAt, IsKind
<1>8. h = 6 \/ Len(d) < 6 => ClenLines(d) = {}
  BY <1>1, <1>4
<1>9. h # 6 /\ 6 <= Len(d) => ClenLines(d) = {6}
  BY <1>4, <1>5
<1>10. h <= Len(d) /\ h # 6 => 6 < Len(d)
  BY <1>1
<1> QED BY <1>6, <1>7, <1>8, <1>9, <1>10

\* What is read of a Content-Length: nothing yet, an empty value if the packet
\* ended behind its name, or no more than the length of the body.
Lengths(q, h) == {Absent} \cup 0..Len(q) - h

\* The length read of the beginning of a request is its own, or is not there yet.
LEMMA LengthRead ==
  ASSUME NEW d \in Seq(Token), NEW q \in Seq(Token), NEW h, Written(q, h), Begins(d, q),
         NEW old \in Lengths(q, h)
  PROVE  /\ \/ ParsedLength(old, d) \in Lengths(q, h)
            \/ ParsedLength(old, d) = Refused /\ Len(d) <= 6 /\ h # 6
         /\ old = Absent /\ h # 6 /\ h <= Len(d) => ParsedLength(old, d) = Len(q) - h
         /\ old = Absent /\ h = 6 => ParsedLength(old, d) = Absent
         /\ old # Absent => ParsedLength(old, d) = old
<1>1. /\ h = 6 \/ Len(d) < 6 => ClenLines(d) = {}
      /\ h # 6 /\ 6 <= Len(d) => ClenLines(d) = {6}
      /\ Len(d) <= 6 => LengthAt(d, 6) = Refused
      /\ h # 6 /\ 6 < Len(d) => LengthAt(d, 6) \in 0..Len(q) - h
      /\ h # 6 /\ h <= Len(d) => LengthAt(d, 6) = Len(q) - h
  BY LengthsFound
<1>2. h \in {6, 9, 10} /\ Len(d) \in Nat
  BY KindsOfRequest
<1>3. Least({6}) = 6
  BY LeastIs
<1>4. CASE ClenLines(d) = {} \/ old # Absent
  <2>1. ParsedLength(old, d) = old
    BY <1>4 DEF ParsedLength
  <2>2. ASSUME old = Absent, h # 6, h <= Len(d)
        PROVE  FALSE
    <3>1. 6 <= Len(d)
      BY <1>2, <2>2
    <3> QED BY <1>1, <1>4, <2>2, <3>1
  <2> QED BY <2>1, <2>2
<1>5. CASE ClenLines(d) = {6} /\ old = Absent
  <2>1. ParsedLength(old, d) = LengthAt(d, 6)
    BY <1>3, <1>5 DEF ParsedLength
  <2>2. h # 6 /\ 6 <= Len(d)
    BY <1>1, <1>2, <1>5
  <2>3. CASE Len(d) <= 6
    <3>1. ~(h <= Len(d))
      BY <1>2, <2>2, <2>3
    <3> QED BY <1>1, <1>5, <2>1, <2>2, <2>3, <3>1
  <2>4. CASE ~(Len(d) <= 6)
    <3>1. 6 < Len(d)
      BY <1>2, <2>2, <2>4
    <3> QED BY <1>1, <1>5, <2>1, <2>2, <3>1 DEF Lengths
  <2> QED BY <2>3, <2>4
<1> QED BY <1>1, <1>2, <1>4, <1>5

\* Data that holds all of the request is complete.
LEMMA WholeIsComplete ==
  ASSUME NEW d \in Seq(Token), NEW q \in Seq(Token), NEW h, Written(q, h), Begins(d, q),
         Len(q) <= Len(d), NEW clen \in Lengths(q, h)
  PROVE  Outcome(clen, d) = "COMPLETE"
<1>1. h \in {6, 9, 10} /\ h <= Len(q) /\ Len(q) \in Nat /\ Len(d) \in Nat
  BY KindsOfRequest
<1>2. HeaderSize(d) = h
  BY <1>1, BlockEnds
<1>3. CASE clen = Absent
  BY <1>3 DEF Outcome, Absent, Refused
<1>4. CASE clen \in 0..Len(q) - h
  <2>1. clen # Absent /\ clen # Refused /\ clen >= 0 /\ HeaderSize(d) # -1
    BY <1>1, <1>2, <1>4 DEF Absent, Refused
  <2>2. ~WantsMore(clen, d)
    BY <1>1, <1>2, <1>4 DEF WantsMore
  <2> QED BY <2>1, <2>2 DEF Outcome
<1> QED BY <1>3, <1>4 DEF Lengths

\* Data that ends behind the header block, with the length read in full, is
\* complete when all of the request is there.
LEMMA BodyIsWaitedFor ==
  ASSUME NEW d \in Seq(Token), NEW q \in Seq(Token), NEW h, Written(q, h), Begins(d, q),
         h <= Len(d), Len(d) < Len(q)
  PROVE  Outcome(Len(q) - h, d) = "INCOMPLETE"
<1>1. h \in {6, 9, 10} /\ Len(q) \in Nat /\ Len(d) \in Nat
  BY KindsOfRequest
<1>2. HeaderSize(d) = h
  BY BlockEnds
<1>3. /\ Len(q) - h # Absent /\ Len(q) - h # Refused /\ Len(q) - h >= 0
      /\ HeaderSize(d) # -1
  BY <1>1, <1>2 DEF Absent, Refused
<1>4. WantsMore(Len(q) - h, d)
  BY <1>1, <1>2 DEF WantsMore
<1> QED BY <1>3, <1>4 DEF Outcome

\* The least and the greatest of two numbers.
LEMMA TwoAndThree == Least({2, 3}) = 2 /\ Greatest({2, 3}) = 3
<1> DEFINE S == {2, 3}
<1>1. S \in SUBSET Nat /\ S \in SUBSET (1..3) /\ 2 \in S /\ 3 \in S
  OBVIOUS
<1>2. \A j \in S : 2 <= j /\ j <= 3
  OBVIOUS
<1> HIDE DEF S
<1>3. Least(S) = 2
  BY <1>1, <1>2, LeastIs
<1>4. Greatest(S) = 3
  BY <1>1, <1>2, GreatestIs
<1> QED BY <1>3, <1>4 DEF S

\* The sizes of small sets.
LEMMA SmallSets ==
  /\ Cardinality({1}) = 1 /\ Cardinality({1, 2}) = 2 /\ Cardinality({1, 2, 4}) = 3
  /\ \A S : S = {1} \/ S = {1, 2} \/ S = {1, 2, 4} => IsFiniteSet(S)
<1>1. IsFiniteSet({1}) /\ Cardinality({1}) = 1
  BY FS_Singleton
<1>2. IsFiniteSet({1} \cup {2}) /\ Cardinality({1} \cup {2}) = 2
  <2>1. 2 \notin {1}
    OBVIOUS
  <2> QED BY <1>1, <2>1, FS_AddElement
<1>3. {1} \cup {2} = {1, 2}
  OBVIOUS
<1>4. IsFiniteSet({1, 2} \cup {4}) /\ Cardinality({1, 2} \cup {4}) = 3
  <2>1. 4 \notin {1, 2} /\ IsFiniteSet({1, 2}) /\ Cardinality({1, 2}) = 2
    BY <1>2, <1>3
  <2> QED BY <2>1, FS_AddElement
<1>5. {1, 2} \cup {4} = {1, 2, 4}
  OBVIOUS
<1> QED BY <1>1, <1>2, <1>3, <1>4, <1>5

\* The second word of the first line is the target, all of it.
LEMMA EndpointFound ==
  ASSUME NEW d \in Seq(Token), NEW q \in Seq(Token), NEW h, Written(q, h), Begins(d, q),
         5 <= Len(d)
  PROVE  HasEndpoint(d) /\ Endpoint(d) = SubSeq(d, 2, 3)
<1>1. /\ Len(d) \in Nat /\ DOMAIN d = 1..Len(d) /\ {1, 2, 3, 4, 5} \subseteq 1..Len(d)
      /\ d[1].kind = "method" /\ d[2].kind = "target" /\ d[3].kind = "tail"
      /\ d[4].kind = "version" /\ d[5].kind = "eol"
  <2>1. /\ Len(d) \in Nat /\ DOMAIN d = 1..Len(d) /\ h \in {6, 9, 10}
        /\ \A i \in 1..Len(d) : i <= h => d[i] = q[i]
    BY KindsOfData
  <2>2. \A i \in {1, 2, 3, 4, 5} : i \in 1..Len(d) /\ i <= h
    BY <2>1
  <2> QED BY <2>1, <2>2, KindsOfRequest
<1>2. FirstLine(d) = {1, 2, 3, 4}
  <2>1. \A i \in FirstLine(d) : i \in 1..Len(d) /\ ~(5 \in 1..i)
    BY <1>1 DEF FirstLine, Newline
  <2>2. \A i \in FirstLine(d) : i \in {1, 2, 3, 4}
    BY <1>1, <2>1
  <2>3. \A i \in {1, 2, 3, 4} : \A j \in 1..i : j \in {1, 2, 3, 4}
    OBVIOUS
  <2>4. \A j \in {1, 2, 3, 4} : ~Newline(d[j])
    BY <1>1 DEF Newline
  <2>5. \A i \in {1, 2, 3, 4} : i \in FirstLine(d)
    BY <1>1, <2>3, <2>4 DEF FirstLine
  <2> QED BY <2>2, <2>5
<1>3. WordStarts(d) = {1, 2, 4}
  BY <1>1, <1>2 DEF WordStarts, Spaced
<1>4. HasEndpoint(d)
  BY <1>3, SmallSets DEF HasEndpoint
<1>5. {i \in FirstLine(d) : Cardinality({w \in WordStarts(d) : w <= i}) = 2} = {2, 3}
  <2>1. /\ {w \in {1, 2, 4} : w <= 1} = {1} /\ {w \in {1, 2, 4} : w <= 2} = {1, 2}
        /\ {w \in {1, 2, 4} : w <= 3} = {1, 2} /\ {w \in {1, 2, 4} : w <= 4} = {1, 2, 4}
    OBVIOUS
  <2>2. /\ Cardinality({w \in {1, 2, 4} : w <= 1}) = 1
        /\ Cardinality({w \in {1, 2, 4} : w <= 2}) = 2
        /\ Cardinality({w \in {1, 2, 4} : w <= 3}) = 2
        /\ Cardinality({w \in {1, 2, 4} : w <= 4}) = 3
    BY <2>1, SmallSets
  <2>3. {i \in {1, 2, 3, 4} : Cardinality({w \in {1, 2, 4} : w <= i}) = 2} = {2, 3}
    BY <2>2
  <2> QED BY <1>2, <1>3, <2>3
<1>6. Text(d, {2, 3}) = SubSeq(d, 2, 3)
  BY TwoAndThree DEF Text
<1> QED BY <1>4, <1>5, <1>6 DEF Endpoint, Word

\* All of a request is read as its client wrote it.
LEMMA WholeIsMeant ==
  ASSUME NEW q \in Seq(Token), NEW h, Written(q, h)
  PROVE  /\ HasEndpoint(q)
         /\ Endpoint(q) = Text(q, {i \in DOMAIN q : q[i].kind \in {"target", "tail"}})
         /\ Payload(q) = Text(q, {i \in DOMAIN q : q[i].kind \in {"body"}})
<1>1. /\ h \in {6, 9, 10} /\ h <= Len(q) /\ Len(q) \in Nat /\ DOMAIN q = 1..Len(q)
      /\ \A i \in 1..Len(q) : h < i => q[i].kind = "body"
  BY KindsOfRequest
<1>2. Begins(q, q)
  BY DEF Begins
<1>3. HasEndpoint(q) /\ Endpoint(q) = SubSeq(q, 2, 3)
  BY <1>1, <1>2, EndpointFound
<1>4. \A i \in 1..h : /\ q[i].kind \in {"target", "tail"} <=> i \in {2, 3}
                      /\ q[i].kind # "body"
  <2>1. /\ q[1].kind = "method" /\ q[2].kind = "target" /\ q[3].kind = "tail"
        /\ q[4].kind = "version" /\ q[5].kind = "eol" /\ q[h].kind = "blank"
    BY KindsOfRequest
  <2>2. CASE h = 6
    <3>1. \A i \in 1..h : i \in {1, 2, 3, 4, 5, 6}
      BY <2>2
    <3> QED BY <2>1, <2>2, <3>1
  <2>3. CASE h = 9
    <3>1. \A i \in 1..h : i \in {1, 2, 3, 4, 5, 6, 7, 8, 9}
      BY <2>3
    <3>2. q[6].kind = "clen" /\ q[7].kind = "digit" /\ q[8].kind = "eol"
      BY <2>3, KindsOfRequest
    <3> QED BY <2>1, <2>3, <3>1, <3>2
  <2>4. CASE h = 10
    <3>1. \A i \in 1..h : i \in {1, 2, 3, 4, 5, 6, 7, 8, 9, 10}
      BY <2>4
    <3>2. /\ q[6].kind = "clen" /\ q[7].kind = "digit" /\ q[8].kind = "more"
          /\ q[9].kind = "eol"
      BY <2>4, KindsOfRequest
    <3> QED BY <2>1, <2>4, <3>1, <3>2
  <2> QED BY <1>1, <2>2, <2>3, <2>4
<1>5. {i \in DOMAIN q : q[i].kind \in {"target", "tail"}} = {2, 3}
  <2>1. \A i \in DOMAIN q : i \in 1..h \/ (h < i /\ i \in 1..Len(q))
    BY <1>1
  <2>2. 2 \in DOMAIN q /\ 3 \in DOMAIN q /\ 2 \in 1..h /\ 3 \in 1..h
    BY <1>1
  <2> QED BY <1>1, <1>4, <2>1, <2>2
<1>6. {i \in DOMAIN q : q[i].kind \in {"body"}} = h + 1 .. Len(q)
  <2>1. \A i \in DOMAIN q : i \in 1..h \/ i \in h + 1 .. Len(q)
    BY <1>1
  <2>2. \A i \in h + 1 .. Len(q) : i \in DOMAIN q /\ i \in 1..Len(q) /\ h < i
    BY <1>1
  <2>3. \A i \in h + 1 .. Len(q) : i \in DOMAIN q /\ q[i].kind = "body"
    BY <1>1, <2>2
  <2>4. \A i \in DOMAIN q : q[i].kind = "body" => i \in h + 1 .. Len(q)
    BY <1>4, <2>1
  <2> QED BY <2>3, <2>4
<1>7. Text(q, {2, 3}) = SubSeq(q, 2, 3)
  BY TwoAndThree DEF Text
<1>8. Payload(q) = SubSeq(q, h + 1, Len(q))
  BY <1>1, <1>2, BlockEnds DEF Payload
<1>9. Text(q, h + 1 .. Len(q)) = SubSeq(q, h + 1, Len(q))
  <2>1. CASE Len(q) <= h
    <3>1. h + 1 .. Len(q) = {}
      BY <1>1, <2>1
    <3>2. SubSeq(q, h + 1, Len(q)) = <<>>
      BY <1>1, <2>1, SubSeqEmpty
    <3> QED BY <3>1, <3>2 DEF Text
  <2>2. CASE ~(Len(q) <= h)
    <3> DEFINE I == h + 1 .. Len(q)
    <3>1. I \in SUBSET Nat /\ I \in SUBSET (1..Len(q)) /\ h + 1 \in I /\ Len(q) \in I
      <4>1. h \in Nat /\ Len(q) \in Nat /\ h < Len(q)
        BY <1>1, <2>2
      <4> QED BY <4>1
    <3>2. \A i \in I : h + 1 <= i /\ i <= Len(q)
      BY <1>1
    <3> HIDE DEF I
    <3>3. Least(I) = h + 1
      BY <3>1, <3>2, LeastIs
    <3>4. Greatest(I) = Len(q)
      BY <1>1, <3>1, <3>2, GreatestIs
    <3>5. I # {}
      BY <3>1
    <3> QED BY <3>3, <3>4, <3>5 DEF Text, I
  <2> QED BY <2>1, <2>2
<1> QED BY <1>3, <1>5, <1>6, <1>7, <1>8, <1>9

-----------------------------------------------------------------------------
(* A packet that arrives, in terms of the stream. *)

\* What the session holds when c has received up to last, and the length that
\* is then known.
Arrived(c, last) == Segment(c, LastUpto(c), last)

KnownLength(c, last) == ParsedLength(sessions[PortOf[c]].clen, Arrived(c, last))

Verdict(c, last) == Outcome(KnownLength(c, last), Arrived(c, last))

Keeps(c, last) ==
  sessions' = [sessions EXCEPT ![PortOf[c]] =
                 [data |-> Arrived(c, last), clen |-> KnownLength(c, last)]]

Waits(c, last) ==
  /\ \/ Verdict(c, last) = "INCOMPLETE"
     \/ Verdict(c, last) = "COMPLETE" /\ ~HasEndpoint(Arrived(c, last))
  /\ Keeps(c, last)
  /\ UNCHANGED <<server, dispatched, deferred, replies>>

Throws(c, last) ==
  /\ Verdict(c, last) = "throws"
  /\ Keeps(c, last)
  /\ server' = "threw"
  /\ UNCHANGED <<dispatched, deferred, replies>>

HandsOver(c, last) ==
  /\ Verdict(c, last) = "COMPLETE" /\ HasEndpoint(Arrived(c, last))
  /\ HandleEndpoint(c, Arrived(c, last))
  /\ sessions' = [sessions EXCEPT ![PortOf[c]] = NoSession]
  /\ UNCHANGED server

\* After a packet a session waits, throws or hands over.
LEMMA ReceiveIsOneOfThree ==
  ASSUME SegmentInv, NEW c \in Conns, NEW packet \in Packets(c), Receive(c, packet)
  PROVE  \E last \in received[c] + 1 .. Len(Stream[c]) :
           /\ last <= SentUpTo(c)
           /\ Stream[c][last].kind \in CutAfter
           /\ received' = [received EXCEPT ![c] = last]
           /\ UNCHANGED <<conn, sent>>
           /\ Waits(c, last) \/ Throws(c, last) \/ HandsOver(c, last)
<1>1. /\ TypeOK /\ received \in [Conns -> Nat] /\ received[c] \in Nat
      /\ PortOf[c] \in Ports /\ sessions \in [Ports -> Session]
  BY TypesOfConnection DEF SegmentInv
<1>2. PICK last \in received[c] + 1 .. SentUpTo(c) :
         /\ Stream[c][last].kind \in CutAfter
         /\ packet = SubSeq(Stream[c], received[c] + 1, last)
  BY DEF Packets
<1>3. PICK other \in received[c] + 1 .. Len(Stream[c]) :
         /\ other <= SentUpTo(c)
         /\ packet = SubSeq(Stream[c], received[c] + 1, other)
         /\ packet \in Seq(Token) /\ packet # <<>>
         /\ received[c] + Len(packet) = other
  BY <1>1, PacketProperties
<1>4. SentUpTo(c) \in 0..Len(Stream[c]) /\ Len(Stream[c]) \in Nat /\ Stream[c] \in Seq(Token)
  BY <1>1, StreamAssumption, EndsAssumption DEF TypeOK, SentUpTo
<1>5. last \in received[c] + 1 .. Len(Stream[c]) /\ last <= SentUpTo(c)
  BY <1>1, <1>2, <1>4
<1>6. Len(packet) = last - received[c]
  BY <1>1, <1>2, <1>4, <1>5, SubSeqProperties
<1>7. received[c] + Len(packet) = last
  BY <1>1, <1>5, <1>6
<1>8. received' = [received EXCEPT ![c] = last]
  BY <1>1, <1>7 DEF Receive
<1>9. Gathered(sessions[PortOf[c]], packet) = [data |-> Arrived(c, last), clen |-> KnownLength(c, last)]
  <2>1. sessions[PortOf[c]].data = Segment(c, LastUpto(c), received[c])
    BY DEF SegmentInv, SegmentsOf
  <2>2. sessions[PortOf[c]].data \o packet = Arrived(c, last)
    BY <1>2, <1>5, <2>1, PacketContinues DEF Arrived
  <2> QED BY <2>2 DEF Gathered, KnownLength
<1>10. PICK s \in {Gathered(sessions[PortOf[c]], packet)} :
       \/ /\ \/ Outcome(s.clen, s.data) = "INCOMPLETE"
             \/ Outcome(s.clen, s.data) = "COMPLETE" /\ ~HasEndpoint(s.data)
          /\ sessions' = [sessions EXCEPT ![PortOf[c]] = s]
          /\ UNCHANGED <<server, dispatched, deferred, replies>>
       \/ /\ Outcome(s.clen, s.data) = "throws"
          /\ sessions' = [sessions EXCEPT ![PortOf[c]] = s]
          /\ server' = "threw"
          /\ UNCHANGED <<dispatched, deferred, replies>>
       \/ /\ Outcome(s.clen, s.data) = "COMPLETE" /\ HasEndpoint(s.data)
          /\ HandleEndpoint(c, s.data)
          /\ sessions' = [sessions EXCEPT ![PortOf[c]] = NoSession]
          /\ UNCHANGED server
  BY DEF Receive, SessionKey, Erase
<1>11. /\ s = [data |-> Arrived(c, last), clen |-> KnownLength(c, last)]
       /\ s.data = Arrived(c, last) /\ s.clen = KnownLength(c, last)
  BY <1>9, <1>10
<1>12. Waits(c, last) \/ Throws(c, last) \/ HandsOver(c, last)
  BY <1>10, <1>11 DEF Waits, Throws, HandsOver, Keeps, Verdict
<1>13. UNCHANGED <<conn, sent>>
  BY DEF Receive
<1> QED BY <1>2, <1>5, <1>8, <1>12, <1>13

\* The tokens of a segment are those of the stream.
LEMMA ArrivedTokens ==
  ASSUME SegmentInv, NEW c \in Conns, NEW last \in received[c] + 1 .. Len(Stream[c])
  PROVE  /\ Arrived(c, last) \in Seq(Token)
         /\ Len(Arrived(c, last)) = last - LastUpto(c)
         /\ LastUpto(c) \in 0..last - 1 /\ last \in 1..Len(Stream[c])
         /\ \A i \in 1..last - LastUpto(c) : Arrived(c, last)[i] = Stream[c][LastUpto(c) + i]
<1>1. LastUpto(c) \in 0..received[c] /\ received[c] \in Nat
  BY TypesOfConnection DEF SegmentInv, SegmentsOf
<1>2. Stream[c] \in Seq(Token) /\ Len(Stream[c]) \in Nat
  BY StreamAssumption
<1>3. LastUpto(c) + 1 \in 1..Len(Stream[c]) /\ last \in LastUpto(c) .. Len(Stream[c])
      /\ last \in 1..Len(Stream[c]) /\ LastUpto(c) \in 0..last - 1
  BY <1>1, <1>2
<1> DEFINE m == LastUpto(c) + 1
           seq == Stream[c]
<1>4. m \in 1..Len(seq) + 1 /\ last \in m - 1 .. Len(seq) /\ seq \in Seq(Token)
  BY <1>2, <1>3
<1>5. /\ SubSeq(seq, m, last) \in Seq(Token)
      /\ Len(SubSeq(seq, m, last)) = last - m + 1
      /\ \A i \in 1..last - m + 1 : SubSeq(seq, m, last)[i] = seq[m + i - 1]
  <2> HIDE DEF m, seq
  <2> QED BY <1>4, SubSeqProperties
<1>6. last - m + 1 = last - LastUpto(c) /\ \A i \in Int : m + i - 1 = LastUpto(c) + i
  BY <1>3
<1>7. Arrived(c, last) = SubSeq(seq, m, last)
  BY DEF Arrived, Segment
<1>8. ASSUME NEW i \in 1..last - LastUpto(c)
      PROVE  Arrived(c, last)[i] = Stream[c][LastUpto(c) + i]
  <2>1. i \in 1..last - m + 1 /\ m + i - 1 = LastUpto(c) + i
    BY <1>3, <1>6
  <2>2. SubSeq(seq, m, last)[i] = seq[m + i - 1]
    BY <1>5, <2>1
  <2> QED BY <1>7, <2>1, <2>2
<1>9. Len(Arrived(c, last)) = last - m + 1 /\ Arrived(c, last) \in Seq(Token)
  BY <1>5, <1>7
<1> HIDE DEF m, seq
<1> QED BY <1>3, <1>6, <1>8, <1>9

-----------------------------------------------------------------------------
(* What makes the receive callback throw.                                  *)

\* Only a refused length makes the session throw.
LEMMA OutcomeThrows ==
  ASSUME NEW clen \in Nat \cup {Absent, Refused}, NEW d
  PROVE  Outcome(clen, d) = "throws" <=> clen = Refused
<1>1. CASE clen = Absent
  BY <1>1 DEF Outcome, Absent, Refused
<1>2. CASE clen = Refused
  BY <1>2 DEF Outcome, Absent, Refused
<1>3. CASE clen \in Nat
  <2>1. clen # Absent /\ clen # Refused /\ clen >= 0
    BY <1>3 DEF Absent, Refused
  <2>2. CASE HeaderSize(d) = -1
    BY <2>1, <2>2 DEF Outcome
  <2>3. CASE HeaderSize(d) # -1
    BY <2>1, <2>3 DEF Outcome
  <2> QED BY <2>1, <2>2, <2>3
<1> QED BY <1>1, <1>2, <1>3

\* A value is only refused where the data ends before it or it is a bad one.
LEMMA RefusedIsBad ==
  ASSUME SegmentInv, NEW c \in Conns,
         NEW last \in received[c] + 1 .. Len(Stream[c]),
         NEW old \in Nat \cup {Absent},
         ParsedLength(old, Arrived(c, last)) = Refused
  PROVE  LengthIsCut(Arrived(c, last)) \/ LengthIsBad(Arrived(c, last))
<1> DEFINE d == Arrived(c, last)
           n == last - LastUpto(c)
           l == Least(ClenLines(d))
<1>1. /\ d \in Seq(Token) /\ Len(d) = n /\ n \in Nat /\ DOMAIN d = 1..n
      /\ LastUpto(c) \in 0..last - 1 /\ last \in 1..Len(Stream[c])
  BY ArrivedTokens
<1> SUFFICES LengthIsCut(d) \/ LengthIsBad(d)
  OBVIOUS
<1> HIDE DEF d
<1>2. old = Absent /\ ClenLines(d) # {} /\ LengthAt(d, l) = Refused
  <2>1. old # Refused
    BY DEF Absent, Refused
  <2> QED BY <2>1 DEF ParsedLength, d
<1>3. l \in 1..n /\ d[l].kind = "clen"
  <2>1. ClenLines(d) \in SUBSET Nat /\ ClenLines(d) \in SUBSET DOMAIN d
    BY <1>1 DEF ClenLines
  <2>2. l \in ClenLines(d)
    BY <1>2, <2>1, LeastProperties
  <2> QED BY <1>1, <2>2 DEF ClenLines
<1> HIDE DEF l, n
<1>4. CASE IsKind(d, l + 1, "digit")
  <2>1. l + 1 \in DOMAIN d /\ d[l + 1].kind = "digit"
    BY <1>4 DEF IsKind
  <2>2. CASE IsKind(d, l + 2, "more")
    <3>1. l + 2 \in DOMAIN d /\ d[l + 2].kind = "more" /\ d[l + 2].num = Refused
      BY <1>2, <1>4, <2>2 DEF IsKind, LengthAt
    <3> QED BY <3>1 DEF LengthIsBad
  <2>3. CASE ~IsKind(d, l + 2, "more")
    <3>1. d[l + 1].num = Refused
      BY <1>2, <1>4, <2>3 DEF LengthAt
    <3> QED BY <2>1, <3>1 DEF LengthIsBad
  <2> QED BY <2>2, <2>3
<1>5. CASE ~IsKind(d, l + 1, "digit") /\ l < n
  <2>1. l + 1 \in DOMAIN d /\ d[l + 1].kind # "digit"
    BY <1>1, <1>3, <1>5 DEF IsKind
  <2> QED BY <1>1, <1>3, <1>5, <2>1 DEF LengthIsBad
<1>6. CASE ~(l < n)
  <2>1. l = n /\ n >= 1
    BY <1>1, <1>3, <1>6
  <2>2. d # <<>>
    BY <1>1, <2>1
  <2> QED BY <1>1, <1>3, <2>1, <2>2 DEF LengthIsCut
<1> QED BY <1>4, <1>5, <1>6

\* A session with a refused length is what made the server stop.
ThrowInv ==
  /\ SegmentInv
  /\ \A p \in Ports : sessions[p].clen = Refused => server = "threw"
  /\ ThrowsOnlyOnBadLength

\* A length is refused only because the packet ended before it or it is bad.
LEMMA ReceiveThrows ==
  ASSUME PortsDistinct, ThrowInv, NEW c \in Conns, RecvPacket(c)
  PROVE  /\ \A p \in Ports : sessions'[p].clen = Refused => server' = "threw"
         /\ ThrowsOnlyOnBadLength'
<1>1. PICK packet \in Packets(c) : Receive(c, packet)
  BY DEF RecvPacket
<1>2. PICK last \in received[c] + 1 .. Len(Stream[c]) :
           Waits(c, last) \/ Throws(c, last) \/ HandsOver(c, last)
  BY <1>1, ReceiveIsOneOfThree DEF ThrowInv
<1>3. /\ server = "listening" /\ PortOf[c] \in Ports /\ sessions \in [Ports -> Session]
      /\ SegmentInv
  BY TypesOfConnection DEF RecvPacket, ThrowInv, SegmentInv
<1>4. \A p \in Ports : sessions[p].clen # Refused
  BY <1>3 DEF ThrowInv
<1> DEFINE d == Arrived(c, last)
           n == KnownLength(c, last)
           s == [data |-> d, clen |-> n]
<1>5. sessions[PortOf[c]].clen \in Nat \cup {Absent}
  BY <1>3, <1>4 DEF Session
<1>6. d \in Seq(Token) /\ n \in Nat \cup {Absent, Refused}
  <2>1. d \in Seq(Token)
    BY <1>3, ArrivedTokens
  <2> QED BY <1>5, <2>1, ParsedLengthType DEF KnownLength
<1>7. Keeps(c, last) <=> sessions' = [sessions EXCEPT ![PortOf[c]] = s]
  BY DEF Keeps
<1>8. s.clen = n /\ s.data = d
  OBVIOUS
<1> HIDE DEF s, n, d
<1>9. CASE Waits(c, last) \/ HandsOver(c, last)
  <2>1. server' = "listening"
    BY <1>3, <1>9 DEF Waits, HandsOver
  <2>2. \A p \in Ports : sessions'[p].clen # Refused
    <3>1. CASE Waits(c, last)
      <4>1. n # Refused
        <5>1. Outcome(n, d) # "throws"
          BY <3>1 DEF Waits, Verdict, n, d
        <5> QED BY <1>6, <5>1, OutcomeThrows
      <4>2. sessions' = [sessions EXCEPT ![PortOf[c]] = s]
        BY <1>7, <3>1 DEF Waits
      <4> QED BY <1>3, <1>4, <1>8, <4>1, <4>2
    <3>2. CASE HandsOver(c, last)
      <4>1. sessions' = [sessions EXCEPT ![PortOf[c]] = NoSession]
        BY <3>2 DEF HandsOver
      <4>2. NoSession.clen # Refused
        BY DEF NoSession, NewSession, Absent, Refused
      <4> QED BY <1>3, <1>4, <4>1, <4>2
    <3> QED BY <1>9, <3>1, <3>2
  <2> QED BY <2>1, <2>2 DEF ThrowsOnlyOnBadLength
<1>10. CASE Throws(c, last)
  <2>1. server' = "threw" /\ sessions'[PortOf[c]] = s
    BY <1>3, <1>7, <1>10 DEF Throws
  <2>2. n = Refused
    <3>1. Outcome(n, d) = "throws"
      BY <1>10 DEF Throws, Verdict, n, d
    <3> QED BY <1>6, <3>1, OutcomeThrows
  <2>3. ParsedLength(sessions[PortOf[c]].clen, Arrived(c, last)) = Refused
    BY <2>2 DEF n, KnownLength
  <2>4. LengthIsCut(d) \/ LengthIsBad(d)
    BY <1>3, <1>5, <2>3, RefusedIsBad DEF d
  <2>5. sessions'[PortOf[c]].data = d
    BY <1>8, <2>1
  <2> QED BY <1>3, <2>1, <2>4, <2>5 DEF ThrowsOnlyOnBadLength
<1> QED BY <1>2, <1>9, <1>10

\* For any streams, cut anywhere: an exception of the parser leaves the receive
\* callback only when a packet ended between the name of Content-Length and its
\* value, or when std::stoul refuses what its client gave as the value.
THEOREM ServerThrowsOnlyOnBadLength ==
  ASSUME PortsDistinct
  PROVE  Spec => []ThrowsOnlyOnBadLength
<1>1. Init => ThrowInv
  <2> SUFFICES ASSUME Init PROVE ThrowInv
    OBVIOUS
  <2>1. server = "new" /\ \A p \in Ports : sessions[p].clen # Refused
    BY DEF Init, NoSession, NewSession, Absent, Refused
  <2> QED BY <2>1, InitSegments DEF ThrowInv, ThrowsOnlyOnBadLength
<1>2. ThrowInv /\ [Next]_vars => ThrowInv'
  <2> SUFFICES ASSUME ThrowInv, [Next]_vars
               PROVE  /\ \A p \in Ports : sessions'[p].clen = Refused => server' = "threw"
                      /\ ThrowsOnlyOnBadLength'
    BY NextSegments DEF ThrowInv
  <2>1. ASSUME NEW c \in Conns, RecvPacket(c)
        PROVE  /\ \A p \in Ports : sessions'[p].clen = Refused => server' = "threw"
               /\ ThrowsOnlyOnBadLength'
    BY <2>1, ReceiveThrows
  <2>2. CASE Listen
    BY <2>2 DEF Listen, ThrowInv, ThrowsOnlyOnBadLength
  <2>3. CASE UNCHANGED <<server, sessions>>
    BY <2>3 DEF ThrowInv, ThrowsOnlyOnBadLength
  <2>4. (\E c \in Conns : Accept(c) \/ ClientSend(c) \/ RecvClose(c)
           \/ \E i \in 1..Len(dispatched[c]) : DeferredReply(c, i))
        => UNCHANGED <<server, sessions>>
    BY DEF Accept, ClientSend, RecvClose, DeferredReply
  <2> QED BY <2>1, <2>2, <2>3, <2>4 DEF Next, ConnStep, vars
<1>3. ThrowInv => ThrowsOnlyOnBadLength
  BY DEF ThrowInv
<1> QED BY <1>1, <1>2, <1>3, PTL DEF Spec

-----------------------------------------------------------------------------
(* A request that is complete does not wait.                               *)

\* A request is the part of the stream between two ends.
LEMMA RequestTypes ==
  ASSUME NEW c \in Conns, NEW k \in 1..Len(Ends[c])
  PROVE  /\ Ends[c][k] \in 1..Len(Stream[c])
         /\ RequestStart(c, k) \in 0..Ends[c][k] - 1
         /\ RequestOf(c, k) \in Seq(Token)
         /\ Len(RequestOf(c, k)) = Ends[c][k] - RequestStart(c, k)
         /\ \A i \in 1..Ends[c][k] - RequestStart(c, k) :
              RequestOf(c, k)[i] = Stream[c][RequestStart(c, k) + i]
<1>1. Stream[c] \in Seq(Token) /\ Len(Stream[c]) \in Nat
  BY StreamAssumption
<1>2. /\ Ends[c] \in Seq(1..Len(Stream[c])) /\ Len(Ends[c]) \in Nat
      /\ \A i, j \in 1..Len(Ends[c]) : i < j => Ends[c][i] < Ends[c][j]
  BY EndsAssumption
<1>3. Ends[c][k] \in 1..Len(Stream[c])
  BY <1>2
<1>4. RequestStart(c, k) \in 0..Ends[c][k] - 1
  <2>1. CASE k = 1
    BY <1>1, <1>3, <2>1 DEF RequestStart
  <2>2. CASE k # 1
    <3>1. k - 1 \in 1..Len(Ends[c]) /\ k - 1 < k
      BY <1>2, <2>2
    <3>2. Ends[c][k - 1] < Ends[c][k]
      BY <1>2, <3>1, ZenonT(40)
    <3>3. Ends[c][k - 1] \in 1..Len(Stream[c])
      BY <1>2, <3>1
    <3> QED BY <1>1, <1>3, <2>2, <3>2, <3>3 DEF RequestStart
  <2> QED BY <2>1, <2>2
<1> DEFINE m == RequestStart(c, k) + 1
           l == Ends[c][k]
           seq == Stream[c]
<1>5. m \in 1..Len(seq) + 1 /\ l \in m - 1 .. Len(seq) /\ seq \in Seq(Token)
  BY <1>1, <1>3, <1>4
<1>6. /\ SubSeq(seq, m, l) \in Seq(Token)
      /\ Len(SubSeq(seq, m, l)) = l - m + 1
      /\ \A i \in 1..l - m + 1 : SubSeq(seq, m, l)[i] = seq[m + i - 1]
  <2> HIDE DEF m, l, seq
  <2> QED BY <1>5, SubSeqProperties
<1>7. l - m + 1 = l - RequestStart(c, k) /\ \A i \in Int : m + i - 1 = RequestStart(c, k) + i
  BY <1>1, <1>3, <1>4
<1>8. RequestOf(c, k) = SubSeq(seq, m, l)
  BY DEF RequestOf
<1>9. ASSUME NEW i \in 1..l - RequestStart(c, k)
      PROVE  RequestOf(c, k)[i] = Stream[c][RequestStart(c, k) + i]
  <2>1. i \in 1..l - m + 1 /\ m + i - 1 = RequestStart(c, k) + i
    <3>1. i \in Int /\ i \in 1..l - RequestStart(c, k)
      OBVIOUS
    <3> HIDE DEF m, l
    <3> QED BY <1>7, <3>1
  <2>2. SubSeq(seq, m, l)[i] = seq[m + i - 1]
    BY <1>6, <2>1
  <2> QED BY <1>8, <2>1, <2>2
<1>10. Len(RequestOf(c, k)) = l - RequestStart(c, k) /\ RequestOf(c, k) \in Seq(Token)
  <2>1. Len(RequestOf(c, k)) = l - m + 1 /\ RequestOf(c, k) \in Seq(Token)
    BY <1>6, <1>8
  <2> HIDE DEF m
  <2> QED BY <1>7, <2>1
<1> QED BY <1>3, <1>4, <1>9, <1>10

\* What arrives of a session that began with a request.
LEMMA ArrivedBegins ==
  ASSUME SegmentInv, NEW c \in Conns, NEW last \in received[c] + 1 .. Len(Stream[c]),
         NEW k \in 1..Len(Ends[c]), LastUpto(c) = RequestStart(c, k)
  PROVE  /\ Arrived(c, last) \in Seq(Token) /\ RequestOf(c, k) \in Seq(Token)
         /\ Begins(Arrived(c, last), RequestOf(c, k))
         /\ Len(Arrived(c, last)) \in Nat /\ Len(RequestOf(c, k)) \in Nat
         /\ Len(RequestOf(c, k)) <= Len(Arrived(c, last)) <=> Ends[c][k] <= last
<1>1. /\ Arrived(c, last) \in Seq(Token)
      /\ Len(Arrived(c, last)) = last - LastUpto(c)
      /\ LastUpto(c) \in 0..last - 1 /\ last \in 1..Len(Stream[c])
      /\ \A i \in 1..last - LastUpto(c) : Arrived(c, last)[i] = Stream[c][LastUpto(c) + i]
  BY ArrivedTokens
<1>2. /\ Ends[c][k] \in 1..Len(Stream[c])
      /\ RequestStart(c, k) \in 0..Ends[c][k] - 1
      /\ RequestOf(c, k) \in Seq(Token)
      /\ Len(RequestOf(c, k)) = Ends[c][k] - RequestStart(c, k)
      /\ \A i \in 1..Ends[c][k] - RequestStart(c, k) :
           RequestOf(c, k)[i] = Stream[c][RequestStart(c, k) + i]
  BY RequestTypes
<1>3. /\ DOMAIN Arrived(c, last) = 1..last - LastUpto(c)
      /\ DOMAIN RequestOf(c, k) = 1..Ends[c][k] - RequestStart(c, k)
  BY <1>1, <1>2
<1>4. Begins(Arrived(c, last), RequestOf(c, k))
  BY <1>1, <1>2, <1>3 DEF Begins
<1>5. Len(Stream[c]) \in Nat
  BY StreamAssumption
<1>6. Len(Arrived(c, last)) \in Nat /\ Len(RequestOf(c, k)) \in Nat
  BY <1>1, <1>2
<1>7. Len(RequestOf(c, k)) <= Len(Arrived(c, last)) <=> Ends[c][k] <= last
  BY <1>1, <1>2, <1>5
<1> QED BY <1>1, <1>2, <1>4, <1>6, <1>7

\* One more dispatch, of all that has arrived.
LEMMA HandsOverAll ==
  ASSUME SegmentInv, NEW c \in Conns, NEW last \in received[c] + 1 .. Len(Stream[c]),
         received' = [received EXCEPT ![c] = last], HandsOver(c, last)
  PROVE  /\ Len(dispatched'[c]) = Len(dispatched[c]) + 1
         /\ dispatched'[c][Len(dispatched[c]) + 1] =
              [endpoint |-> Endpoint(Arrived(c, last)), payload |-> Payload(Arrived(c, last)),
               data |-> Arrived(c, last), upto |-> last]
         /\ \A i \in 1..Len(dispatched[c]) : dispatched'[c][i] = dispatched[c][i]
         /\ \A b \in Conns : b # c => dispatched'[b] = dispatched[b]
         /\ LastUpto(c)' = last
<1> DEFINE e == [endpoint |-> Endpoint(Arrived(c, last)), payload |-> Payload(Arrived(c, last)),
                 data |-> Arrived(c, last), upto |-> received'[c]]
           n == Len(dispatched[c])
<1>1. /\ received \in [Conns -> Nat] /\ dispatched \in [Conns -> Seq(Dispatch)]
      /\ dispatched[c] \in Seq(Dispatch) /\ n \in Nat
  BY TypesOfConnection DEF SegmentInv
<1>2. dispatched' = [dispatched EXCEPT ![c] = Append(@, e)]
  BY DEF HandsOver, HandleEndpoint
<1>3. received'[c] = last
  BY <1>1
<1>4. e.upto = received'[c]
  OBVIOUS
<1>5. e = [endpoint |-> Endpoint(Arrived(c, last)), payload |-> Payload(Arrived(c, last)),
           data |-> Arrived(c, last), upto |-> last]
  BY <1>3
<1> HIDE DEF e
<1>6. /\ Len(dispatched'[c]) = n + 1 /\ dispatched'[c][n + 1] = e
      /\ \A i \in 1..n : dispatched'[c][i] = dispatched[c][i]
      /\ \A b \in Conns : b # c => dispatched'[b] = dispatched[b]
  BY <1>1, <1>2
<1> HIDE DEF n
<1>7. LastUpto(c)' = last
  <2>1. n + 2 # 1 /\ n + 1 + 1 = n + 2 /\ n + 2 - 1 = n + 1
    BY <1>1
  <2>2. LastUpto(c)' = dispatched'[c][n + 1].upto
    BY <1>6, <2>1 DEF LastUpto, From
  <2> QED BY <1>3, <1>4, <1>6, <2>2
<1> QED BY <1>5, <1>6, <1>7 DEF n

\* As long as a session that began with a request waits, it does not hold all
\* of it, and no more of the length than there is of the body.
WaitsFor(c, k) ==
  /\ received[c] < Ends[c][k]
  /\ \E h \in 6..Len(RequestOf(c, k)) :
       /\ Written(RequestOf(c, k), h)
       /\ \/ sessions[PortOf[c]].clen \in Lengths(RequestOf(c, k), h)
          \/ sessions[PortOf[c]].clen = Refused /\ server = "threw"

WaitingOf(c) ==
  \A k \in 1..Len(Ends[c]) :
    WellFormed(c, k) /\ LastUpto(c) = RequestStart(c, k) => WaitsFor(c, k)

WaitInv == SegmentInv /\ \A c \in Conns : WaitingOf(c)

\* An empty session waits for whatever request comes next.
LEMMA EmptySessionWaits ==
  ASSUME NEW c \in Conns, NEW k \in 1..Len(Ends[c]), WellFormed(c, k),
         received[c] = RequestStart(c, k), sessions[PortOf[c]] = NoSession
  PROVE  WaitsFor(c, k)
<1>1. /\ Ends[c][k] \in 1..Len(Stream[c])
      /\ RequestStart(c, k) \in 0..Ends[c][k] - 1
  BY RequestTypes
<1>2. Len(Stream[c]) \in Nat
  BY StreamAssumption
<1>3. received[c] < Ends[c][k]
  BY <1>1, <1>2
<1>4. PICK h \in 6..Len(RequestOf(c, k)) : Written(RequestOf(c, k), h)
  BY DEF WellFormed
<1>5. sessions[PortOf[c]].clen \in Lengths(RequestOf(c, k), h)
  BY DEF Lengths, NoSession, NewSession
<1> QED BY <1>3, <1>4, <1>5 DEF WaitsFor

\* A packet leaves no complete request waiting in its session.
LEMMA ReceiveWaits ==
  ASSUME PortsDistinct, WaitInv, SegmentInv', NEW c \in Conns, RecvPacket(c)
  PROVE  \A b \in Conns : WaitingOf(b)'
<1>1. PICK packet \in Packets(c) : Receive(c, packet)
  BY DEF RecvPacket
<1>2. PICK last \in received[c] + 1 .. Len(Stream[c]) :
         /\ received' = [received EXCEPT ![c] = last]
         /\ Waits(c, last) \/ Throws(c, last) \/ HandsOver(c, last)
  BY <1>1, ReceiveIsOneOfThree DEF WaitInv
<1>3. /\ server = "listening" /\ PortOf[c] \in Ports /\ sessions \in [Ports -> Session]
      /\ SegmentInv /\ received \in [Conns -> Nat]
  BY TypesOfConnection DEF RecvPacket, WaitInv, SegmentInv
<1>4. received'[c] = last /\ \A b \in Conns : b # c => received'[b] = received[b]
  BY <1>2, <1>3
<1> DEFINE d == Arrived(c, last)
           n == KnownLength(c, last)
<1>5. ASSUME NEW b \in Conns, b # c
      PROVE  WaitingOf(b)'
  <2>1. PortOf[b] # PortOf[c] /\ PortOf[b] \in Ports
    BY <1>5, PortOfAssumption DEF PortsDistinct
  <2>2. sessions'[PortOf[b]] = sessions[PortOf[b]]
    BY <1>2, <1>3, <2>1 DEF Waits, Throws, HandsOver, Keeps
  <2>3. dispatched'[b] = dispatched[b]
    <3>1. CASE HandsOver(c, last)
      BY <1>2, <1>3, <1>5, <3>1, HandsOverAll
    <3>2. CASE Waits(c, last) \/ Throws(c, last)
      BY <3>2 DEF Waits, Throws
    <3> QED BY <1>2, <3>1, <3>2
  <2>4. LastUpto(b)' = LastUpto(b)
    BY <2>3 DEF LastUpto, From
  <2>5. server # "threw"
    BY <1>3
  <2>6. WaitingOf(b)
    BY DEF WaitInv
  <2>7. ASSUME NEW k \in 1..Len(Ends[b]), WellFormed(b, k), LastUpto(b) = RequestStart(b, k)
        PROVE  WaitsFor(b, k)'
    <3>1. WaitsFor(b, k)
      BY <2>6, <2>7 DEF WaitingOf
    <3> QED BY <1>4, <1>5, <2>2, <2>5, <3>1 DEF WaitsFor, RequestOf, RequestStart
  <2> QED BY <2>4, <2>7 DEF WaitingOf, WellFormed, RequestOf, RequestStart
<1>6. CASE HandsOver(c, last)
  <2>1. LastUpto(c)' = last
    BY <1>2, <1>3, <1>6, HandsOverAll
  <2>2. sessions'[PortOf[c]] = NoSession
    BY <1>3, <1>6 DEF HandsOver
  <2>3. ASSUME NEW k \in 1..Len(Ends[c]), WellFormed(c, k), last = RequestStart(c, k)
        PROVE  WaitsFor(c, k)'
    <3>1. /\ Ends[c][k] \in 1..Len(Stream[c])
          /\ RequestStart(c, k) \in 0..Ends[c][k] - 1 /\ Len(Stream[c]) \in Nat
      BY RequestTypes, StreamAssumption
    <3>2. received'[c] < Ends[c][k]
      BY <1>4, <2>3, <3>1
    <3>3. PICK h \in 6..Len(RequestOf(c, k)) : Written(RequestOf(c, k), h)
      BY <2>3 DEF WellFormed
    <3>4. sessions'[PortOf[c]].clen \in Lengths(RequestOf(c, k), h)
      BY <2>2 DEF Lengths, NoSession, NewSession
    <3> QED BY <3>2, <3>3, <3>4 DEF WaitsFor, RequestOf, RequestStart
  <2>4. WaitingOf(c)'
    BY <2>1, <2>3 DEF WaitingOf, WellFormed, RequestOf, RequestStart
  <2> QED BY <1>5, <2>4
<1>7. CASE Waits(c, last) \/ Throws(c, last)
  <2>1. LastUpto(c)' = LastUpto(c)
    BY <1>7 DEF Waits, Throws, LastUpto, From
  <2>2. sessions'[PortOf[c]].clen = n
    <3>1. sessions' = [sessions EXCEPT ![PortOf[c]] = [data |-> d, clen |-> n]]
      BY <1>7 DEF Waits, Throws, Keeps
    <3> QED BY <1>3, <3>1
  <2>3. ASSUME NEW k \in 1..Len(Ends[c]), WellFormed(c, k), LastUpto(c) = RequestStart(c, k)
        PROVE  WaitsFor(c, k)'
    <3> DEFINE q == RequestOf(c, k)
    <3>1. PICK h \in 6..Len(q) :
             Written(q, h) /\ sessions[PortOf[c]].clen \in Lengths(q, h)
      BY <1>3, <2>3 DEF WaitInv, WaitingOf, WaitsFor
    <3>2. /\ d \in Seq(Token) /\ q \in Seq(Token) /\ Begins(d, q)
          /\ Len(d) \in Nat /\ Len(q) \in Nat
          /\ Len(q) <= Len(d) <=> Ends[c][k] <= last
      BY <1>3, <2>3, ArrivedBegins
    <3>3. Ends[c][k] \in Nat /\ last \in Nat
      <4>1. Ends[c][k] \in 1..Len(Stream[c])
        BY RequestTypes
      <4>2. Len(Stream[c]) \in Nat /\ received[c] \in Nat
        BY <1>3, StreamAssumption
      <4> QED BY <4>1, <4>2
    <3> HIDE DEF d, q
    <3>4. \/ n \in Lengths(q, h)
          \/ n = Refused /\ Len(d) <= 6 /\ h # 6
      BY <3>1, <3>2, LengthRead DEF KnownLength, n, d
    <3>5. h \in {6, 9, 10} /\ h <= Len(q)
      BY <3>1, <3>2, KindsOfRequest
    <3>6. CASE n \in Lengths(q, h)
      <4>1. n # Refused
        BY <3>2, <3>5, <3>6 DEF Lengths, Absent, Refused
      <4>2. Outcome(n, d) # "throws"
        <5>1. n \in Nat \cup {Absent, Refused}
          BY <3>2, <3>5, <3>6 DEF Lengths
        <5> QED BY <4>1, <5>1, OutcomeThrows
      <4>3. ~(Outcome(n, d) = "COMPLETE" /\ HasEndpoint(d))
        BY <1>7, <4>2 DEF Waits, Throws, Verdict, n, d
      <4>4. ~(Len(q) <= Len(d))
        <5> SUFFICES ASSUME Len(q) <= Len(d) PROVE FALSE
          OBVIOUS
        <5>1. Outcome(n, d) = "COMPLETE"
          BY <3>1, <3>2, <3>6, WholeIsComplete
        <5>2. 5 <= Len(d)
          BY <3>2, <3>5
        <5>3. HasEndpoint(d)
          BY <3>1, <3>2, <5>2, EndpointFound
        <5> QED BY <4>3, <5>1, <5>3
      <4>5. received'[c] < Ends[c][k]
        BY <1>4, <3>2, <3>3, <4>4
      <4> QED BY <2>2, <3>1, <3>6, <4>5 DEF WaitsFor, RequestOf, RequestStart, q
    <3>7. CASE n = Refused /\ Len(d) <= 6 /\ h # 6
      <4>1. ~(Len(q) <= Len(d))
        BY <3>2, <3>5, <3>7
      <4>2. received'[c] < Ends[c][k]
        BY <1>4, <3>2, <3>3, <4>1
      <4>3. server' = "threw"
        <5>1. Outcome(n, d) = "throws"
          BY <3>7 DEF Outcome, Absent, Refused
        <5>2. ~Waits(c, last)
          BY <5>1 DEF Waits, Verdict, n, d
        <5> QED BY <1>7, <5>2 DEF Throws
      <4> QED BY <2>2, <3>1, <3>7, <4>2, <4>3 DEF WaitsFor, RequestOf, RequestStart, q
    <3> QED BY <3>4, <3>6, <3>7
  <2>4. WaitingOf(c)'
    BY <2>1, <2>3 DEF WaitingOf, WellFormed, RequestOf, RequestStart
  <2> QED BY <1>5, <2>4
<1> QED BY <1>2, <1>6, <1>7

\* Nothing waits before anything is received.
LEMMA InitWaits == Init => WaitInv
<1> SUFFICES ASSUME Init, NEW c \in Conns, NEW k \in 1..Len(Ends[c]),
                    WellFormed(c, k), LastUpto(c) = RequestStart(c, k)
             PROVE  WaitsFor(c, k)
  BY InitSegments DEF WaitInv, WaitingOf
<1>1. received[c] = 0 /\ LastUpto(c) = 0 /\ sessions[PortOf[c]] = NoSession
  BY PortOfAssumption DEF Init, LastUpto, From
<1> QED BY <1>1, EmptySessionWaits

\* No step leaves a complete request waiting.
LEMMA NextWaits ==
  PortsDistinct /\ WaitInv /\ [Next]_vars => WaitInv'
<1> SUFFICES ASSUME PortsDistinct, WaitInv, [Next]_vars
             PROVE  \A b \in Conns : WaitingOf(b)'
  BY NextSegments DEF WaitInv
<1>1. SegmentInv'
  BY NextSegments DEF WaitInv
<1>2. ASSUME NEW c \in Conns, RecvPacket(c)
      PROVE  \A b \in Conns : WaitingOf(b)'
  BY <1>1, <1>2, ReceiveWaits
<1>3. CASE /\ UNCHANGED <<received, sessions, dispatched>>
           /\ server' = "threw" <=> server = "threw"
  <2> SUFFICES ASSUME NEW b \in Conns, NEW k \in 1..Len(Ends[b]),
                      WellFormed(b, k), LastUpto(b)' = RequestStart(b, k)
               PROVE  WaitsFor(b, k)'
    BY DEF WaitingOf, WellFormed, RequestOf, RequestStart
  <2>1. LastUpto(b) = RequestStart(b, k)
    BY <1>3 DEF LastUpto, From
  <2>2. WaitsFor(b, k)
    BY <2>1 DEF WaitInv, WaitingOf
  <2> QED BY <1>3, <2>2 DEF WaitsFor, RequestOf, RequestStart
<1>4. Listen \/ UNCHANGED vars
        \/ (\E c \in Conns : Accept(c) \/ ClientSend(c) \/ RecvClose(c)
              \/ \E i \in 1..Len(dispatched[c]) : DeferredReply(c, i))
      => /\ UNCHANGED <<received, sessions, dispatched>>
         /\ server' = "threw" <=> server = "threw"
  BY DEF Listen, Accept, ClientSend, RecvClose, DeferredReply, vars
<1> QED BY <1>2, <1>3, <1>4 DEF Next, ConnStep

\* However TCP cuts the streams, and whatever else is in them: a session that
\* began with a well-formed request is handed over at the latest with the packet
\* that completes it.
THEOREM ServerKeepsNoRequestWaiting ==
  ASSUME PortsDistinct
  PROVE  Spec => []NoCompleteRequestWaits
<1>1. WaitInv => NoCompleteRequestWaits
  BY DEF WaitInv, WaitingOf, WaitsFor, LastUpto, NoCompleteRequestWaits
<1>2. WaitInv /\ [Next]_vars => WaitInv'
  BY NextWaits
<1>3. Init => WaitInv
  BY InitWaits
<1> QED BY <1>1, <1>2, <1>3, PTL DEF Spec

-----------------------------------------------------------------------------
(* Requests are handed over whole, if packets end behind header blocks or  *)
(* inside bodies and clients wait for the answer.                          *)

Sequential == CutAfter \subseteq {"blank", "body"} /\ ~Pipelined

\* There is no blank line and no body inside a header block.
LEMMA HeaderKinds ==
  ASSUME NEW q \in Seq(Token), NEW h, Written(q, h)
  PROVE  \A i \in 1..h : i < h => q[i].kind \notin {"blank", "body"}
<1>1. h \in {6, 9, 10}
  BY KindsOfRequest
<1>2. /\ q[1].kind = "method" /\ q[2].kind = "target" /\ q[3].kind = "tail"
      /\ q[4].kind = "version" /\ q[5].kind = "eol"
  BY KindsOfRequest
<1>3. CASE h = 6
  <2>1. \A i \in 1..h : i < h => i \in {1, 2, 3, 4, 5}
    BY <1>3
  <2> QED BY <1>2, <2>1
<1>4. CASE h = 9
  <2>1. \A i \in 1..h : i < h => i \in {1, 2, 3, 4, 5, 6, 7, 8}
    BY <1>4
  <2>2. q[6].kind = "clen" /\ q[7].kind = "digit" /\ q[8].kind = "eol"
    BY <1>4, KindsOfRequest
  <2> QED BY <1>2, <2>1, <2>2
<1>5. CASE h = 10
  <2>1. \A i \in 1..h : i < h => i \in {1, 2, 3, 4, 5, 6, 7, 8, 9}
    BY <1>5
  <2>2. /\ q[6].kind = "clen" /\ q[7].kind = "digit" /\ q[8].kind = "more"
        /\ q[9].kind = "eol"
    BY <1>5, KindsOfRequest
  <2> QED BY <1>2, <2>1, <2>2
<1> QED BY <1>1, <1>3, <1>4, <1>5

\* What c's session is while it gathers the k-th request: empty, or the header
\* block is there and the length was read in full.
Gathers(c, k) ==
  \E h \in 6..Len(RequestOf(c, k)) :
    /\ Written(RequestOf(c, k), h)
    /\ \/ received[c] = RequestStart(c, k) /\ sessions[PortOf[c]].clen = Absent
       \/ h # 6 /\ sessions[PortOf[c]].clen = Len(RequestOf(c, k)) - h

\* c's client has at most one request that is not answered, and all before it
\* were handed over as they were meant.
WholeOf(c) ==
  LET n == Len(dispatched[c])
      m == Len(replies[c])
  IN  /\ n <= sent[c] /\ sent[c] <= m + 1
      /\ \/ m = n /\ \A i : <<c, i>> \notin deferred
         \/ m + 1 = n /\ \A i : <<c, i>> \in deferred => i = n
      /\ LastUpto(c) = RequestStart(c, n + 1)
      /\ \A i \in 1..n : Handed(c)[i] = Meant(c, i)
      /\ n < Len(Ends[c]) => Gathers(c, n + 1)

ServiceInv == SegmentInv /\ AnswerInv /\ \A c \in Conns : WholeOf(c)

\* The types of what belongs to a connection.
LEMMA ServiceTypes ==
  ASSUME ServiceInv, NEW c \in Conns
  PROVE  /\ Len(dispatched[c]) \in Nat /\ Len(replies[c]) \in Nat /\ sent[c] \in Nat
         /\ sent[c] <= Len(Ends[c]) /\ Len(Ends[c]) \in Nat /\ Len(Stream[c]) \in Nat
         /\ received[c] \in Nat /\ PortOf[c] \in Ports
         /\ received \in [Conns -> Nat] /\ sessions \in [Ports -> Session]
         /\ dispatched \in [Conns -> Seq(Dispatch)] /\ replies \in [Conns -> Seq(Reply)]
<1>1. TypeOK
  BY DEF ServiceInv, SegmentInv
<1>2. sent[c] \in Nat /\ sent[c] <= Len(Ends[c]) /\ replies \in [Conns -> Seq(Reply)]
  BY <1>1 DEF TypeOK
<1>3. Len(Stream[c]) \in Nat /\ Len(Ends[c]) \in Nat
  BY StreamAssumption, EndsAssumption
<1>4. Len(replies[c]) \in Nat
  <2>1. replies[c] \in Seq(Reply)
    BY <1>2
  <2> QED BY <2>1
<1> QED BY <1>1, <1>2, <1>3, <1>4, TypesOfConnection

\* A packet goes on with the only request that is not answered.
LEMMA OneRequestArrives ==
  ASSUME ServiceInv, NEW c \in Conns, NEW last \in received[c] + 1 .. Len(Stream[c]),
         last <= SentUpTo(c)
  PROVE  /\ Len(dispatched[c]) + 1 \in 1..Len(Ends[c])
         /\ sent[c] = Len(dispatched[c]) + 1
         /\ Len(replies[c]) = Len(dispatched[c])
         /\ \A i : <<c, i>> \notin deferred
         /\ last <= Ends[c][Len(dispatched[c]) + 1]
<1> DEFINE n == Len(dispatched[c])
           m == Len(replies[c])
<1>1. /\ n \in Nat /\ m \in Nat /\ sent[c] \in Nat /\ sent[c] <= Len(Ends[c])
      /\ Len(Ends[c]) \in Nat /\ received[c] \in Nat
  BY ServiceTypes
<1>2. /\ n <= sent[c] /\ sent[c] <= m + 1
      /\ \/ m = n /\ \A i : <<c, i>> \notin deferred
         \/ m + 1 = n /\ \A i : <<c, i>> \in deferred => i = n
      /\ LastUpto(c) = RequestStart(c, n + 1)
  BY DEF ServiceInv, WholeOf
<1>3. LastUpto(c) \in 0..received[c]
  BY DEF ServiceInv, SegmentInv, SegmentsOf
<1> HIDE DEF n, m
<1>4. sent[c] # n
  <2> SUFFICES ASSUME sent[c] = n PROVE FALSE
    OBVIOUS
  <2>1. SentUpTo(c) = LastUpto(c)
    BY <1>1, <1>2 DEF SentUpTo, RequestStart
  <2> QED BY <1>1, <1>3, <2>1
<1>5. sent[c] = n + 1 /\ m = n /\ \A i : <<c, i>> \notin deferred
  BY <1>1, <1>2, <1>4
<1>6. n + 1 \in 1..Len(Ends[c])
  BY <1>1, <1>5
<1>7. SentUpTo(c) = Ends[c][n + 1]
  BY <1>1, <1>5 DEF SentUpTo
<1> QED BY <1>5, <1>6, <1>7 DEF n, m

\* It ends behind the header block, so the session waits until the request is
\* complete, and then hands it over.
LEMMA WaitsOrHandsOver ==
  ASSUME Sequential, ServiceInv, NEW c \in Conns, RecvPacket(c)
  PROVE  \E last \in received[c] + 1 .. Len(Stream[c]) :
           LET k == Len(dispatched[c]) + 1
           IN  /\ k \in 1..Len(Ends[c])
               /\ sent[c] = k
               /\ Len(replies[c]) = Len(dispatched[c])
               /\ \A i : <<c, i>> \notin deferred
               /\ received' = [received EXCEPT ![c] = last]
               /\ UNCHANGED <<conn, sent>>
               /\ \/ Waits(c, last) /\ Gathers(c, k)'
                  \/ /\ HandsOver(c, last)
                     /\ last = Ends[c][k]
                     /\ Arrived(c, last) = RequestOf(c, k)
<1>1. PICK packet \in Packets(c) : Receive(c, packet)
  BY DEF RecvPacket
<1>2. PICK last \in received[c] + 1 .. Len(Stream[c]) :
         /\ last <= SentUpTo(c)
         /\ Stream[c][last].kind \in CutAfter
         /\ received' = [received EXCEPT ![c] = last]
         /\ UNCHANGED <<conn, sent>>
         /\ Waits(c, last) \/ Throws(c, last) \/ HandsOver(c, last)
  BY <1>1, ReceiveIsOneOfThree DEF ServiceInv
<1> DEFINE k == Len(dispatched[c]) + 1
           q == RequestOf(c, k)
           d == Arrived(c, last)
           clen == KnownLength(c, last)
<1>3. /\ k \in 1..Len(Ends[c]) /\ sent[c] = k /\ Len(replies[c]) = Len(dispatched[c])
      /\ \A i : <<c, i>> \notin deferred
      /\ last <= Ends[c][k]
  BY <1>2, OneRequestArrives
<1>4. /\ Len(dispatched[c]) \in Nat /\ Len(Ends[c]) \in Nat /\ Len(Stream[c]) \in Nat
      /\ received[c] \in Nat /\ received \in [Conns -> Nat]
      /\ PortOf[c] \in Ports /\ sessions \in [Ports -> Session] /\ SegmentInv
  BY ServiceTypes DEF ServiceInv
<1>5. LastUpto(c) = RequestStart(c, k) /\ Gathers(c, k)
  <2>1. Len(dispatched[c]) < Len(Ends[c])
    BY <1>3, <1>4
  <2> QED BY <2>1 DEF ServiceInv, WholeOf
<1> HIDE DEF k
<1>6. PICK h \in 6..Len(q) :
         /\ Written(q, h)
         /\ \/ received[c] = RequestStart(c, k) /\ sessions[PortOf[c]].clen = Absent
            \/ h # 6 /\ sessions[PortOf[c]].clen = Len(q) - h
  BY <1>5 DEF Gathers
<1>7. /\ d \in Seq(Token) /\ q \in Seq(Token) /\ Begins(d, q)
      /\ Len(d) \in Nat /\ Len(q) \in Nat
      /\ Len(q) <= Len(d) <=> Ends[c][k] <= last
  BY <1>3, <1>4, <1>5, ArrivedBegins
<1>8. h \in {6, 9, 10} /\ h <= Len(q)
  BY <1>6, <1>7, KindsOfRequest
<1>9. last \in Nat /\ Ends[c][k] \in Nat
  <2>1. Ends[c][k] \in 1..Len(Stream[c])
    BY <1>3, RequestTypes
  <2> QED BY <1>4, <2>1
<1>10. h <= Len(d) /\ Len(d) <= Len(q)
  <2>1. /\ LastUpto(c) \in 0..last - 1 /\ Len(d) = last - LastUpto(c)
        /\ \A i \in 1..last - LastUpto(c) : d[i] = Stream[c][LastUpto(c) + i]
    BY <1>4, ArrivedTokens
  <2>2. Len(q) = Ends[c][k] - RequestStart(c, k)
    BY <1>3, RequestTypes
  <2> DEFINE l == last - LastUpto(c)
  <2>3. l \in 1..l /\ l \in Nat /\ LastUpto(c) + l = last
    BY <1>9, <2>1
  <2>4. d[l].kind \in {"blank", "body"}
    BY <1>2, <2>1, <2>3 DEF Sequential
  <2>5. l <= Len(q) /\ Len(d) = l
    BY <1>3, <1>5, <1>9, <2>1, <2>2
  <2> HIDE DEF l, d, q
  <2>6. d[l] = q[l]
    <3>1. l \in DOMAIN d /\ l \in DOMAIN q
      BY <1>7, <2>3, <2>5
    <3> QED BY <1>7, <3>1 DEF Begins
  <2>7. ~(l < h)
    <3> SUFFICES ASSUME l < h PROVE FALSE
      OBVIOUS
    <3>1. l \in 1..h
      BY <1>8, <2>3
    <3>2. q[l].kind \notin {"blank", "body"}
      BY <1>6, <1>7, <3>1, HeaderKinds
    <3> QED BY <2>4, <2>6, <3>2
  <2> QED BY <1>8, <2>3, <2>5, <2>7
<1>11. clen = IF h = 6 THEN Absent ELSE Len(q) - h
  <2> DEFINE old == sessions[PortOf[c]].clen
  <2>1. old = Absent \/ (h # 6 /\ old = Len(q) - h)
    BY <1>6
  <2>2. Len(q) - h # Absent /\ Len(q) - h \in 0..Len(q) - h
    BY <1>7, <1>8 DEF Absent
  <2>3. old \in Lengths(q, h)
    BY <2>1, <2>2 DEF Lengths
  <2>4. clen = ParsedLength(old, d)
    BY DEF KnownLength
  <2> HIDE DEF old, clen, d, q
  <2>5. /\ old = Absent /\ h # 6 /\ h <= Len(d) => ParsedLength(old, d) = Len(q) - h
        /\ old = Absent /\ h = 6 => ParsedLength(old, d) = Absent
        /\ old # Absent => ParsedLength(old, d) = old
    BY <1>6, <1>7, <2>3, LengthRead
  <2> QED BY <1>10, <2>1, <2>2, <2>4, <2>5
<1>12. Keeps(c, last) => sessions'[PortOf[c]].clen = clen
  <2>1. Keeps(c, last) => sessions' = [sessions EXCEPT ![PortOf[c]] = [data |-> d, clen |-> clen]]
    BY DEF Keeps
  <2> QED BY <1>4, <2>1
<1> HIDE DEF d, q, clen
<1>13. CASE ~(Len(q) <= Len(d))
  <2>1. h # 6
    <3>1. h = 6 => Len(q) <= 6
      BY <1>6, <1>7, KindsOfRequest
    <3> QED BY <1>7, <1>10, <1>13, <3>1
  <2>2. Outcome(clen, d) = "INCOMPLETE"
    <3>1. Len(d) < Len(q)
      BY <1>7, <1>13
    <3>2. Outcome(Len(q) - h, d) = "INCOMPLETE"
      BY <1>6, <1>7, <1>10, <3>1, BodyIsWaitedFor
    <3> QED BY <1>11, <2>1, <3>2
  <2>3. Waits(c, last)
    BY <1>2, <2>2 DEF Waits, Throws, HandsOver, Verdict, clen, d
  <2>4. sessions'[PortOf[c]].clen = Len(q) - h
    BY <1>11, <1>12, <2>1, <2>3 DEF Waits
  <2>5. Gathers(c, k)'
    <3>1. k' = k
      BY <2>3 DEF Waits, k
    <3>2. RequestOf(c, k') = q
      BY <3>1 DEF q
    <3> QED BY <1>6, <2>1, <2>4, <3>1, <3>2 DEF Gathers, RequestOf, RequestStart, q
  <2> QED BY <1>2, <1>3, <2>3, <2>5 DEF k
<1>14. CASE Len(q) <= Len(d)
  <2>1. last = Ends[c][k]
    BY <1>3, <1>7, <1>9, <1>14
  <2>2. Arrived(c, last) = RequestOf(c, k)
    BY <1>5, <2>1 DEF Arrived, Segment, RequestOf
  <2>3. Outcome(clen, d) = "COMPLETE"
    <3>1. clen \in Lengths(q, h)
      BY <1>7, <1>8, <1>11 DEF Lengths
    <3> QED BY <1>6, <1>7, <1>14, <3>1, WholeIsComplete
  <2>4. HasEndpoint(d)
    <3>1. 5 <= Len(d)
      BY <1>7, <1>8, <1>10
    <3> QED BY <1>6, <1>7, <3>1, EndpointFound
  <2>5. HandsOver(c, last)
    BY <1>2, <2>3, <2>4 DEF Waits, Throws, HandsOver, Verdict, clen, d
  <2> QED BY <1>2, <1>3, <2>1, <2>2, <2>5 DEF k
<1> QED BY <1>13, <1>14

\* Steps that touch neither a session nor a dispatch nor a reply of b, and let
\* its client send only when it may.
LEMMA WholeUnchanged ==
  ASSUME NEW b \in Conns, WholeOf(b), dispatched'[b] = dispatched[b],
         replies'[b] = replies[b], received'[b] = received[b],
         sessions'[PortOf[b]] = sessions[PortOf[b]],
         \A i : <<b, i>> \in deferred' <=> <<b, i>> \in deferred,
         Len(dispatched[b]) <= sent'[b], sent'[b] <= Len(replies[b]) + 1
  PROVE  WholeOf(b)'
<1>1. /\ LastUpto(b)' = LastUpto(b) /\ \A k : RequestStart(b, k)' = RequestStart(b, k)
      /\ Handed(b)' = Handed(b) /\ \A k : Meant(b, k)' = Meant(b, k)
  BY DEF LastUpto, From, RequestStart, Handed, Meant, RequestTokens, RequestOf
<1>2. \A k : Gathers(b, k)' <=> Gathers(b, k)
  BY DEF Gathers, RequestOf, RequestStart
<1> QED BY <1>1, <1>2 DEF WholeOf

\* What the next dispatch adds is what the client meant.
LEMMA HandedIsMeant ==
  ASSUME WellFormedStreams, ServiceInv, NEW c \in Conns,
         NEW last \in received[c] + 1 .. Len(Stream[c]),
         received' = [received EXCEPT ![c] = last], HandsOver(c, last),
         Len(dispatched[c]) + 1 \in 1..Len(Ends[c]),
         Arrived(c, last) = RequestOf(c, Len(dispatched[c]) + 1)
  PROVE  /\ \A i \in 1..Len(dispatched[c]) : Handed(c)'[i] = Handed(c)[i]
         /\ Handed(c)'[Len(dispatched[c]) + 1] = Meant(c, Len(dispatched[c]) + 1)
         /\ \A b \in Conns : b # c => Handed(b)' = Handed(b)
<1> DEFINE n == Len(dispatched[c])
           q == RequestOf(c, n + 1)
<1>1. /\ Len(dispatched'[c]) = n + 1
      /\ dispatched'[c][n + 1] = [endpoint |-> Endpoint(q), payload |-> Payload(q),
                                  data |-> q, upto |-> last]
      /\ \A i \in 1..n : dispatched'[c][i] = dispatched[c][i]
      /\ \A b \in Conns : b # c => dispatched'[b] = dispatched[b]
  <2>1. SegmentInv /\ Arrived(c, last) = q
    BY DEF ServiceInv
  <2> HIDE DEF q
  <2> QED BY <2>1, HandsOverAll
<1>2. n \in Nat
  BY ServiceTypes
<1>3. PICK h \in 6..Len(q) : Written(q, h)
  BY DEF WellFormedStreams, WellFormed
<1>4. q \in Seq(Token)
  BY RequestTypes
<1> HIDE DEF n, q
<1>5. /\ Endpoint(q) = Text(q, {i \in DOMAIN q : q[i].kind \in {"target", "tail"}})
      /\ Payload(q) = Text(q, {i \in DOMAIN q : q[i].kind \in {"body"}})
  BY <1>3, <1>4, WholeIsMeant
<1>6. Meant(c, n + 1) = [endpoint |-> Endpoint(q), payload |-> Payload(q)]
  BY <1>5 DEF Meant, RequestTokens, q
<1>7. Handed(c)' = [i \in 1..n + 1 |-> [endpoint |-> dispatched'[c][i].endpoint,
                                       payload |-> dispatched'[c][i].payload]]
  BY <1>1 DEF Handed
<1>8. Handed(c) = [i \in 1..n |-> [endpoint |-> dispatched[c][i].endpoint,
                                  payload |-> dispatched[c][i].payload]]
  BY DEF Handed, n
<1>9. Handed(c)'[n + 1] = Meant(c, n + 1)
  <2>1. n + 1 \in 1..n + 1
    BY <1>2
  <2> QED BY <1>1, <1>6, <1>7, <2>1
<1>10. \A i \in 1..n : Handed(c)'[i] = Handed(c)[i]
  <2>1. \A i \in 1..n : i \in 1..n + 1
    BY <1>2
  <2> QED BY <1>1, <1>7, <1>8, <2>1
<1>11. \A b \in Conns : b # c => Handed(b)' = Handed(b)
  BY <1>1 DEF Handed
<1> QED BY <1>9, <1>10, <1>11 DEF n

\* A packet that ends a request hands over all of it, any other none of it.
LEMMA ReceiveWhole ==
  ASSUME PortsDistinct, WellFormedStreams, Sequential, ServiceInv,
         NEW c \in Conns, RecvPacket(c)
  PROVE  \A b \in Conns : WholeOf(b)'
<1> DEFINE n == Len(dispatched[c])
           m == Len(replies[c])
<1>1. PICK last \in received[c] + 1 .. Len(Stream[c]) :
         /\ n + 1 \in 1..Len(Ends[c]) /\ sent[c] = n + 1 /\ m = n
         /\ \A i : <<c, i>> \notin deferred
         /\ received' = [received EXCEPT ![c] = last]
         /\ UNCHANGED <<conn, sent>>
         /\ \/ Waits(c, last) /\ Gathers(c, n + 1)'
            \/ /\ HandsOver(c, last)
               /\ last = Ends[c][n + 1]
               /\ Arrived(c, last) = RequestOf(c, n + 1)
  BY WaitsOrHandsOver
<1>2. /\ n \in Nat /\ m \in Nat /\ Len(Ends[c]) \in Nat /\ PortOf[c] \in Ports
      /\ received \in [Conns -> Nat] /\ sessions \in [Ports -> Session]
      /\ replies \in [Conns -> Seq(Reply)] /\ SegmentInv
  BY ServiceTypes DEF ServiceInv
<1>3. WholeOf(c)
  BY DEF ServiceInv
<1>4. CASE Waits(c, last) /\ Gathers(c, n + 1)'
  <2>1. /\ sessions' = [sessions EXCEPT ![PortOf[c]] =
              [data |-> Arrived(c, last), clen |-> KnownLength(c, last)]]
        /\ UNCHANGED <<dispatched, deferred, replies>>
    BY <1>4 DEF Waits, Keeps
  <2>2. WholeOf(c)'
    <3>1. /\ LastUpto(c)' = LastUpto(c) /\ \A k : RequestStart(c, k)' = RequestStart(c, k)
          /\ Handed(c)' = Handed(c) /\ \A k : Meant(c, k)' = Meant(c, k)
      BY <2>1 DEF LastUpto, From, RequestStart, Handed, Meant, RequestTokens, RequestOf
    <3> QED BY <1>1, <1>3, <1>4, <2>1, <3>1 DEF WholeOf
  <2>3. ASSUME NEW b \in Conns, b # c
        PROVE  WholeOf(b)'
    <3>1. PortOf[b] # PortOf[c] /\ PortOf[b] \in Ports
      BY <2>3, PortOfAssumption DEF PortsDistinct
    <3>2. sessions'[PortOf[b]] = sessions[PortOf[b]] /\ received'[b] = received[b]
      BY <1>1, <1>2, <2>1, <2>3, <3>1
    <3>3. WholeOf(b)
      BY DEF ServiceInv
    <3>4. Len(dispatched[b]) <= sent[b] /\ sent[b] <= Len(replies[b]) + 1
      BY <3>3 DEF WholeOf
    <3> QED BY <1>1, <2>1, <3>2, <3>3, <3>4, WholeUnchanged
  <2> QED BY <2>2, <2>3
<1>5. CASE /\ HandsOver(c, last)
           /\ last = Ends[c][n + 1]
           /\ Arrived(c, last) = RequestOf(c, n + 1)
  <2>1. /\ Len(dispatched'[c]) = n + 1
        /\ \A b \in Conns : b # c => dispatched'[b] = dispatched[b]
        /\ LastUpto(c)' = last
    BY <1>1, <1>2, <1>5, HandsOverAll
  <2>2. /\ \A i \in 1..n : Handed(c)'[i] = Handed(c)[i]
        /\ Handed(c)'[n + 1] = Meant(c, n + 1)
    BY <1>1, <1>5, HandedIsMeant
  <2>3. sessions' = [sessions EXCEPT ![PortOf[c]] = NoSession]
    BY <1>5 DEF HandsOver
  <2>4. /\ \/ deferred' = deferred /\ Len(replies'[c]) = m + 1
           \/ deferred' = deferred \cup {<<c, n + 1>>} /\ Len(replies'[c]) = m
        /\ \A b \in Conns : b # c => replies'[b] = replies[b]
    <3>1. HandleEndpoint(c, Arrived(c, last))
      BY <1>5 DEF HandsOver
    <3>2. \/ /\ deferred' = deferred
             /\ \E st : replies' = [replies EXCEPT ![c] = Append(@, [to |-> n + 1, status |-> st])]
          \/ deferred' = deferred \cup {<<c, n + 1>>} /\ replies' = replies
      BY <3>1 DEF HandleEndpoint, SendReply
    <3>3. ASSUME NEW r, replies' = [replies EXCEPT ![c] = Append(@, r)]
          PROVE  Len(replies'[c]) = m + 1 /\ \A b \in Conns : b # c => replies'[b] = replies[b]
      BY <1>2, <3>3
    <3> QED BY <3>2, <3>3
  <2>5. \A k : RequestStart(c, k)' = RequestStart(c, k) /\ Meant(c, k)' = Meant(c, k)
    BY DEF RequestStart, Meant, RequestTokens, RequestOf
  <2> PICK k : k = n + 2
    OBVIOUS
  <2>6. last = RequestStart(c, k) /\ k - 1 = n + 1
    <3>1. k # 1 /\ k - 1 = n + 1
      BY <1>2
    <3> QED BY <1>5, <3>1 DEF RequestStart
  <2>7. n + 1 < Len(Ends[c]) => Gathers(c, k)'
    <3> SUFFICES ASSUME n + 1 < Len(Ends[c]) PROVE Gathers(c, k)'
      OBVIOUS
    <3>1. k \in 1..Len(Ends[c])
      BY <1>2
    <3>2. PICK h \in 6..Len(RequestOf(c, k)) : Written(RequestOf(c, k), h)
      BY <3>1 DEF WellFormedStreams, WellFormed
    <3>3. sessions'[PortOf[c]].clen = Absent
      BY <1>2, <2>3 DEF NoSession, NewSession
    <3>4. received'[c] = last
      BY <1>1, <1>2
    <3> QED BY <2>6, <3>2, <3>3, <3>4 DEF Gathers, RequestOf, RequestStart
  <2>8. WholeOf(c)'
    <3>1. /\ n' = n + 1 /\ (n + 1)' = k /\ (m' = m + 1 \/ m' = m)
          /\ n \in Nat /\ m \in Nat
      BY <1>2, <2>1, <2>4
    <3>2. n' <= sent'[c] /\ sent'[c] <= m' + 1
      BY <1>1, <3>1
    <3>3. \/ m' = n' /\ \A i : <<c, i>> \notin deferred'
          \/ m' + 1 = n' /\ \A i : <<c, i>> \in deferred' => i = n'
      BY <1>1, <2>4, <3>1
    <3>4. LastUpto(c)' = RequestStart(c, n + 1)'
      BY <2>1, <2>5, <2>6, <3>1
    <3>5. \A i \in 1..n' : Handed(c)'[i] = Meant(c, i)'
      <4>1. \A i \in 1..n' : i \in 1..n \/ i = n + 1
        BY <3>1
      <4>2. \A i \in 1..n : Handed(c)[i] = Meant(c, i)
        BY <1>3 DEF WholeOf
      <4> QED BY <2>2, <2>5, <4>1, <4>2
    <3>6. n' < Len(Ends[c]) => Gathers(c, n + 1)'
      <4>1. Gathers(c, n + 1)' <=> Gathers(c, k)'
        BY <3>1 DEF Gathers, RequestOf, RequestStart
      <4> QED BY <2>7, <3>1, <4>1
    <3> QED BY <3>2, <3>3, <3>4, <3>5, <3>6 DEF WholeOf
  <2>9. ASSUME NEW b \in Conns, b # c
        PROVE  WholeOf(b)'
    <3>1. PortOf[b] # PortOf[c] /\ PortOf[b] \in Ports
      BY <2>9, PortOfAssumption DEF PortsDistinct
    <3>2. sessions'[PortOf[b]] = sessions[PortOf[b]] /\ received'[b] = received[b]
      BY <1>1, <1>2, <2>3, <2>9, <3>1
    <3>3. WholeOf(b)
      BY DEF ServiceInv
    <3>4. Len(dispatched[b]) <= sent[b] /\ sent[b] <= Len(replies[b]) + 1
      BY <3>3 DEF WholeOf
    <3>5. \A i : <<b, i>> \in deferred' <=> <<b, i>> \in deferred
      BY <2>4, <2>9
    <3> QED BY <1>1, <2>1, <2>4, <2>9, <3>2, <3>3, <3>4, <3>5, WholeUnchanged
  <2> QED BY <2>8, <2>9
<1> QED BY <1>1, <1>4, <1>5

\* A late answer changes nothing of what was handed over.
LEMMA AnswerWhole ==
  ASSUME ServiceInv, NEW c \in Conns, NEW i \in 1..Len(dispatched[c]), DeferredReply(c, i)
  PROVE  \A b \in Conns : WholeOf(b)'
<1> DEFINE n == Len(dispatched[c])
           m == Len(replies[c])
           r == [to |-> i, status |-> "handler"]
<1>1. /\ <<c, i>> \in deferred /\ deferred' = deferred \ {<<c, i>>}
      /\ replies' = [replies EXCEPT ![c] = Append(@, r)]
      /\ UNCHANGED <<sent, received, sessions, dispatched>>
  BY DEF DeferredReply, SendReply
<1> HIDE DEF r
<1>2. replies \in [Conns -> Seq(Reply)] /\ n \in Nat /\ m \in Nat /\ sent[c] \in Nat
  BY ServiceTypes
<1>3. Len(replies'[c]) = m + 1 /\ \A b \in Conns : b # c => replies'[b] = replies[b]
  BY <1>1, <1>2
<1>4. WholeOf(c)
  BY DEF ServiceInv
<1>5. m + 1 = n /\ i = n /\ sent[c] <= m + 1 /\ \A j : <<c, j>> \in deferred => j = n
  BY <1>1, <1>4 DEF WholeOf
<1>6. WholeOf(c)'
  <2>1. /\ LastUpto(c)' = LastUpto(c) /\ \A k : RequestStart(c, k)' = RequestStart(c, k)
        /\ Handed(c)' = Handed(c) /\ \A k : Meant(c, k)' = Meant(c, k)
        /\ \A k : Gathers(c, k)' <=> Gathers(c, k)
    BY <1>1 DEF LastUpto, From, RequestStart, Handed, Meant, RequestTokens, RequestOf, Gathers
  <2>2. \A j : <<c, j>> \notin deferred'
    BY <1>1, <1>5
  <2>3. dispatched' = dispatched /\ sent' = sent
    BY <1>1
  <2>4. sent[c] <= m + 1 + 1
    BY <1>2, <1>5
  <2> QED BY <1>3, <1>4, <1>5, <2>1, <2>2, <2>3, <2>4 DEF WholeOf
<1>7. ASSUME NEW b \in Conns, b # c
      PROVE  WholeOf(b)'
  <2>1. WholeOf(b)
    BY DEF ServiceInv
  <2>2. Len(dispatched[b]) <= sent[b] /\ sent[b] <= Len(replies[b]) + 1
    BY <2>1 DEF WholeOf
  <2>3. \A j : <<b, j>> \in deferred' <=> <<b, j>> \in deferred
    BY <1>1, <1>7
  <2> QED BY <1>1, <1>3, <1>7, <2>1, <2>2, <2>3, WholeUnchanged
<1> QED BY <1>6, <1>7

\* A client sends its next request when the one before was answered.
LEMMA SendWhole ==
  ASSUME Sequential, ServiceInv, NEW c \in Conns, ClientSend(c)
  PROVE  \A b \in Conns : WholeOf(b)'
<1> SUFFICES ASSUME NEW b \in Conns PROVE WholeOf(b)'
  OBVIOUS
<1>1. /\ sent' = [sent EXCEPT ![c] = @ + 1] /\ Len(replies[c]) >= sent[c]
      /\ UNCHANGED <<received, sessions, dispatched, deferred, replies>>
  BY DEF ClientSend, Sequential
<1>2. /\ Len(dispatched[b]) \in Nat /\ Len(replies[b]) \in Nat /\ sent[b] \in Nat
      /\ WholeOf(b)
  BY ServiceTypes DEF ServiceInv
<1>3. sent \in [Conns -> Nat]
  BY DEF ServiceInv, SegmentInv, TypeOK
<1>4. Len(dispatched[b]) <= sent[b] /\ sent[b] <= Len(replies[b]) + 1
  BY <1>2 DEF WholeOf
<1>5. Len(dispatched[b]) <= sent'[b] /\ sent'[b] <= Len(replies[b]) + 1
  <2>1. CASE b = c
    <3>1. sent'[b] = sent[b] + 1
      BY <1>1, <1>3, <2>1
    <3> QED BY <1>1, <1>2, <1>4, <2>1, <3>1
  <2>2. CASE b # c
    BY <1>1, <1>3, <1>4, <2>2
  <2> QED BY <2>1, <2>2
<1> QED BY <1>1, <1>2, <1>5, WholeUnchanged

\* Before anything is sent nothing is handed over.
LEMMA InitWhole == WellFormedStreams /\ Init => ServiceInv
<1> SUFFICES ASSUME WellFormedStreams, Init, NEW c \in Conns PROVE WholeOf(c)
  BY InitSegments, InitAnswered DEF ServiceInv
<1>1. /\ dispatched[c] = <<>> /\ replies[c] = <<>> /\ sent[c] = 0 /\ received[c] = 0
      /\ sessions[PortOf[c]] = NoSession /\ deferred = {}
  BY PortOfAssumption DEF Init
<1>2. Len(dispatched[c]) = 0 /\ Len(replies[c]) = 0
  BY <1>1
<1>3. LastUpto(c) = 0 /\ RequestStart(c, 1) = 0 /\ 0 + 1 = 1
  BY <1>2 DEF LastUpto, From, RequestStart
<1>4. 0 < Len(Ends[c]) => Gathers(c, 1)
  <2> SUFFICES ASSUME 0 < Len(Ends[c]) PROVE Gathers(c, 1)
    OBVIOUS
  <2>1. 1 \in 1..Len(Ends[c])
    BY EndsAssumption
  <2>2. PICK h \in 6..Len(RequestOf(c, 1)) : Written(RequestOf(c, 1), h)
    BY <2>1 DEF WellFormedStreams, WellFormed
  <2> QED BY <1>1, <1>3, <2>2 DEF Gathers, NoSession, NewSession
<1>5. \A i \in 1..0 : FALSE
  OBVIOUS
<1> QED BY <1>1, <1>2, <1>3, <1>4, <1>5 DEF WholeOf

\* Every step hands over whole requests, in order, or nothing.
LEMMA NextWhole ==
  PortsDistinct /\ WellFormedStreams /\ Sequential /\ ServiceInv /\ [Next]_vars => ServiceInv'
<1> SUFFICES ASSUME PortsDistinct, WellFormedStreams, Sequential, ServiceInv, [Next]_vars
             PROVE  \A b \in Conns : WholeOf(b)'
  BY NextSegments, NextAnswered DEF ServiceInv
<1>1. ASSUME NEW c \in Conns, RecvPacket(c)
      PROVE  \A b \in Conns : WholeOf(b)'
  BY <1>1, ReceiveWhole
<1>2. ASSUME NEW c \in Conns, NEW i \in 1..Len(dispatched[c]), DeferredReply(c, i)
      PROVE  \A b \in Conns : WholeOf(b)'
  BY <1>2, AnswerWhole
<1>3. ASSUME NEW c \in Conns, ClientSend(c)
      PROVE  \A b \in Conns : WholeOf(b)'
  BY <1>3, SendWhole
<1>4. CASE UNCHANGED <<sent, received, sessions, dispatched, deferred, replies>>
  <2> SUFFICES ASSUME NEW b \in Conns PROVE WholeOf(b)'
    OBVIOUS
  <2>1. WholeOf(b)
    BY DEF ServiceInv
  <2>2. Len(dispatched[b]) <= sent[b] /\ sent[b] <= Len(replies[b]) + 1
    BY <2>1 DEF WholeOf
  <2> QED BY <1>4, <2>1, <2>2, WholeUnchanged
<1>5. Listen \/ UNCHANGED vars \/ (\E c \in Conns : Accept(c) \/ RecvClose(c))
      => UNCHANGED <<sent, received, sessions, dispatched, deferred, replies>>
  BY DEF Listen, Accept, RecvClose, vars
<1> QED BY <1>1, <1>2, <1>3, <1>4, <1>5 DEF Next, ConnStep

\* What IHttpServer.hpp promises: if packets end behind header blocks or inside
\* bodies and clients wait for the answer, a handler is called with the whole
\* of the request its client sent next, for any requests of any number of
\* clients.
THEOREM ServerHandsOverWholeRequests ==
  ASSUME PortsDistinct, WellFormedStreams, Sequential
  PROVE  Spec => []WholeRequests
<1>1. ServiceInv => WholeRequests
  <2> SUFFICES ASSUME ServiceInv, NEW c \in Conns
               PROVE  /\ Len(dispatched[c]) <= Len(Ends[c])
                      /\ \A i \in 1..Len(dispatched[c]) : Handed(c)[i] = MeantRequests[c][i]
    BY DEF WholeRequests
  <2>1. /\ Len(dispatched[c]) \in Nat /\ sent[c] \in Nat /\ sent[c] <= Len(Ends[c])
        /\ Len(Ends[c]) \in Nat
    BY ServiceTypes
  <2>2. /\ Len(dispatched[c]) <= sent[c]
        /\ \A i \in 1..Len(dispatched[c]) : Handed(c)[i] = Meant(c, i)
    BY DEF ServiceInv, WholeOf
  <2>3. Len(dispatched[c]) <= Len(Ends[c])
    BY <2>1, <2>2
  <2>4. ASSUME NEW i \in 1..Len(dispatched[c])
        PROVE  MeantRequests[c][i] = Meant(c, i)
    <3>1. i \in 1..Len(Ends[c])
      BY <2>1, <2>3
    <3> QED BY <3>1 DEF MeantRequests
  <2> QED BY <2>2, <2>3, <2>4
<1>2. ServiceInv /\ [Next]_vars => ServiceInv'
  BY NextWhole
<1>3. Init => ServiceInv
  BY InitWhole
<1> QED BY <1>1, <1>2, <1>3, PTL DEF Spec

-----------------------------------------------------------------------------
(* HttpServer implements HttpService.                                      *)

\* The refinement mapping.
AnsweredBy(c) == [j \in 1..Len(replies[c]) |-> replies[c][j].to]

HandedAll == [c \in Conns |-> Handed(c)]

AnsweredAll == [c \in Conns |-> AnsweredBy(c)]

\* A sequence given by its elements, one element longer.
LEMMA LongerByOne ==
  ASSUME NEW n \in Nat, NEW f, NEW g
  PROVE  /\ Len([i \in 1..n |-> f[i]]) = n
         /\ \A e : (\A i \in 1..n : g[i] = f[i]) /\ g[n + 1] = e
               => [i \in 1..n + 1 |-> g[i]] = Append([i \in 1..n |-> f[i]], e)
<1>1. SUFFICES ASSUME NEW e
               PROVE  /\ Len([i \in 1..n |-> f[i]]) = n
                      /\ (\A i \in 1..n : g[i] = f[i]) /\ g[n + 1] = e
                           => [i \in 1..n + 1 |-> g[i]] = Append([i \in 1..n |-> f[i]], e)
  OBVIOUS
<1> DEFINE s == [i \in 1..n |-> f[i]]
           t == [i \in 1..n + 1 |-> g[i]]
           S == {f[i] : i \in 1..n} \cup {g[i] : i \in 1..n + 1} \cup {e}
<1>2. s \in Seq(S) /\ Len(s) = n
  <2>1. s \in [1..n -> S]
    OBVIOUS
  <2> QED BY <2>1
<1>3. t \in Seq(S) /\ Len(t) = n + 1
  <2>1. t \in [1..n + 1 -> S] /\ n + 1 \in Nat
    OBVIOUS
  <2> QED BY <2>1
<1>4. e \in S
  OBVIOUS
<1>5. ASSUME \A i \in 1..n : g[i] = f[i], g[n + 1] = e
      PROVE  t = Append(s, e)
  <2>1. /\ \A i \in 1..n : t[i] = s[i]
        /\ t[n + 1] = e
    BY <1>5
  <2> HIDE DEF s, t, S
  <2>2. /\ Append(s, e) \in Seq(S) /\ Len(Append(s, e)) = n + 1
        /\ \A i \in 1..n : Append(s, e)[i] = s[i]
        /\ Append(s, e)[n + 1] = e
    BY <1>2, <1>4, AppendProperties
  <2>3. \A i \in 1..n + 1 : i \in 1..n \/ i = n + 1
    OBVIOUS
  <2>4. \A i \in 1..n + 1 : t[i] = Append(s, e)[i]
    BY <2>1, <2>2, <2>3
  <2>5. Len(t) = Len(Append(s, e))
    BY <1>3, <2>2
  <2>6. \A i \in 1..Len(t) : t[i] = Append(s, e)[i]
    BY <1>3, <2>4
  <2> QED BY <1>3, <2>2, <2>5, <2>6, SeqEqual
<1> QED BY <1>2, <1>5

\* A dispatch is one more request handed over.
LEMMA LongerHanded ==
  ASSUME NEW c \in Conns, NEW d, NEW e, dispatched \in [Conns -> Seq(Dispatch)],
         dispatched' = [dispatched EXCEPT ![c] = Append(@, d)],
         e = [endpoint |-> d.endpoint, payload |-> d.payload]
  PROVE  HandedAll' = [HandedAll EXCEPT ![c] = Append(@, e)]
<1> DEFINE n == Len(dispatched[c])
           h(x) == [endpoint |-> x.endpoint, payload |-> x.payload]
           f == [i \in 1..n |-> h(dispatched[c][i])]
           g == [i \in 1..n + 1 |-> h(dispatched'[c][i])]
<1>1. n \in Nat
  OBVIOUS
<1>2. /\ Len(dispatched'[c]) = n + 1 /\ dispatched'[c][n + 1] = d
      /\ \A i \in 1..n : dispatched'[c][i] = dispatched[c][i]
      /\ \A b \in Conns : b # c => dispatched'[b] = dispatched[b]
  OBVIOUS
<1>3. Handed(c) = f /\ Handed(c)' = g
  BY <1>2 DEF Handed
<1>4. \A b \in Conns : b # c => Handed(b)' = Handed(b)
  BY <1>2 DEF Handed
<1>5. (\A i \in 1..n : g[i] = f[i]) /\ g[n + 1] = e
  <2>1. (\A i \in 1..n : i \in 1..n + 1) /\ n + 1 \in 1..n + 1
    BY <1>1
  <2>2. \A i \in 1..n : g[i] = f[i]
    BY <1>2, <2>1
  <2>3. g[n + 1] = e
    BY <1>2, <2>1
  <2> QED BY <2>2, <2>3
<1>6. f = [i \in 1..n |-> f[i]] /\ g = [i \in 1..n + 1 |-> g[i]]
  OBVIOUS
<1> HIDE DEF n, f, g
<1>7. g = Append(f, e)
  <2>1. [i \in 1..n + 1 |-> g[i]] = Append([i \in 1..n |-> f[i]], e)
    BY <1>1, <1>5, LongerByOne
  <2> QED BY <1>6, <2>1
<1> QED BY <1>3, <1>4, <1>7 DEF HandedAll

\* A reply is one more answer.
LEMMA LongerAnswered ==
  ASSUME NEW c \in Conns, NEW r, replies \in [Conns -> Seq(Reply)],
         replies' = [replies EXCEPT ![c] = Append(@, r)]
  PROVE  AnsweredAll' = [AnsweredAll EXCEPT ![c] = Append(@, r.to)]
<1> DEFINE n == Len(replies[c])
           f == [j \in 1..n |-> replies[c][j].to]
           g == [j \in 1..n + 1 |-> replies'[c][j].to]
<1>1. n \in Nat
  OBVIOUS
<1>2. /\ Len(replies'[c]) = n + 1 /\ replies'[c][n + 1] = r
      /\ \A i \in 1..n : replies'[c][i] = replies[c][i]
      /\ \A b \in Conns : b # c => replies'[b] = replies[b]
  OBVIOUS
<1>3. AnsweredBy(c) = f /\ AnsweredBy(c)' = g
  BY <1>2 DEF AnsweredBy
<1>4. \A b \in Conns : b # c => AnsweredBy(b)' = AnsweredBy(b)
  BY <1>2 DEF AnsweredBy
<1>5. (\A i \in 1..n : g[i] = f[i]) /\ g[n + 1] = r.to
  <2>1. (\A i \in 1..n : i \in 1..n + 1) /\ n + 1 \in 1..n + 1
    BY <1>1
  <2>2. \A i \in 1..n : g[i] = f[i]
    BY <1>2, <2>1
  <2>3. g[n + 1] = r.to
    BY <1>2, <2>1
  <2> QED BY <2>2, <2>3
<1>6. f = [i \in 1..n |-> f[i]] /\ g = [i \in 1..n + 1 |-> g[i]]
  OBVIOUS
<1> HIDE DEF n, f, g
<1>7. g = Append(f, r.to)
  <2>1. [i \in 1..n + 1 |-> g[i]] = Append([i \in 1..n |-> f[i]], r.to)
    BY <1>1, <1>5, LongerByOne
  <2> QED BY <1>6, <2>1
<1> QED BY <1>3, <1>4, <1>7 DEF AnsweredAll

\* The mapping of a connection's parts.
LEMMA MappedLengths ==
  ASSUME ServiceInv, NEW c \in Conns
  PROVE  /\ HandedAll[c] = Handed(c) /\ Len(HandedAll[c]) = Len(dispatched[c])
         /\ AnsweredAll[c] = AnsweredBy(c) /\ Len(AnsweredAll[c]) = Len(replies[c])
         /\ \A j \in 1..Len(replies[c]) : AnsweredAll[c][j] = replies[c][j].to
<1> DEFINE n == Len(dispatched[c])
           m == Len(replies[c])
           f == [i \in 1..n |-> [endpoint |-> dispatched[c][i].endpoint,
                                 payload |-> dispatched[c][i].payload]]
           g == [j \in 1..m |-> replies[c][j].to]
<1>1. n \in Nat /\ m \in Nat
  BY ServiceTypes
<1>2. f = [i \in 1..n |-> f[i]] /\ g = [j \in 1..m |-> g[j]]
  OBVIOUS
<1>3. Handed(c) = f /\ AnsweredBy(c) = g
  BY DEF Handed, AnsweredBy
<1>4. \A j \in 1..m : g[j] = replies[c][j].to
  OBVIOUS
<1> HIDE DEF f, g
<1>5. Len(f) = n
  <2> HIDE DEF n
  <2> QED BY <1>1, <1>2, LongerByOne
<1>6. Len(g) = m
  <2> HIDE DEF m
  <2> QED BY <1>1, <1>2, LongerByOne
<1> QED BY <1>3, <1>4, <1>5, <1>6 DEF HandedAll, AnsweredAll

\* A dispatch is HttpService's Handle, with or without the reply.
LEMMA DispatchHandles ==
  ASSUME WellFormedStreams, Sequential, ServiceInv, NEW c \in Conns, RecvPacket(c)
  PROVE  Service!Handle(c) \/ UNCHANGED <<HandedAll, AnsweredAll>>
<1> DEFINE n == Len(dispatched[c])
<1>1. PICK last \in received[c] + 1 .. Len(Stream[c]) :
         /\ n + 1 \in 1..Len(Ends[c])
         /\ received' = [received EXCEPT ![c] = last]
         /\ \/ Waits(c, last)
            \/ /\ HandsOver(c, last)
               /\ Arrived(c, last) = RequestOf(c, n + 1)
  BY WaitsOrHandsOver
<1>2. /\ n \in Nat /\ Len(Ends[c]) \in Nat
      /\ dispatched \in [Conns -> Seq(Dispatch)] /\ replies \in [Conns -> Seq(Reply)]
  BY ServiceTypes
<1>3. CASE Waits(c, last)
  BY <1>3 DEF Waits, HandedAll, AnsweredAll, Handed, AnsweredBy
<1>4. CASE HandsOver(c, last) /\ Arrived(c, last) = RequestOf(c, n + 1)
  <2> DEFINE q == RequestOf(c, n + 1)
             d == [endpoint |-> Endpoint(q), payload |-> Payload(q), data |-> q,
                   upto |-> received'[c]]
  <2>1. HandleEndpoint(c, q)
    BY <1>4 DEF HandsOver
  <2>2. PICK h \in 6..Len(q) : Written(q, h)
    BY <1>1 DEF WellFormedStreams, WellFormed
  <2>3. q \in Seq(Token)
    BY <1>1, RequestTypes
  <2>4. Meant(c, n + 1) = [endpoint |-> Endpoint(q), payload |-> Payload(q)]
    <3>1. /\ Endpoint(q) = Text(q, {i \in DOMAIN q : q[i].kind \in {"target", "tail"}})
          /\ Payload(q) = Text(q, {i \in DOMAIN q : q[i].kind \in {"body"}})
      <4> HIDE DEF q
      <4> QED BY <2>2, <2>3, WholeIsMeant
    <3> QED BY <3>1 DEF Meant, RequestTokens
  <2>5. dispatched' = [dispatched EXCEPT ![c] = Append(@, d)]
    BY <2>1 DEF HandleEndpoint
  <2>6. Meant(c, n + 1) = [endpoint |-> d.endpoint, payload |-> d.payload]
    BY <2>4
  <2> HIDE DEF d
  <2>7. HandedAll' = [HandedAll EXCEPT ![c] = Append(@, Meant(c, n + 1))]
    BY <1>2, <2>5, <2>6, LongerHanded
  <2>8. \/ AnsweredAll' = AnsweredAll
        \/ AnsweredAll' = [AnsweredAll EXCEPT ![c] = Append(@, n + 1)]
    <3>1. CASE replies' = replies
      BY <3>1 DEF AnsweredAll, AnsweredBy
    <3>2. ASSUME NEW st, replies' = [replies EXCEPT ![c] = Append(@, [to |-> n + 1, status |-> st])]
          PROVE  AnsweredAll' = [AnsweredAll EXCEPT ![c] = Append(@, n + 1)]
      <4>1. [to |-> n + 1, status |-> st].to = n + 1
        OBVIOUS
      <4> QED BY <1>2, <3>2, <4>1, LongerAnswered
    <3>3. \/ \E st : replies' = [replies EXCEPT ![c] = Append(@, [to |-> n + 1, status |-> st])]
          \/ replies' = replies
      BY <2>1 DEF HandleEndpoint, SendReply
    <3> QED BY <3>1, <3>2, <3>3
  <2>9. Len(HandedAll[c]) = n
    BY MappedLengths
  <2>10. /\ MeantRequests[c][n + 1] = Meant(c, n + 1)
         /\ Len(MeantRequests[c]) = Len(Ends[c])
    <3> DEFINE N == Len(Ends[c])
               f == [k \in 1..N |-> Meant(c, k)]
    <3>1. MeantRequests[c] = f /\ f[n + 1] = Meant(c, n + 1)
      BY <1>1 DEF MeantRequests
    <3>2. f = [k \in 1..N |-> f[k]] /\ N \in Nat
      BY <1>2
    <3> HIDE DEF f, N
    <3>3. Len(f) = N
      BY <3>2, LongerByOne
    <3> QED BY <3>1, <3>3 DEF N
  <2>11. n < Len(Ends[c])
    BY <1>1, <1>2
  <2> QED BY <2>7, <2>8, <2>9, <2>10, <2>11
        DEF Service!Handle, HandedAll, AnsweredAll, AnsweredBy
<1> QED BY <1>1, <1>3, <1>4

\* A kept reply handler that is called is HttpService's Answer.
LEMMA DeferredAnswers ==
  ASSUME ServiceInv, NEW c \in Conns, NEW i \in 1..Len(dispatched[c]), DeferredReply(c, i)
  PROVE  Service!Answer(c, i)
<1>1. /\ <<c, i>> \in deferred
      /\ replies' = [replies EXCEPT ![c] = Append(@, [to |-> i, status |-> "handler"])]
      /\ dispatched' = dispatched
  BY DEF DeferredReply, SendReply
<1>2. replies \in [Conns -> Seq(Reply)]
  BY ServiceTypes
<1>3. AnsweredAll' = [AnsweredAll EXCEPT ![c] = Append(@, i)]
  <2>1. [to |-> i, status |-> "handler"].to = i
    OBVIOUS
  <2> QED BY <1>1, <1>2, <2>1, LongerAnswered
<1>4. HandedAll' = HandedAll
  BY <1>1 DEF HandedAll, Handed
<1>5. \A j \in 1..Len(AnsweredAll[c]) : AnsweredAll[c][j] # i
  <2>1. \A j \in 1..Len(replies[c]) : <<c, replies[c][j].to>> \notin deferred
    BY DEF ServiceInv, AnswerInv, AnsweredOf
  <2>2. \A j \in 1..Len(replies[c]) : replies[c][j].to # i
    BY <1>1, <2>1
  <2> QED BY <2>2, MappedLengths
<1>6. i \in 1..Len(HandedAll[c])
  BY MappedLengths
<1> QED BY <1>3, <1>4, <1>5, <1>6
      DEF Service!Answer, Service!Unanswered, HandedAll, AnsweredAll, AnsweredBy

\* Every step of the server is a step of HttpService, or none.
LEMMA ServiceStep ==
  ASSUME WellFormedStreams, Sequential, ServiceInv, [Next]_vars
  PROVE  [Service!Next]_Service!serviceVars
<1>1. UNCHANGED <<HandedAll, AnsweredAll>> => UNCHANGED Service!serviceVars
  BY DEF Service!serviceVars, HandedAll, AnsweredAll, AnsweredBy
<1>2. ASSUME NEW c \in Conns, RecvPacket(c)
      PROVE  Service!Next \/ UNCHANGED Service!serviceVars
  <2>1. CASE Service!Handle(c)
    BY <2>1 DEF Service!Next
  <2> QED BY <1>1, <1>2, <2>1, DispatchHandles
<1>3. ASSUME NEW c \in Conns, NEW i \in 1..Len(dispatched[c]), DeferredReply(c, i)
      PROVE  Service!Next
  <2>1. Service!Answer(c, i)
    BY <1>3, DeferredAnswers
  <2>2. Service!AnswerSome(c)
    <3>1. \A k : Service!Answer(c, k) => k \in 1..Len([b \in Conns |-> Handed(b)][c])
      BY DEF Service!Answer
    <3> QED BY <2>1, <3>1 DEF Service!AnswerSome
  <2> QED BY <2>2 DEF Service!Next
<1>4. CASE UNCHANGED <<dispatched, replies>>
  BY <1>1, <1>4 DEF HandedAll, AnsweredAll, Handed, AnsweredBy
<1>5. Listen \/ UNCHANGED vars
        \/ (\E c \in Conns : Accept(c) \/ ClientSend(c) \/ RecvClose(c))
      => UNCHANGED <<dispatched, replies>>
  BY DEF Listen, Accept, ClientSend, RecvClose, vars
<1> QED BY <1>2, <1>3, <1>4, <1>5 DEF Next, ConnStep

\* Under the same assumptions the server does what HttpService says: requests
\* are handed to the handlers whole, once each and in the order they were sent,
\* and each is answered once.
THEOREM ServerImplementsService ==
  ASSUME PortsDistinct, WellFormedStreams, Sequential
  PROVE  Spec => ImplementsService
<1>1. Init => Service!Init
  <2> SUFFICES ASSUME Init PROVE Service!Init
    OBVIOUS
  <2>1. ASSUME NEW c \in Conns
        PROVE  Handed(c) = <<>> /\ AnsweredBy(c) = <<>>
    <3>1. dispatched[c] = <<>> /\ replies[c] = <<>>
      BY DEF Init
    <3>2. Len(dispatched[c]) = 0 /\ Len(replies[c]) = 0 /\ 1..0 = {}
      BY <3>1
    <3> QED BY <3>2 DEF Handed, AnsweredBy
  <2> QED BY <2>1 DEF Service!Init, AnsweredBy
<1>2. ServiceInv /\ [Next]_vars => [Service!Next]_Service!serviceVars
  BY ServiceStep
<1>3. ServiceInv /\ [Next]_vars => ServiceInv'
  BY NextWhole
<1>4. Init => ServiceInv
  BY InitWhole
<1> QED BY <1>1, <1>2, <1>3, <1>4, PTL DEF Spec, ImplementsService, Service!SafeSpec

=============================================================================
