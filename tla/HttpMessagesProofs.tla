------------------------- MODULE HttpMessagesProofs -------------------------
(***************************************************************************)
(* Proofs about Url and HttpMessages, for texts of any length over any     *)
(* tokens.                                                                 *)
(*                                                                         *)
(* URLs: find returns the first occurrence, so there is no mark before it; *)
(* the host is what lies before the first slash and the first colon, and   *)
(* the endpoint what begins at the first slash.                            *)
(*                                                                         *)
(* Messages: each stage of a call is a function of the call (FlowInv), so  *)
(* every property is one of such functions.  A header is what the first    *)
(* line with its name says, whatever lines follow it.                      *)
(***************************************************************************)
EXTENDS HttpMessages, SequenceTheorems, FiniteSetTheorems, WellFoundedInduction, TLAPS

\* Hides the number, which the provers would enumerate ranges up to.
LEMMA MaxPortIsInt == MaxPort \in Int
BY DEF MaxPort

\* Every set of natural numbers that is not empty has a least element.
LEMMA LeastExists ==
  ASSUME NEW S \in SUBSET Nat, S # {}
  PROVE  \E i \in S : \A j \in S : i <= j
<1> DEFINE R == OpToRel(<, Nat)
<1>1. R = {ss \in Nat \X Nat : ss[1] < ss[2]}
  BY DEF OpToRel
<1>2. IsWellFoundedOn(R, Nat)
  BY NatLessThanWellFounded
<1> HIDE DEF R
<1>3. PICK i \in S : \A j \in S : ~(<<j, i>> \in R)
  BY <1>2, WFMin
<1>4. ASSUME NEW j \in S
      PROVE  i <= j
  <2>1. <<j, i>> \in Nat \X Nat
    OBVIOUS
  <2> QED BY <1>1, <1>3, <2>1
<1> QED BY <1>4

\* FirstOf: npos of an empty set, else the least element.
LEMMA FirstOfIsLeast ==
  ASSUME NEW S \in SUBSET Nat
  PROVE  /\ S = {} => FirstOf(S) = Npos
         /\ S # {} => FirstOf(S) \in S /\ \A j \in S : FirstOf(S) <= j
<1>1. CASE S = {}
  BY <1>1 DEF FirstOf
<1>2. CASE S # {}
  <2>1. \E i \in S : \A j \in S : i <= j
    BY <1>2, LeastExists
  <2> QED BY <1>2, <2>1 DEF FirstOf
<1> QED BY <1>1, <1>2

\* find: npos if there is no occurrence, else the first one.
LEMMA FindIsFirst ==
  ASSUME NEW T, NEW s \in Seq(T), NEW mark \in Seq(T), NEW pos \in Nat
  PROVE  /\ Occurrences(s, mark, pos) = {} => Find(s, mark, pos) = Npos
         /\ Occurrences(s, mark, pos) # {} =>
              /\ Find(s, mark, pos) \in Occurrences(s, mark, pos)
              /\ \A j \in Occurrences(s, mark, pos) : Find(s, mark, pos) <= j
<1>1. Occurrences(s, mark, pos) \in SUBSET Nat
  BY DEF Occurrences
<1> QED BY <1>1, FirstOfIsLeast DEF Find

\* A part of a text, token by token.
LEMMA PartOfText ==
  ASSUME NEW T, NEW s \in Seq(T), NEW m \in 1..Len(s) + 1, NEW n \in 0..Len(s)
  PROVE  /\ SubSeq(s, m, n) \in Seq(T)
         /\ Len(SubSeq(s, m, n)) = IF m <= n THEN n - m + 1 ELSE 0
         /\ \A i \in 1..n - m + 1 : SubSeq(s, m, n)[i] = s[m + i - 1]
<1>1. \A i \in m..n : s[i] \in T
  OBVIOUS
<1> QED BY <1>1, SubSeqProperties

\* A mark of one token occurs where that token is.
LEMMA OneTokenOccurs ==
  ASSUME NEW T, NEW s \in Seq(T), NEW t \in T, NEW pos \in Nat
  PROVE  Occurrences(s, <<t>>, pos) = {i \in pos..Len(s) - 1 : s[i + 1] = t}
<1>1. Len(<<t>>) = 1 /\ <<t>>[1] = t /\ <<t>> \in Seq(T)
  OBVIOUS
<1>2. ASSUME NEW i \in pos..Len(s) - 1
      PROVE  SubSeq(s, i + 1, i + 1) = <<t>> <=> s[i + 1] = t
  <2> DEFINE q == SubSeq(s, i + 1, i + 1)
  <2>1. q \in Seq(T) /\ Len(q) = 1 /\ q[1] = s[i + 1]
    BY PartOfText
  <2> HIDE DEF q
  <2>2. s[i + 1] = t => q = <<t>>
    BY <1>1, <2>1, SeqEqual
  <2>3. q = <<t>> => q[1] = t
    BY <1>1
  <2> QED BY <2>1, <2>2, <2>3 DEF q
<1> QED BY <1>1, <1>2 DEF Occurrences

\* Where find looks for one token and there is none, or before the one it
\* finds, every token is another one.
LEMMA NothingBeforeFound ==
  ASSUME NEW T, NEW s \in Seq(T), NEW t \in T, NEW pos \in Nat
  PROVE  LET f == Find(s, <<t>>, pos)
         IN  /\ f = Npos => \A i \in pos + 1..Len(s) : s[i] # t
             /\ f # Npos => /\ f \in pos..Len(s) - 1
                            /\ s[f + 1] = t
                            /\ \A i \in pos + 1..f : s[i] # t
<1> DEFINE f == Find(s, <<t>>, pos)
           O == {i \in pos..Len(s) - 1 : s[i + 1] = t}
<1>1. O \subseteq Nat /\ Npos \notin O
  BY DEF Npos
<1>2. /\ O = {} => f = Npos
      /\ O # {} => f \in O /\ \A j \in O : f <= j
  <2>1. <<t>> \in Seq(T)
    OBVIOUS
  <2>2. Occurrences(s, <<t>>, pos) = O
    BY OneTokenOccurs
  <2> HIDE DEF O
  <2> QED BY <2>1, <2>2, FindIsFirst
<1> HIDE DEF f
<1>3. ASSUME NEW i \in pos + 1..Len(s), s[i] = t
      PROVE  i - 1 \in O
  BY <1>3
<1>4. f = Npos => \A i \in pos + 1..Len(s) : s[i] # t
  BY <1>1, <1>2, <1>3
<1>5. ASSUME f # Npos
      PROVE  f \in pos..Len(s) - 1 /\ s[f + 1] = t /\ \A i \in pos + 1..f : s[i] # t
  <2>1. f \in O /\ \A j \in O : f <= j
    BY <1>2, <1>5
  <2>2. ASSUME NEW i \in pos + 1..f, s[i] = t
        PROVE  FALSE
    <3>1. i \in pos + 1..Len(s)
      BY <2>1
    <3>2. f <= i - 1
      BY <1>3, <2>1, <2>2, <3>1
    <3> QED BY <2>1, <2>2, <3>2
  <2> QED BY <2>1, <2>2
<1> QED BY <1>4, <1>5 DEF f

\* stoi, or 0 where it throws, is a number for every text.
LEMMA StoiIsInt ==
  ASSUME NEW s
  PROVE  Stoi(s) \in Int
<1>1. \A n \in Numbers : ValueOf[n] \in Int
  BY ValueOfAssumption, MaxPortIsInt
<1> DEFINE t == From(s, FirstOf({i \in 0..Len(s) : i = Len(s) \/ s[i + 1] # Blank}))
           NumberAt(i) == IF i \in DOMAIN t /\ t[i] \in Numbers THEN ValueOf[t[i]] ELSE 0
<1>2. Stoi(s) = IF t = <<>> \/ t[1] \notin {"+", "-"} THEN NumberAt(1)
                ELSE IF t[1] = "-" THEN -NumberAt(2) ELSE NumberAt(2)
  BY DEF Stoi
<1> HIDE DEF t
<1>3. NumberAt(1) \in Int /\ NumberAt(2) \in Int
  BY <1>1
<1> HIDE DEF NumberAt
<1> QED BY <1>2, <1>3

-----------------------------------------------------------------------------
(* parse *)

\* What parse does with hostname[:port] gives a host without separators and a
\* port, or an error.
LEMMA HostAndPortWellFormed ==
  ASSUME NEW T, ":" \in T, NEW protocol \in Protocols, NEW text \in Seq(T), None(text, {"/"}),
         NEW endpoint, endpoint # <<>>, endpoint[1] = "/",
         HostAndPort(protocol, text, endpoint).error = "OK"
  PROVE  LET u == HostAndPort(protocol, text, endpoint)
         IN  WellFormed(u) /\ u.host \in Seq(T) /\ u.endpoint = endpoint
<1> DEFINE sep == Find(text, <<":">>, 0)
           host == IF sep = Npos THEN text ELSE Before(text, sep)
           port == Stoi(From(text, sep + 1))
           given == IF sep = Npos THEN NoPort ELSE port
           u == HostAndPort(protocol, text, endpoint)
<1>1. u = IF (sep # Npos /\ ~ValidPort(port)) \/ host = <<>> THEN Unexpected("RANGE")
          ELSE Make(protocol, host, given, endpoint)
  BY DEF HostAndPort
<1>2. port \in Int
  BY StoiIsInt
<1>3. /\ sep = Npos => None(text, {":"})
      /\ sep # Npos => sep \in 0..Len(text) - 1 /\ \A i \in 1..sep : text[i] # ":"
  BY NothingBeforeFound DEF None
<1> HIDE DEF sep, port
<1>4. host \in Seq(T) /\ None(host, {":", "/"})
  <2>1. CASE sep = Npos
    BY <1>3, <2>1 DEF None
  <2>2. CASE sep # Npos
    <3>1. /\ host \in Seq(T) /\ Len(host) = sep
          /\ \A i \in 1..sep : host[i] = text[i]
      BY <1>3, <2>2, PartOfText DEF Before
    <3> HIDE DEF host
    <3> QED BY <1>3, <2>2, <3>1 DEF None
  <2> QED BY <2>1, <2>2
<1> HIDE DEF u, host
<1>5. /\ ~(sep # Npos /\ ~ValidPort(port)) /\ host # <<>>
      /\ u = Make(protocol, host, given, endpoint)
  <2>1. Unexpected("RANGE").error # "OK"
    BY DEF Unexpected
  <2>2. u.error = "OK"
    BY DEF u
  <2> HIDE DEF given
  <2> QED BY <1>1, <2>1, <2>2
<1>6. given = NoPort \/ given \in 1..MaxPort
  BY <1>2, <1>5, MaxPortIsInt DEF ValidPort
<1>7. DefaultPort[protocol] \in 1..MaxPort
  BY DefaultPortAssumption, MaxPortIsInt
<1> HIDE DEF given
<1>8. WellFormed(u) /\ u.host = host /\ u.endpoint = endpoint
  BY <1>4, <1>5, <1>6, <1>7 DEF WellFormed, Make, NoPort
<1> QED BY <1>4, <1>8 DEF u

\* The first "://" of a text is where its second token is one.
LEMMA ProtocolEnds ==
  ASSUME NEW T, NEW text \in Seq(T), {":", "/"} \subseteq T, Len(text) >= 4,
         text[1] # ":", text[2] = ":", text[3] = "/", text[4] = "/"
  PROVE  Find(text, <<":", "/", "/">>, 0) = 1
<1> DEFINE mark == <<":", "/", "/">>
           O == Occurrences(text, mark, 0)
<1>1. mark \in Seq(T) /\ Len(mark) = 3 /\ mark[1] = ":" /\ mark[2] = "/" /\ mark[3] = "/"
  OBVIOUS
<1>2. SubSeq(text, 2, 4) \in Seq(T) /\ Len(SubSeq(text, 2, 4)) = 3
      /\ \A i \in 1..3 : SubSeq(text, 2, 4)[i] = text[i + 1]
  BY PartOfText
<1>3. SubSeq(text, 2, 4) = mark
  <2> HIDE DEF mark
  <2> QED BY <1>1, <1>2, SeqEqual
<1>4. SubSeq(text, 1, 3)[1] = text[1]
  BY PartOfText
<1>5. 0 \notin O /\ 1 \in O /\ O \subseteq Nat
  <2> HIDE DEF mark
  <2> QED BY <1>1, <1>3, <1>4 DEF Occurrences
<1> DEFINE f == Find(text, mark, 0)
<1>6. f \in O /\ \A j \in O : f <= j
  BY <1>1, <1>5, FindIsFirst
<1>7. f = 1
  <2> HIDE DEF O, f
  <2> QED BY <1>5, <1>6
<1> QED BY <1>7

\* Where the protocol ends: after one token, or it is none of them.
LEMMA ProtocolIsOneToken ==
  ASSUME NEW T, NEW text \in Seq(T), {":", "/"} \subseteq T,
         Find(text, <<":", "/", "/">>, 0) # Npos,
         Before(text, Find(text, <<":", "/", "/">>, 0)) \in {<<p>> : p \in Protocols}
  PROVE  Find(text, <<":", "/", "/">>, 0) = 1 /\ BeginsWithProtocol(text)
<1> DEFINE mark == <<":", "/", "/">>
           end == Find(text, mark, 0)
           O == Occurrences(text, mark, 0)
<1>1. mark \in Seq(T) /\ Len(mark) = 3
  OBVIOUS
<1>2. end \in O
  BY <1>1, FindIsFirst
<1>3. end \in 0..Len(text) - 3 /\ SubSeq(text, end + 1, end + 3) = mark
  BY <1>1, <1>2 DEF Occurrences
<1>4. /\ Len(Before(text, end)) = end
      /\ \A i \in 1..end : Before(text, end)[i] = text[i]
  BY <1>3, PartOfText DEF Before
<1>5. PICK p \in Protocols : Before(text, end) = <<p>>
  OBVIOUS
<1> HIDE DEF end
<1>6. end = 1 /\ text[1] = p
  BY <1>4, <1>5
<1> QED BY <1>3, <1>6 DEF end, BeginsWithProtocol

\* What parse makes of a text, by its protocol.
LEMMA ParseByProtocol ==
  ASSUME NEW T, NEW text \in Seq(T), {":", "/"} \subseteq T
  PROVE  LET slash == Find(text, <<"/">>, 4)
         IN  Parse(text) =
               IF BeginsWithProtocol(text)
                 THEN HostAndPort(text[1],
                        SubSeq(text, 5, IF slash = Npos THEN Len(text) ELSE slash),
                        IF slash = Npos THEN <<"/">> ELSE From(text, slash))
                 ELSE Unexpected("BAD_PPROTOCOL")
<1> DEFINE end == Find(text, <<":", "/", "/">>, 0)
<1>1. CASE ~BeginsWithProtocol(text)
  <2>1. end = Npos \/ Before(text, end) \notin {<<p>> : p \in Protocols}
    BY <1>1, ProtocolIsOneToken
  <2> QED BY <1>1, <2>1 DEF Parse
<1>2. CASE BeginsWithProtocol(text)
  <2>1. Len(text) >= 4 /\ text[1] \in Protocols /\ SubSeq(text, 2, 4) = <<":", "/", "/">>
    BY <1>2 DEF BeginsWithProtocol
  <2>2. text[1] # ":"
    BY <2>1 DEF Protocols
  <2>3. text[2] = ":" /\ text[3] = "/" /\ text[4] = "/"
    <3> DEFINE part == SubSeq(text, 2, 4)
    <3>1. part[1] = text[1 + 1] /\ part[2] = text[2 + 1] /\ part[3] = text[3 + 1]
      BY <2>1, PartOfText
    <3>2. part = <<":", "/", "/">>
      BY <2>1
    <3> HIDE DEF part
    <3> QED BY <3>1, <3>2
  <2>4. end = 1
    BY <2>1, <2>2, <2>3, ProtocolEnds
  <2>5. Before(text, 1) = <<text[1]>>
    <3>1. Before(text, 1) \in Seq(T) /\ Len(Before(text, 1)) = 1 /\ Before(text, 1)[1] = text[1]
      BY <2>1, PartOfText DEF Before
    <3>2. <<text[1]>> \in Seq(T) /\ Len(<<text[1]>>) = 1 /\ <<text[1]>>[1] = text[1]
      BY <2>1
    <3> QED BY <3>1, <3>2, SeqEqual
  <2>6. end # Npos /\ Before(text, end) \in {<<p>> : p \in Protocols}
    BY <2>1, <2>4, <2>5 DEF Npos
  <2> HIDE DEF end
  <2>7. end + 3 = 4 /\ end + 3 + 1 = 5
    BY <2>4
  <2> QED BY <1>2, <2>6, <2>7 DEF Parse, end
<1> QED BY <1>1, <1>2

\* URL::parse: whatever the text was, a URL it returns has one of the
\* protocols, a host without separators, a port that is one, and an endpoint
\* that begins with a slash.
THEOREM ParsedUrlsAreWellFormed ==
  ASSUME NEW T, {":", "/"} \subseteq T, NEW text \in Seq(T), Parse(text).error = "OK"
  PROVE  /\ WellFormed(Parse(text))
         /\ Parse(text).host \in Seq(T) /\ Parse(text).endpoint \in Seq(T)
<1> DEFINE slash == Find(text, <<"/">>, 4)
           hostport == SubSeq(text, 5, IF slash = Npos THEN Len(text) ELSE slash)
           endpoint == IF slash = Npos THEN <<"/">> ELSE From(text, slash)
<1>1. BeginsWithProtocol(text) /\ Parse(text) = HostAndPort(text[1], hostport, endpoint)
  <2>1. Unexpected("BAD_PPROTOCOL").error # "OK"
    BY DEF Unexpected
  <2> QED BY <2>1, ParseByProtocol
<1>2. text[1] \in Protocols /\ Len(text) >= 4
  BY <1>1 DEF BeginsWithProtocol
<1>3. /\ slash = Npos => \A i \in 5..Len(text) : text[i] # "/"
      /\ slash # Npos => /\ slash \in 4..Len(text) - 1 /\ text[slash + 1] = "/"
                         /\ \A i \in 5..slash : text[i] # "/"
  BY NothingBeforeFound
<1> HIDE DEF slash
<1>4. hostport \in Seq(T) /\ None(hostport, {"/"})
  <2> DEFINE n == IF slash = Npos THEN Len(text) ELSE slash
  <2>1. n \in 4..Len(text) /\ \A i \in 5..n : text[i] # "/"
    BY <1>2, <1>3
  <2>2. hostport = SubSeq(text, 5, n)
    OBVIOUS
  <2> HIDE DEF n, hostport
  <2>3. /\ hostport \in Seq(T) /\ Len(hostport) = n - 4
        /\ \A i \in 1..n - 4 : hostport[i] = text[i + 4]
    BY <1>2, <2>1, <2>2, PartOfText
  <2> QED BY <2>1, <2>3 DEF None
<1>5. endpoint \in Seq(T) /\ endpoint # <<>> /\ endpoint[1] = "/"
  <2>1. CASE slash = Npos
    BY <2>1
  <2>2. CASE slash # Npos
    <3>1. From(text, slash) \in Seq(T) /\ Len(From(text, slash)) = Len(text) - slash
          /\ From(text, slash)[1] = text[slash + 1]
      BY <1>3, <2>2, PartOfText DEF From
    <3> QED BY <1>3, <2>2, <3>1
  <2> QED BY <2>1, <2>2
<1> HIDE DEF hostport, endpoint
<1> QED BY <1>1, <1>2, <1>4, <1>5, HostAndPortWellFormed

-----------------------------------------------------------------------------
(* Readings *)

\* A part of a part.
LEMMA PartOfPart ==
  ASSUME NEW T, NEW s \in Seq(T), NEW m \in 1..Len(s) + 1, NEW n \in m - 1..Len(s),
         NEW k \in 1..n - m + 2, NEW l \in k - 1..n - m + 1
  PROVE  SubSeq(SubSeq(s, m, n), k, l) = SubSeq(s, m + k - 1, m + l - 1)
<1> DEFINE part == SubSeq(s, m, n)
           left == SubSeq(part, k, l)
           right == SubSeq(s, m + k - 1, m + l - 1)
<1>1. /\ part \in Seq(T) /\ Len(part) = n - m + 1
      /\ \A i \in 1..n - m + 1 : part[i] = s[m + i - 1]
  BY PartOfText
<1>2. /\ right \in Seq(T) /\ Len(right) = l - k + 1
      /\ \A i \in 1..l - k + 1 : right[i] = s[m + k - 1 + i - 1]
  <2>1. m + k - 1 \in 1..Len(s) + 1 /\ m + l - 1 \in 0..Len(s)
    OBVIOUS
  <2>2. m + l - 1 - (m + k - 1) + 1 = l - k + 1
    OBVIOUS
  <2> QED BY <2>1, <2>2, PartOfText
<1> HIDE DEF part, right
<1>3. /\ left \in Seq(T) /\ Len(left) = l - k + 1
      /\ \A i \in 1..l - k + 1 : left[i] = part[k + i - 1]
  BY <1>1, PartOfText
<1> HIDE DEF left
<1>4. ASSUME NEW i \in 1..l - k + 1
      PROVE  left[i] = right[i]
  <2>1. k + i - 1 \in 1..n - m + 1
    OBVIOUS
  <2>2. part[k + i - 1] = s[m + (k + i - 1) - 1]
    BY <1>1, <2>1
  <2>3. m + (k + i - 1) - 1 = m + k - 1 + i - 1
    OBVIOUS
  <2> QED BY <1>2, <1>3, <2>2, <2>3
<1>5. left = right
  BY <1>2, <1>3, <1>4, SeqEqual
<1> QED BY <1>5 DEF left, right, part

\* The positions of a reading, in terms of the tokens of the text.
Ends(text, h, p) ==
  /\ h > 4 /\ \A i \in 5..h : text[i] # ":" /\ text[i] # "/"
  /\ h = p \/ /\ text[h + 1] = ":" /\ \A i \in h + 1..p : text[i] # "/"
              /\ Stoi(SubSeq(text, h + 2, p)) \in 1..MaxPort
  /\ p = Len(text) \/ text[p + 1] = "/"

\* What a reading says of the text.
LEMMA ReadingEnds ==
  ASSUME NEW T, {":", "/"} \subseteq T, NEW text \in Seq(T), Len(text) >= 4,
         NEW h \in 4..Len(text), NEW p \in h..Len(text)
  PROVE  IsUrl(Split(text, h, p)) <=> Ends(text, h, p)
<1> DEFINE host == SubSeq(text, 5, h)
           port == SubSeq(text, h + 1, p)
           endpoint == SubSeq(text, p + 1, Len(text))
           number == SubSeq(text, h + 2, p)
<1>1. IsUrl(Split(text, h, p)) <=>
        /\ host # <<>> /\ None(host, {":", "/"})
        /\ \/ port = <<>>
           \/ port[1] = ":" /\ None(port, {"/"}) /\ Stoi(Tail(port)) \in 1..MaxPort
        /\ endpoint = <<>> \/ endpoint[1] = "/"
  BY Zenon DEF IsUrl, Split, From
<1>2. host \in Seq(T) /\ Len(host) = h - 4 /\ \A i \in 1..h - 4 : host[i] = text[i + 4]
  BY PartOfText
<1>3. port \in Seq(T) /\ Len(port) = p - h /\ \A i \in 1..p - h : port[i] = text[i + h]
  BY PartOfText
<1>4. /\ endpoint \in Seq(T) /\ Len(endpoint) = Len(text) - p
      /\ p # Len(text) => endpoint[1] = text[p + 1]
  BY PartOfText
<1>5. p # h => Tail(port) = number
  <2> SUFFICES ASSUME p # h PROVE Tail(port) = number
    OBVIOUS
  <2>1. Tail(port) = SubSeq(port, 2, Len(port))
    BY <1>3
  <2> QED BY <1>3, <2>1, PartOfPart
<1> HIDE DEF host, port, endpoint, number
<1>6. host # <<>> <=> h > 4
  BY <1>2
<1>7. None(host, {":", "/"}) <=> \A i \in 5..h : text[i] # ":" /\ text[i] # "/"
  <2>1. ASSUME NEW i \in 5..h
        PROVE  i - 4 \in DOMAIN host /\ host[i - 4] = text[i]
    BY <1>2
  <2>2. ASSUME NEW i \in DOMAIN host
        PROVE  i + 4 \in 5..h /\ host[i] = text[i + 4]
    BY <1>2
  <2>3. None(host, {":", "/"}) <=> \A i \in DOMAIN host : host[i] # ":" /\ host[i] # "/"
    BY DEF None
  <2> QED BY <2>1, <2>2, <2>3
<1>8. port = <<>> <=> h = p
  BY <1>3
<1>9. h # p => /\ port[1] = text[h + 1]
               /\ None(port, {"/"}) <=> \A i \in h + 1..p : text[i] # "/"
  <2>1. ASSUME NEW i \in h + 1..p
        PROVE  i - h \in DOMAIN port /\ port[i - h] = text[i]
    BY <1>3
  <2>2. ASSUME NEW i \in DOMAIN port
        PROVE  i + h \in h + 1..p /\ port[i] = text[i + h]
    BY <1>3
  <2>3. None(port, {"/"}) <=> \A i \in DOMAIN port : port[i] # "/"
    BY DEF None
  <2>4. None(port, {"/"}) <=> \A i \in h + 1..p : text[i] # "/"
    BY <2>1, <2>2, <2>3
  <2>5. h # p => h + 1 \in h + 1..p
    OBVIOUS
  <2>6. h # p => port[1] = text[h + 1]
    BY <2>1, <2>5
  <2> QED BY <2>4, <2>6
<1>10. endpoint = <<>> <=> p = Len(text)
  BY <1>4
<1> QED BY <1>1, <1>4, <1>5, <1>6, <1>7, <1>8, <1>9, <1>10, Zenon DEF Ends, number

\* A text has one reading at most.
LEMMA OneReading ==
  ASSUME NEW T, NEW text \in Seq(T), Len(text) >= 4,
         NEW h \in 4..Len(text), NEW p \in h..Len(text),
         \A i \in 5..h : text[i] # ":",
         h = p \/ text[h + 1] = ":",
         \A i \in 5..p : text[i] # "/",
         p = Len(text) \/ text[p + 1] = "/",
         NEW h2 \in 4..Len(text), NEW p2 \in h2..Len(text), Ends(text, h2, p2)
  PROVE  h2 = h /\ p2 = p
<1>1. h2 > 4 /\ \A i \in 5..h2 : text[i] # ":" /\ text[i] # "/"
  BY DEF Ends
<1>2. h2 = p2 \/ (text[h2 + 1] = ":" /\ \A i \in h2 + 1..p2 : text[i] # "/")
  BY DEF Ends
<1>3. p2 = Len(text) \/ text[p2 + 1] = "/"
  BY DEF Ends
<1>4. \A i \in 5..p2 : text[i] # "/"
  <2>1. ASSUME NEW i \in 5..p2
        PROVE  i \in 5..h2 \/ (h2 # p2 /\ i \in h2 + 1..p2)
    OBVIOUS
  <2> QED BY <1>1, <1>2, <2>1
<1>5. ~(p2 < p)
  <2>1. p2 < p => p2 + 1 \in 5..p /\ p2 # Len(text)
    OBVIOUS
  <2> QED BY <1>3, <2>1
<1>6. ~(p < p2)
  <2>1. p < p2 => p + 1 \in 5..p2 /\ p # Len(text)
    OBVIOUS
  <2> QED BY <1>4, <2>1
<1>7. ~(h2 < h)
  <2>1. h2 < h => h2 + 1 \in 5..h
    OBVIOUS
  <2>2. h2 < h => h2 # p2
    BY <1>5, <1>6
  <2> QED BY <1>2, <2>1, <2>2
<1>8. ~(h < h2)
  <2>1. h < h2 => h + 1 \in 5..h2
    OBVIOUS
  <2>2. h < h2 => h # p
    BY <1>5, <1>6
  <2> QED BY <1>1, <2>1, <2>2
<1> QED BY <1>5, <1>6, <1>7, <1>8

\* URL::parse: whatever the text is, parse finds the only way in which it is
\* a URL, and reports an error if and only if there is none.
THEOREM ParsingFindsTheOnlyReading ==
  ASSUME NEW T, {":", "/"} \subseteq T, NEW text \in Seq(T)
  PROVE  IsWhatItSays(Parse(text), text)
<1> DEFINE slash == Find(text, <<"/">>, 4)
           p == IF slash = Npos THEN Len(text) ELSE slash
           hostport == SubSeq(text, 5, p)
           endpoint == IF slash = Npos THEN <<"/">> ELSE From(text, slash)
           sep == Find(hostport, <<":">>, 0)
           h == IF sep = Npos THEN p ELSE 4 + sep
           host == IF sep = Npos THEN hostport ELSE Before(hostport, sep)
           number == From(hostport, sep + 1)
           given == IF sep = Npos THEN NoPort ELSE Stoi(number)
<1>1. ASSUME ~BeginsWithProtocol(text)
      PROVE  IsWhatItSays(Parse(text), text)
  <2>1. Parse(text) = Unexpected("BAD_PPROTOCOL")
    BY <1>1, ParseByProtocol
  <2>2. Readings(text) = {}
    BY <1>1 DEF Readings
  <2> QED BY <1>1, <2>1, <2>2 DEF IsWhatItSays, Unexpected
<1> SUFFICES ASSUME BeginsWithProtocol(text)
             PROVE  IsWhatItSays(Parse(text), text)
  BY <1>1
<1>2. Len(text) >= 4 /\ text[1] \in Protocols
  BY DEF BeginsWithProtocol
<1>3. Parse(text) = HostAndPort(text[1], hostport, endpoint)
  BY ParseByProtocol
<1>4. /\ slash = Npos => \A i \in 5..Len(text) : text[i] # "/"
      /\ slash # Npos => /\ slash \in 4..Len(text) - 1 /\ text[slash + 1] = "/"
                         /\ \A i \in 5..slash : text[i] # "/"
  BY NothingBeforeFound
<1> HIDE DEF slash
<1>5. /\ p \in 4..Len(text) /\ \A i \in 5..p : text[i] # "/"
      /\ p = Len(text) \/ text[p + 1] = "/"
  BY <1>2, <1>4
<1>6. endpoint = IF From(text, p) = <<>> THEN <<"/">> ELSE From(text, p)
  <2>1. Len(From(text, p)) = Len(text) - p
    BY <1>2, <1>5, PartOfText DEF From
  <2>2. slash = Npos => From(text, p) = <<>>
    <3>1. slash = Npos => Len(From(text, p)) = 0
      BY <2>1
    <3>2. From(text, p) \in Seq(T)
      BY <1>2, <1>5, PartOfText DEF From
    <3> QED BY <3>1, <3>2
  <2>3. slash # Npos => From(text, p) # <<>> /\ p = slash
    BY <1>4, <2>1
  <2> QED BY <2>2, <2>3
<1> HIDE DEF p, endpoint
<1>7. /\ hostport \in Seq(T) /\ Len(hostport) = p - 4
      /\ \A i \in 1..p - 4 : hostport[i] = text[i + 4]
  BY <1>2, <1>5, PartOfText
<1>8. /\ sep = Npos => \A i \in 1..p - 4 : hostport[i] # ":"
      /\ sep # Npos => /\ sep \in 0..p - 5 /\ hostport[sep + 1] = ":"
                       /\ \A i \in 1..sep : hostport[i] # ":"
  <2> HIDE DEF hostport
  <2>1. Len(hostport) - 1 = p - 5 /\ 1..Len(hostport) = 1..p - 4
    BY <1>5, <1>7
  <2>2. ":" \in T /\ 0 \in Nat /\ 0 + 1 = 1
    OBVIOUS
  <2> QED BY <1>7, <2>1, <2>2, NothingBeforeFound
<1> HIDE DEF sep, hostport
<1>9. h \in 4..p /\ (sep = Npos <=> h = p)
  BY <1>5, <1>8
<1>10. \A i \in 5..h : text[i] # ":"
  <2>1. ASSUME NEW i \in 5..h
        PROVE  i - 4 \in 1..p - 4 /\ hostport[i - 4] = text[i - 4 + 4] /\ i - 4 + 4 = i
    BY <1>5, <1>7, <1>9
  <2>2. ASSUME NEW i \in 5..h
        PROVE  hostport[i - 4] # ":"
    BY <1>5, <1>8, <2>1
  <2> QED BY <2>1, <2>2
<1>11. h = p \/ text[h + 1] = ":"
  BY <1>5, <1>7, <1>8
<1>12. host = SubSeq(text, 5, h)
  <2>1. CASE sep = Npos
    BY <2>1 DEF hostport
  <2>2. CASE sep # Npos
    <3>1. /\ 5 \in 1..Len(text) + 1 /\ p \in 5 - 1..Len(text)
          /\ 1 \in 1..p - 5 + 2 /\ sep \in 1 - 1..p - 5 + 1
      BY <1>2, <1>5, <1>8, <2>2
    <3>2. SubSeq(SubSeq(text, 5, p), 1, sep) = SubSeq(text, 5 + 1 - 1, 5 + sep - 1)
      BY <3>1, PartOfPart
    <3>3. 5 + 1 - 1 = 5 /\ 5 + sep - 1 = h
      BY <1>8, <2>2
    <3> QED BY <2>2, <3>2, <3>3 DEF Before, hostport
  <2> QED BY <2>1, <2>2
<1>13. h # p => number = SubSeq(text, h + 2, p)
  <2> SUFFICES ASSUME h # p
               PROVE  number = SubSeq(text, h + 2, p)
    OBVIOUS
  <2>1. sep \in 0..p - 5 /\ h = 4 + sep
    BY <1>8
  <2> HIDE DEF h
  <2> DEFINE k == sep + 2
             l == p - 4
  <2>2. /\ 5 \in 1..Len(text) + 1 /\ p \in 5 - 1..Len(text)
        /\ k \in 1..p - 5 + 2 /\ l \in k - 1..p - 5 + 1
    BY <1>2, <1>5, <2>1
  <2>3. 5 + k - 1 = h + 2 /\ 5 + l - 1 = p
    BY <1>5, <2>1
  <2>4. number = SubSeq(hostport, k, l)
    <3>1. number = SubSeq(hostport, sep + 1 + 1, Len(hostport))
      BY DEF From
    <3>2. sep + 1 + 1 = k /\ Len(hostport) = l
      BY <1>7, <2>1
    <3> HIDE DEF number, k, l
    <3> QED BY <3>1, <3>2
  <2> HIDE DEF k, l
  <2>5. SubSeq(SubSeq(text, 5, p), k, l) = SubSeq(text, 5 + k - 1, 5 + l - 1)
    BY <2>2, PartOfPart
  <2> QED BY <2>3, <2>4, <2>5 DEF hostport
<1>14. HostAndPort(text[1], hostport, endpoint) =
         IF (sep # Npos /\ ~ValidPort(Stoi(number))) \/ host = <<>> THEN Unexpected("RANGE")
         ELSE Make(text[1], host, given, endpoint)
  BY Zenon DEF HostAndPort, sep
<1> HIDE DEF hostport, host, number, h
<1>15. host # <<>> <=> h > 4
  <2>1. host \in Seq(T) /\ Len(host) = h - 4
    BY <1>2, <1>5, <1>9, <1>12, PartOfText
  <2> QED BY <1>9, <2>1
<1>16. Stoi(number) \in Int
  BY StoiIsInt
<1>17. ValidPort(Stoi(number)) <=> Stoi(number) \in 1..MaxPort
  BY <1>16, MaxPortIsInt DEF ValidPort
<1>18. ASSUME NEW r \in Readings(text)
       PROVE  r = <<h, p>> /\ Ends(text, h, p)
  <2>1. /\ r \in (4..Len(text)) \X (4..Len(text)) /\ r[1] <= r[2]
        /\ IsUrl(Split(text, r[1], r[2]))
    BY DEF Readings
  <2>2. r = <<r[1], r[2]>> /\ r[1] \in 4..Len(text) /\ r[2] \in r[1]..Len(text)
    BY <2>1
  <2>3. Ends(text, r[1], r[2])
    BY <1>2, <2>1, <2>2, ReadingEnds
  <2>4. r[1] = h /\ r[2] = p
    <3>1. h \in 4..Len(text) /\ p \in h..Len(text) /\ Len(text) >= 4
      BY <1>2, <1>5, <1>9
    <3> DEFINE h2 == r[1]
               p2 == r[2]
    <3>2. h2 \in 4..Len(text) /\ p2 \in h2..Len(text) /\ Ends(text, h2, p2)
      BY <2>2, <2>3
    <3> HIDE DEF h2, p2
    <3>3. h2 = h /\ p2 = p
      BY <1>5, <1>10, <1>11, <3>1, <3>2, OneReading
    <3> QED BY <3>3 DEF h2, p2
  <2> QED BY <2>2, <2>3, <2>4
<1>19. Ends(text, h, p) => <<h, p>> \in Readings(text)
  <2>1. h \in 4..Len(text) /\ p \in h..Len(text) /\ p \in 4..Len(text) /\ h <= p
    BY <1>2, <1>5, <1>9
  <2>2. Ends(text, h, p) => IsUrl(Split(text, h, p))
    BY <1>2, <2>1, ReadingEnds
  <2> QED BY <2>1, <2>2 DEF Readings
<1>20. Ends(text, h, p) <=> ~(sep # Npos /\ ~ValidPort(Stoi(number))) /\ host # <<>>
  <2>1. \A i \in h + 1..p : text[i] # "/"
    BY <1>5, <1>9
  <2>2. \A i \in 5..h : text[i] # ":" /\ text[i] # "/"
    BY <1>5, <1>9, <1>10
  <2> QED BY <1>5, <1>9, <1>11, <1>13, <1>15, <1>17, <2>1, <2>2 DEF Ends
<1>21. CASE ~Ends(text, h, p)
  <2>1. Parse(text) = Unexpected("RANGE")
    BY <1>3, <1>14, <1>20, <1>21
  <2>2. Readings(text) = {}
    BY <1>18, <1>21
  <2> QED BY <2>1, <2>2 DEF IsWhatItSays, Unexpected
<1>22. CASE Ends(text, h, p)
  <2>1. Parse(text) = Make(text[1], host, given, endpoint)
    BY <1>3, <1>14, <1>20, <1>22
  <2>2. Readings(text) = {<<h, p>>}
    BY <1>18, <1>19, <1>22
  <2> DEFINE s == Split(text, h, p)
  <2>3. s.protocol = text[1] /\ s.host = host /\ s.endpoint = From(text, p)
    BY <1>12 DEF Split
  <2>4. given = IF s.port = <<>> THEN NoPort ELSE Stoi(Tail(s.port))
    <3>1. s.port = SubSeq(text, h + 1, p)
      BY DEF Split
    <3>2. s.port \in Seq(T) /\ Len(s.port) = p - h
      BY <1>2, <1>5, <1>9, <3>1, PartOfText
    <3>3. CASE h = p
      BY <1>9, <3>2, <3>3
    <3>4. CASE h # p
      <4>1. Tail(s.port) = SubSeq(s.port, 2, Len(s.port)) /\ s.port # <<>>
        <5> HIDE DEF s
        <5>1. Len(s.port) \in Nat /\ Len(s.port) # 0
          BY <1>5, <1>9, <3>2, <3>4
        <5> QED BY <3>2, <5>1
      <4>2. Tail(s.port) = SubSeq(text, h + 2, p)
        BY <1>2, <1>5, <1>9, <3>1, <3>2, <3>4, <4>1, PartOfPart
      <4> QED BY <1>9, <1>13, <3>4, <4>1, <4>2
    <3> QED BY <3>3, <3>4
  <2>5. Parse(text) = UrlOf(s)
    <3> HIDE DEF s, given
    <3> QED BY <1>6, <2>1, <2>3, <2>4 DEF UrlOf
  <2>6. Parse(text).error = "OK"
    BY <2>1 DEF Make
  <2> QED BY <2>2, <2>5, <2>6 DEF IsWhatItSays
<1> QED BY <1>21, <1>22

-----------------------------------------------------------------------------
(* to_string *)

\* The tokens of what to_string prints.
LEMMA PrintedText ==
  ASSUME NEW T, {":", "/"} \cup Protocols \subseteq T,
         NEW pp \in Protocols, NEW h \in Seq(T), NEW e \in Seq(T)
  PROVE  LET text == <<pp, ":", "/", "/">> \o h \o e
         IN  /\ text \in Seq(T) /\ Len(text) = 4 + Len(h) + Len(e)
             /\ text[1] = pp /\ text[2] = ":" /\ text[3] = "/" /\ text[4] = "/"
             /\ \A i \in 1..Len(h) : text[i + 4] = h[i]
             /\ \A i \in 1..Len(e) : text[i + 4 + Len(h)] = e[i]
<1> DEFINE start == <<pp, ":", "/", "/">>
           first == start \o h
           text == first \o e
<1>1. /\ start \in Seq(T) /\ Len(start) = 4
      /\ start[1] = pp /\ start[2] = ":" /\ start[3] = "/" /\ start[4] = "/"
  OBVIOUS
<1>2. Len(h) \in Nat /\ Len(e) \in Nat
  OBVIOUS
<1> HIDE DEF start
<1>3. /\ first \in Seq(T) /\ Len(first) = 4 + Len(h)
      /\ \A i \in 1..4 + Len(h) : first[i] = IF i <= 4 THEN start[i] ELSE h[i - 4]
  <2>1. /\ first \in Seq(T) /\ Len(first) = Len(start) + Len(h)
        /\ \A i \in 1..Len(start) + Len(h) :
             first[i] = IF i <= Len(start) THEN start[i] ELSE h[i - Len(start)]
    BY <1>1, ConcatProperties, Zenon
  <2> HIDE DEF first
  <2> QED BY <1>1, <2>1
<1> HIDE DEF first
<1>4. /\ text \in Seq(T) /\ Len(text) = 4 + Len(h) + Len(e)
      /\ \A i \in 1..4 + Len(h) + Len(e) :
           text[i] = IF i <= 4 + Len(h) THEN first[i] ELSE e[i - (4 + Len(h))]
  <2>1. /\ text \in Seq(T) /\ Len(text) = Len(first) + Len(e)
        /\ \A i \in 1..Len(first) + Len(e) :
             text[i] = IF i <= Len(first) THEN first[i] ELSE e[i - Len(first)]
    BY <1>3, ConcatProperties, Zenon
  <2> HIDE DEF text
  <2> QED BY <1>3, <2>1
<1> HIDE DEF text
<1>5. \A i \in 1..4 + Len(h) : text[i] = IF i <= 4 THEN start[i] ELSE h[i - 4]
  BY <1>2, <1>3, <1>4
<1>6. text[1] = start[1] /\ text[2] = start[2] /\ text[3] = start[3] /\ text[4] = start[4]
  BY <1>2, <1>5
<1>7. ASSUME NEW i \in 1..Len(h)
      PROVE  text[i + 4] = h[i]
  BY <1>2, <1>5
<1>8. ASSUME NEW i \in 1..Len(e)
      PROVE  text[i + 4 + Len(h)] = e[i]
  BY <1>2, <1>4
<1> QED BY <1>1, <1>4, <1>6, <1>7, <1>8 DEF text, first, start

\* A protocol, "://", a host without separators and an endpoint that begins
\* with a slash are parsed to what they are.
LEMMA PartsAreParsed ==
  ASSUME NEW T, {":", "/"} \cup Protocols \subseteq T,
         NEW pp \in Protocols, NEW h \in Seq(T), NEW e \in Seq(T),
         h # <<>>, None(h, {":", "/"}), e # <<>>, e[1] = "/"
  PROVE  Parse(<<pp, ":", "/", "/">> \o h \o e) = Make(pp, h, NoPort, e)
<1> DEFINE text == <<pp, ":", "/", "/">> \o h \o e
           slash == Find(text, <<"/">>, 4)
<1>1. /\ text \in Seq(T) /\ Len(text) = 4 + Len(h) + Len(e)
      /\ text[1] = pp /\ text[2] = ":" /\ text[3] = "/" /\ text[4] = "/"
      /\ \A i \in 1..Len(h) : text[i + 4] = h[i]
      /\ \A i \in 1..Len(e) : text[i + 4 + Len(h)] = e[i]
  BY PrintedText
<1>2. pp # ":" /\ pp \in T
  BY DEF Protocols
<1>3. Len(h) \in Nat \ {0} /\ Len(e) \in Nat \ {0}
  OBVIOUS
<1> HIDE DEF text, slash
<1>4. Find(text, <<":", "/", "/">>, 0) = 1
  <2>1. Len(text) >= 4
    BY <1>1, <1>3
  <2>2. {":", "/"} \subseteq T /\ text \in Seq(T) /\ text[1] # ":"
    BY <1>1, <1>2
  <2> QED BY <1>1, <2>1, <2>2, ProtocolEnds, Zenon
<1>5. slash = 4 + Len(h)
  <2>1. \A i \in 5..4 + Len(h) : text[i] # "/"
    <3>1. ASSUME NEW i \in 5..4 + Len(h)
          PROVE  text[i] = h[i - 4] /\ i - 4 \in 1..Len(h)
      BY <1>1, <1>3
    <3> QED BY <1>3, <3>1 DEF None
  <2>2. text[5 + Len(h)] = "/" /\ 5 + Len(h) \in 5..Len(text)
    BY <1>1, <1>3
  <2>3. /\ slash = Npos => \A i \in 5..Len(text) : text[i] # "/"
        /\ slash # Npos => /\ slash \in 4..Len(text) - 1 /\ text[slash + 1] = "/"
                           /\ \A i \in 5..slash : text[i] # "/"
    BY <1>1, NothingBeforeFound DEF slash
  <2>4. slash # Npos
    BY <2>2, <2>3
  <2>5. slash + 1 \notin 5..4 + Len(h)
    BY <2>1, <2>3, <2>4
  <2>6. 5 + Len(h) \notin 5..slash
    BY <2>2, <2>3, <2>4
  <2> QED BY <1>3, <2>3, <2>4, <2>5, <2>6
<1>6. SubSeq(text, 5, slash) = h
  <2>1. /\ SubSeq(text, 5, slash) \in Seq(T) /\ Len(SubSeq(text, 5, slash)) = Len(h)
        /\ \A i \in 1..Len(h) : SubSeq(text, 5, slash)[i] = text[i + 4]
    BY <1>1, <1>3, <1>5, PartOfText
  <2> QED BY <1>1, <1>3, <2>1, SeqEqual
<1>7. From(text, slash) = e
  <2>1. /\ From(text, slash) \in Seq(T) /\ Len(From(text, slash)) = Len(e)
        /\ \A i \in 1..Len(e) : From(text, slash)[i] = text[i + 4 + Len(h)]
    BY <1>1, <1>3, <1>5, PartOfText DEF From
  <2> QED BY <1>1, <1>3, <2>1, SeqEqual
<1>8. Before(text, 1) = <<pp>>
  <2>1. Before(text, 1) \in Seq(T) /\ Len(Before(text, 1)) = 1 /\ Before(text, 1)[1] = pp
    BY <1>1, <1>3, PartOfText DEF Before
  <2>2. <<pp>> \in Seq(T) /\ Len(<<pp>>) = 1 /\ <<pp>>[1] = pp
    BY <1>2
  <2> QED BY <2>1, <2>2, SeqEqual
<1>9. Parse(text) = HostAndPort(pp, h, e)
  <2>1. slash # Npos /\ 1 # Npos
    BY <1>3, <1>5 DEF Npos
  <2>2. Before(text, 1) \in {<<p>> : p \in Protocols}
    BY <1>8
  <2>3. Find(text, <<"/">>, 1 + 3) = slash /\ 1 + 3 + 1 = 5
    BY DEF slash
  <2> QED BY <1>1, <1>4, <1>6, <1>7, <2>1, <2>2, <2>3 DEF Parse
<1>10. Find(h, <<":">>, 0) = Npos
  <2>1. \A i \in 1..Len(h) : h[i] # ":"
    BY DEF None
  <2>2. Find(h, <<":">>, 0) # Npos =>
          Find(h, <<":">>, 0) \in 0..Len(h) - 1 /\ h[Find(h, <<":">>, 0) + 1] = ":"
    BY NothingBeforeFound
  <2> QED BY <1>3, <2>1, <2>2
<1>11. HostAndPort(pp, h, e) = Make(pp, h, NoPort, e)
  BY <1>10 DEF HostAndPort
<1> QED BY <1>9, <1>11 DEF text

\* to_string and parse: what is printed of a URL is parsed to its host and
\* its endpoint, by the printed protocol and at that protocol's port.  The
\* port is lost, and so is any protocol that is not http.
THEOREM PrintedUrlsLeadBack ==
  ASSUME NEW T, {":", "/"} \cup Protocols \subseteq T,
         NEW u, WellFormed(u), u.host \in Seq(T), u.endpoint \in Seq(T)
  PROVE  LeadsBack(u)
<1> DEFINE pp == PrintedProtocol(u)
           back == Make(pp, u.host, NoPort, u.endpoint)
<1>1. pp \in {"http", "https"} /\ pp \in Protocols
  BY DEF PrintedProtocol, Protocols
<1>2. Parse(ToText(u)) = back
  <2>1. /\ u.host # <<>> /\ None(u.host, {":", "/"})
        /\ u.endpoint # <<>> /\ u.endpoint[1] = "/"
    BY DEF WellFormed
  <2> HIDE DEF pp
  <2> QED BY <1>1, <2>1, PartsAreParsed DEF ToText, pp
<1>3. ToText(back) = ToText(u)
  BY <1>1 DEF ToText, Make, PrintedProtocol
<1> QED BY <1>2, <1>3 DEF LeadsBack

\* The same of any text that parse makes a URL of.
COROLLARY ParsedUrlsLeadBack ==
  ASSUME NEW T, {":", "/"} \cup Protocols \subseteq T,
         NEW text \in Seq(T), Parse(text).error = "OK"
  PROVE  LeadsBack(Parse(text))
<1>1. {":", "/"} \subseteq T
  OBVIOUS
<1> QED BY <1>1, ParsedUrlsAreWellFormed, PrintedUrlsLeadBack

-----------------------------------------------------------------------------
(* Header lines *)

\* The tokens of two texts, one after the other.
LEMMA Together ==
  ASSUME NEW S, NEW s \in Seq(S), NEW R, NEW t \in Seq(R)
  PROVE  /\ s \o t \in Seq(S \cup R) /\ Len(s \o t) = Len(s) + Len(t)
         /\ Len(s) \in Nat /\ Len(t) \in Nat
         /\ \A i \in 1..Len(s) : (s \o t)[i] = s[i]
         /\ \A i \in 1..Len(t) : (s \o t)[Len(s) + i] = t[i]
         /\ \A i \in 1..Len(s) + Len(t) :
              i \in 1..Len(s) \/ (i - Len(s) \in 1..Len(t) /\ (s \o t)[i] = t[i - Len(s)])
<1>1. s \in Seq(S \cup R) /\ t \in Seq(S \cup R)
  BY SeqMonotonic
<1>2. /\ s \o t \in Seq(S \cup R) /\ Len(s \o t) = Len(s) + Len(t)
      /\ \A i \in 1..Len(s) + Len(t) :
           (s \o t)[i] = IF i <= Len(s) THEN s[i] ELSE t[i - Len(s)]
  BY <1>1, ConcatProperties, Zenon
<1>3. Len(s) \in Nat /\ Len(t) \in Nat
  OBVIOUS
<1> DEFINE c == s \o t
<1> HIDE DEF c
<1> QED BY <1>2, <1>3 DEF c

\* The line that counts is the first one with the name.
LEMMA FirstLineCounts ==
  ASSUME NEW S, NEW lines \in Seq(S), NEW name
  PROVE  /\ name \in Names(lines) => \E i \in DOMAIN lines : IsFirst(lines, name, i)
         /\ \A i : IsFirst(lines, name, i) =>
              name \in Names(lines) /\ ValueIn(lines, name) = lines[i][2]
<1> DEFINE I == {i \in DOMAIN lines : lines[i][1] = name}
<1>1. DOMAIN lines = 1..Len(lines) /\ Len(lines) \in Nat
  OBVIOUS
<1>2. ASSUME name \in Names(lines)
      PROVE  \E i \in DOMAIN lines : IsFirst(lines, name, i)
  <2>1. I # {} /\ I \in SUBSET Nat
    BY <1>1, <1>2 DEF Names
  <2> HIDE DEF I
  <2>2. PICK i \in I : \A j \in I : i <= j
    BY <2>1, LeastExists
  <2> USE DEF I
  <2>3. \A j \in 1..i - 1 : j \in DOMAIN lines /\ ~(i <= j)
    BY <1>1
  <2>4. \A j \in 1..i - 1 : lines[j][1] # name
    BY <2>2, <2>3
  <2> QED BY <2>4 DEF IsFirst
<1>3. ASSUME NEW i, IsFirst(lines, name, i)
      PROVE  name \in Names(lines) /\ ValueIn(lines, name) = lines[i][2]
  <2> DEFINE c == CHOOSE k \in DOMAIN lines : IsFirst(lines, name, k)
  <2>1. i \in DOMAIN lines /\ lines[i][1] = name /\ \A k \in 1..i - 1 : lines[k][1] # name
    BY <1>3 DEF IsFirst
  <2>2. c \in DOMAIN lines /\ IsFirst(lines, name, c)
    BY <1>3, <2>1
  <2>3. lines[c][1] = name /\ \A k \in 1..c - 1 : lines[k][1] # name
    BY <2>2 DEF IsFirst
  <2>4. ValueIn(lines, name) = lines[c][2]
    BY DEF ValueIn
  <2> HIDE DEF c
  <2>5. c = i
    <3>1. ~(c < i)
      <4>1. c < i => c \in 1..i - 1
        BY <1>1, <2>1, <2>2
      <4> QED BY <2>1, <2>3, <4>1
    <3>2. ~(i < c)
      <4>1. i < c => i \in 1..c - 1
        BY <1>1, <2>1, <2>2
      <4> QED BY <2>1, <2>3, <4>1
    <3> QED BY <1>1, <2>1, <2>2, <3>1, <3>2
  <2>6. name \in Names(lines)
    BY <2>1 DEF Names
  <2> QED BY <2>4, <2>5, <2>6
<1> QED BY <1>2, <1>3

\* Lines that follow hide no line before them.
LEMMA LinesTogether ==
  ASSUME NEW S, NEW s \in Seq(S), NEW R, NEW t \in Seq(R), NEW name
  PROVE  /\ name \in Names(s \o t) <=> name \in Names(s) \/ name \in Names(t)
         /\ name \in Names(s) => ValueIn(s \o t, name) = ValueIn(s, name)
         /\ name \notin Names(s) /\ name \in Names(t) =>
              ValueIn(s \o t, name) = ValueIn(t, name)
<1> DEFINE c == s \o t
<1>1. /\ c \in Seq(S \cup R) /\ Len(c) = Len(s) + Len(t)
      /\ Len(s) \in Nat /\ Len(t) \in Nat
      /\ \A i \in 1..Len(s) : c[i] = s[i]
      /\ \A i \in 1..Len(t) : c[Len(s) + i] = t[i]
      /\ \A i \in 1..Len(s) + Len(t) :
           i \in 1..Len(s) \/ (i - Len(s) \in 1..Len(t) /\ c[i] = t[i - Len(s)])
  BY Together
<1>2. DOMAIN s = 1..Len(s) /\ DOMAIN t = 1..Len(t)
  OBVIOUS
<1> HIDE DEF c
<1>3. DOMAIN c = 1..Len(s) + Len(t)
  BY <1>1
<1>4. ASSUME name \in Names(s)
      PROVE  name \in Names(c) /\ ValueIn(c, name) = ValueIn(s, name)
  <2>1. PICK i \in DOMAIN s : IsFirst(s, name, i)
    BY <1>4, FirstLineCounts
  <2>2. ValueIn(s, name) = s[i][2]
    BY <2>1, FirstLineCounts
  <2>3. i \in DOMAIN c /\ c[i] = s[i] /\ \A k \in 1..i - 1 : c[k] = s[k]
    BY <1>1, <1>2, <1>3
  <2>4. IsFirst(c, name, i)
    BY <2>1, <2>3 DEF IsFirst
  <2> QED BY <1>1, <2>2, <2>3, <2>4, FirstLineCounts
<1>5. ASSUME name \notin Names(s), name \in Names(t)
      PROVE  name \in Names(c) /\ ValueIn(c, name) = ValueIn(t, name)
  <2>1. PICK i \in DOMAIN t : IsFirst(t, name, i)
    BY <1>5, FirstLineCounts
  <2>2. ValueIn(t, name) = t[i][2]
    BY <2>1, FirstLineCounts
  <2>3. Len(s) + i \in DOMAIN c /\ c[Len(s) + i] = t[i]
    BY <1>1, <1>2, <1>3
  <2>4. \A k \in 1..Len(s) : c[k][1] # name
    BY <1>1, <1>2, <1>5 DEF Names
  <2>5. ASSUME NEW k \in 1..Len(s) + i - 1
        PROVE  c[k][1] # name
    <3>1. k \in 1..Len(s) \/ (k - Len(s) \in 1..i - 1 /\ c[k] = t[k - Len(s)])
      BY <1>1, <1>2
    <3> QED BY <2>1, <2>4, <3>1 DEF IsFirst
  <2>6. IsFirst(c, name, Len(s) + i)
    BY <2>1, <2>3, <2>5 DEF IsFirst
  <2> QED BY <1>1, <2>2, <2>3, <2>6, FirstLineCounts
<1>6. ASSUME name \in Names(c), name \notin Names(t)
      PROVE  name \in Names(s)
  <2>1. PICK i \in DOMAIN c : c[i][1] = name
    BY <1>6 DEF Names
  <2>2. \/ i \in DOMAIN s /\ c[i] = s[i]
        \/ i - Len(s) \in DOMAIN t /\ c[i] = t[i - Len(s)]
    BY <1>1, <1>2, <1>3
  <2> QED BY <1>6, <2>1, <2>2 DEF Names
<1> QED BY <1>4, <1>5, <1>6 DEF c

\* The values of a name that two texts give together, if one of them gives none.
LEMMA GivenTogether ==
  ASSUME NEW S, NEW s \in Seq(S), NEW R, NEW t \in Seq(R), NEW name, NEW V, NEW W,
         GivenOnce(s, name, V), GivenOnce(t, name, W), V = {} \/ W = {}
  PROVE  GivenOnce(s \o t, name, V \cup W)
<1> DEFINE c == s \o t
           In(lines) == {k \in DOMAIN lines : lines[k][1] = name}
<1>1. /\ c \in Seq(S \cup R) /\ Len(c) = Len(s) + Len(t)
      /\ Len(s) \in Nat /\ Len(t) \in Nat
      /\ \A i \in 1..Len(s) : c[i] = s[i]
      /\ \A i \in 1..Len(t) : c[Len(s) + i] = t[i]
      /\ \A i \in 1..Len(s) + Len(t) :
           i \in 1..Len(s) \/ (i - Len(s) \in 1..Len(t) /\ c[i] = t[i - Len(s)])
  BY Together
<1>2. DOMAIN s = 1..Len(s) /\ DOMAIN t = 1..Len(t)
  OBVIOUS
<1> HIDE DEF c
<1>3. DOMAIN c = 1..Len(s) + Len(t)
  BY <1>1
<1>4. \A i \in In(s) : i \in In(c) /\ c[i][2] = s[i][2]
  BY <1>1, <1>2, <1>3
<1>5. \A i \in In(t) : Len(s) + i \in In(c) /\ c[Len(s) + i][2] = t[i][2]
  BY <1>1, <1>2, <1>3
<1>6. ASSUME NEW i \in In(c)
      PROVE  \/ i \in In(s) /\ c[i] = s[i]
             \/ i - Len(s) \in In(t) /\ c[i] = t[i - Len(s)] /\ i \in Int
  <2>1. \/ i \in DOMAIN s /\ c[i] = s[i]
        \/ i - Len(s) \in DOMAIN t /\ c[i] = t[i - Len(s)]
    BY <1>1, <1>2, <1>3
  <2> QED BY <1>3, <2>1
<1>7. /\ {s[i][2] : i \in In(s)} = V /\ \A i, k \in In(s) : i = k
      /\ {t[i][2] : i \in In(t)} = W /\ \A i, k \in In(t) : i = k
  BY DEF GivenOnce
<1>8. V = {} => In(s) = {}
  <2> HIDE DEF In
  <2> QED BY <1>7
<1>9. W = {} => In(t) = {}
  <2> HIDE DEF In
  <2> QED BY <1>7
<1>10. {c[i][2] : i \in In(c)} = V \cup W
  <2> HIDE DEF In
  <2> QED BY <1>4, <1>5, <1>6, <1>7
<1>11. \A i, k \in In(c) : i = k
  <2>1. ASSUME NEW i \in In(c), NEW k \in In(c)
        PROVE  i = k
    <3> HIDE DEF In
    <3>1. CASE V = {}
      <4>1. i - Len(s) = k - Len(s) /\ i \in Int /\ k \in Int
        BY <1>6, <1>7, <1>8, <3>1
      <4> QED BY <1>1, <4>1
    <3>2. CASE W = {}
      BY <1>6, <1>7, <1>9, <3>2
    <3> QED BY <3>1, <3>2
  <2> QED BY <2>1
<1> QED BY <1>10, <1>11 DEF GivenOnce, c

\* Lines without a name give nothing of that name.
LEMMA GivenNever ==
  ASSUME NEW lines, NEW name, \A i \in DOMAIN lines : lines[i][1] # name
  PROVE  GivenOnce(lines, name, {})
BY DEF GivenOnce

\* SetToSeq enumerates a finite set.
LEMMA Enumerated ==
  ASSUME NEW S, IsFiniteSet(S)
  PROVE  /\ Cardinality(S) \in Nat
         /\ SetToSeq(S) \in [1..Cardinality(S) -> S]
         /\ \A i, k \in 1..Cardinality(S) : SetToSeq(S)[i] = SetToSeq(S)[k] => i = k
         /\ \A n \in S : \E i \in 1..Cardinality(S) : SetToSeq(S)[i] = n
<1> DEFINE N == Cardinality(S)
           f == SetToSeq(S)
<1>1. N \in Nat /\ ExistsBijection(1..N, S)
  BY FS_CardinalityType
<1>2. \E g \in [1..N -> S] : IsInjective(g)
  BY <1>1 DEF ExistsBijection, Bijection, Injection
<1>3. f \in [1..N -> S] /\ IsInjective(f)
  BY <1>2 DEF SetToSeq
<1>4. f \in Injection(1..N, S)
  BY <1>3 DEF Injection
<1>5. Cardinality(1..N) = N
  BY <1>1, FS_Interval
<1>6. f \in Surjection(1..N, S)
  BY <1>4, <1>5, FS_Injection
<1>7. \A n \in S : \E i \in 1..N : f[i] = n
  BY <1>6 DEF Surjection
<1>8. \A i, k \in 1..N : f[i] = f[k] => i = k
  BY <1>3 DEF IsInjective
<1> QED BY <1>1, <1>3, <1>7, <1>8

ExtraLine(extra) == {<<n, extra[n]>> : n \in DOMAIN extra}

\* Each header of the handler has one line.
LEMMA ExtraGiven ==
  ASSUME NEW extra, IsFiniteSet(DOMAIN extra), NEW name
  PROVE  /\ ExtraLines(extra) \in Seq(ExtraLine(extra))
         /\ GivenOnce(ExtraLines(extra), name,
                      IF name \in DOMAIN extra THEN {extra[name]} ELSE {})
<1> DEFINE D == DOMAIN extra
           N == Cardinality(D)
           f == SetToSeq(D)
           lines == ExtraLines(extra)
<1>1. /\ N \in Nat /\ f \in [1..N -> D]
      /\ \A i, k \in 1..N : f[i] = f[k] => i = k
      /\ \A n \in D : \E i \in 1..N : f[i] = n
  BY Enumerated
<1> HIDE DEF f
<1>2. lines = [i \in 1..N |-> <<f[i], extra[f[i]]>>]
  BY DEF ExtraLines, f
<1> HIDE DEF N, lines
<1>3. DOMAIN lines = 1..N /\ \A i \in 1..N : lines[i][1] = f[i] /\ lines[i][2] = extra[f[i]]
  BY <1>2
<1>4. lines \in Seq(ExtraLine(extra))
  <2>1. \A i \in 1..N : <<f[i], extra[f[i]]>> \in ExtraLine(extra)
    BY <1>1 DEF ExtraLine
  <2>2. lines \in [1..N -> ExtraLine(extra)]
    BY <1>2, <2>1
  <2> QED BY <1>1, <2>2
<1>5. {lines[i][2] : i \in {k \in DOMAIN lines : lines[k][1] = name}}
        = IF name \in D THEN {extra[name]} ELSE {}
  <2>1. CASE name \in D
    <3>1. PICK i \in 1..N : f[i] = name
      BY <1>1, <2>1
    <3> QED BY <1>3, <2>1, <3>1
  <2>2. CASE name \notin D
    <3>1. \A i \in 1..N : f[i] # name
      BY <1>1, <2>2
    <3> QED BY <1>3, <2>2, <3>1
  <2> QED BY <2>1, <2>2
<1>6. \A i, k \in DOMAIN lines : lines[i][1] = name /\ lines[k][1] = name => i = k
  BY <1>1, <1>3
<1> QED BY <1>4, <1>5, <1>6 DEF GivenOnce, lines

\* What was asked for is said once, unless the handler said something.
LEMMA EchoGiven ==
  ASSUME NEW extra, NEW headers, NEW allow, NEW asked, NEW name
  PROVE  /\ Echo(extra, headers, allow, asked) \in Seq({<<allow, headers[asked]>>})
         /\ GivenOnce(Echo(extra, headers, allow, asked), name,
              IF name = allow /\ asked \in DOMAIN headers /\ allow \notin DOMAIN extra
                THEN {headers[asked]} ELSE {})
<1> DEFINE lines == Echo(extra, headers, allow, asked)
<1>1. CASE asked \in DOMAIN headers /\ allow \notin DOMAIN extra
  <2> DEFINE line == <<allow, headers[asked]>>
  <2>1. lines = <<line>> /\ line[1] = allow /\ line[2] = headers[asked]
    BY <1>1 DEF Echo
  <2> HIDE DEF lines
  <2>2. DOMAIN lines = {1} /\ lines[1] = line /\ lines \in Seq({line})
    BY <2>1
  <2> HIDE DEF line
  <2>3. {lines[i][2] : i \in {k \in DOMAIN lines : lines[k][1] = name}}
          = IF name = allow THEN {headers[asked]} ELSE {}
    BY <2>1, <2>2
  <2>4. \A i, k \in DOMAIN lines : i = k
    BY <2>2
  <2> QED BY <1>1, <2>2, <2>3, <2>4 DEF GivenOnce, lines, line
<1>2. CASE ~(asked \in DOMAIN headers /\ allow \notin DOMAIN extra)
  <2>1. lines = <<>>
    BY <1>2 DEF Echo
  <2> HIDE DEF lines
  <2>2. GivenOnce(lines, name, {}) /\ lines \in Seq({<<allow, headers[asked]>>})
    BY <2>1, GivenNever
  <2> QED BY <1>2, <2>2 DEF lines
<1> QED BY <1>1, <1>2

-----------------------------------------------------------------------------
(* The call *)

Stages == {"text", "failed", "url", "request", "seen", "reply", "not_found", "response", "end"}

Asked == Stages \ {"text", "failed", "url"}

\* Each text is what the steps so far make of the call.
FlowInv ==
  /\ call \in Calls /\ stage \in Stages
  /\ stage # "text" => url = Parse(call.text)
  /\ stage \notin {"text", "failed"} => url.error = "OK"
  /\ stage \in Asked =>
       request = RequestText(call.method, url.endpoint, call.payload, call.headers)
  /\ stage \in Asked \ {"request"} => seen = RequestRead(HeadersBefore, request)
  /\ stage \in {"reply", "response"} =>
       reply = CreateReply(call.status, call.answer, seen.headers, call.reply_headers,
                           call.content_type)
  /\ stage \in {"not_found", "end"} =>
       reply = CreateReply("NOT_FOUND", <<"{", "}">>, seen.headers, NoHeaders, "application/json")
  /\ stage = "response" => response = ResponseRead(reply)

\* Every step makes its text as FlowInv says, of a call that does not change.
LEMMA FlowInvariant == Spec => []FlowInv
<1>1. Init => FlowInv
  BY DEF Init, FlowInv, Stages, Asked
<1>2. FlowInv /\ [Next]_vars => FlowInv'
  <2> SUFFICES ASSUME FlowInv, [Next]_vars
               PROVE  FlowInv'
    OBVIOUS
  <2> USE DEF FlowInv, Stages, Asked
  <2>1. CASE ParseUrl
    BY <2>1 DEF ParseUrl
  <2>2. CASE SendRequestConnected
    BY <2>2 DEF SendRequestConnected
  <2>3. CASE ServerReads
    <3>1. HeadersBefore' = HeadersBefore
      BY <2>3 DEF ServerReads, HeadersBefore, CutLines
    <3> QED BY <2>3, <3>1 DEF ServerReads
  <2>4. CASE HandlerAnswers \/ NotFound \/ ClientReads \/ UNCHANGED vars
    <3>1. HeadersBefore' = HeadersBefore
      BY <2>4 DEF HandlerAnswers, NotFound, ClientReads, vars, HeadersBefore, CutLines
    <3>2. CASE HandlerAnswers
      BY <3>1, <3>2 DEF HandlerAnswers
    <3>3. CASE NotFound
      BY <3>1, <3>3 DEF NotFound
    <3>4. CASE ClientReads
      BY <3>1, <3>4 DEF ClientReads
    <3>5. CASE UNCHANGED vars
      BY <3>1, <3>5 DEF vars
    <3> QED BY <2>4, <3>2, <3>3, <3>4, <3>5
  <2> QED BY <2>1, <2>2, <2>3, <2>4 DEF Next
<1> QED BY <1>1, <1>2, PTL DEF Spec

\* What is known of the call and its URL.
LEMMA CallFacts ==
  ASSUME FlowInv
  PROVE  /\ call.text \in Seq(Tokens) /\ call.method \in Methods
         /\ call.headers \in Seq(HeaderLine) /\ IsFiniteSet(DOMAIN call.reply_headers)
         /\ call.cut = NoCut \/ IsCut(call.cut, OwnHeaders(call.payload) \o call.headers)
         /\ call.status # Blank
         /\ stage \notin {"text", "failed"} => url.endpoint \in Seq(Tokens) /\ url.endpoint # <<>>
<1>1. call \in Calls
  BY DEF FlowInv
<1>2. call.text \in Seq(Tokens)
  BY <1>1, CallsAssumption
<1>3. stage \notin {"text", "failed"} => url.endpoint \in Seq(Tokens) /\ url.endpoint # <<>>
  <2> SUFFICES ASSUME stage \notin {"text", "failed"}
               PROVE  url.endpoint \in Seq(Tokens) /\ url.endpoint # <<>>
    OBVIOUS
  <2>1. url = Parse(call.text) /\ url.error = "OK"
    BY DEF FlowInv
  <2>2. {":", "/"} \subseteq Tokens
    BY TokensAssumption
  <2>3. WellFormed(url) /\ url.endpoint \in Seq(Tokens)
    BY <1>2, <2>1, <2>2, ParsedUrlsAreWellFormed
  <2> QED BY <2>3 DEF WellFormed
<1> QED BY <1>1, <1>2, <1>3, CallsAssumption

\* URL::parse: what becomes of the text of a call is the one way in which it is
\* a URL, or an error if there is none.
THEOREM UrlsAreWhatTheySay == Spec => []UrlIsWhatItSays
<1>1. FlowInv => UrlIsWhatItSays
  <2> SUFFICES ASSUME FlowInv, stage # "text"
               PROVE  IsWhatItSays(url, call.text)
    BY DEF UrlIsWhatItSays
  <2>1. call.text \in Seq(Tokens) /\ {":", "/"} \subseteq Tokens
    BY CallFacts, TokensAssumption
  <2>2. url = Parse(call.text)
    BY DEF FlowInv
  <2> QED BY <2>1, <2>2, ParsingFindsTheOnlyReading
<1> QED BY <1>1, FlowInvariant, PTL

\* URL::to_string: the URL of a call, printed, leads back to its host and its
\* endpoint, by the printed protocol and at that protocol's port.
THEOREM PrintedUrlsOfCallsLeadBack == Spec => []PrintedUrlLeadsBack
<1>1. FlowInv => PrintedUrlLeadsBack
  <2> SUFFICES ASSUME FlowInv, stage # "text", url.error = "OK"
               PROVE  LeadsBack(url)
    BY DEF PrintedUrlLeadsBack
  <2>1. call.text \in Seq(Tokens) /\ {":", "/"} \cup Protocols \subseteq Tokens
    BY CallFacts, TokensAssumption
  <2>2. url = Parse(call.text)
    BY DEF FlowInv
  <2> QED BY <2>1, <2>2, ParsedUrlsLeadBack
<1> QED BY <1>1, FlowInvariant, PTL

-----------------------------------------------------------------------------
(* What the server reads *)

\* What a parse stores: the first line, what was there, and for other names
\* their first lines.
LEMMA ParsedHeaders ==
  \A headers, line, lines :
    /\ DOMAIN ParseHeaders(headers, line, lines)
         = DOMAIN headers \cup {"method"} \cup Names(lines)
    /\ ParseHeaders(headers, line, lines)["method"] = line
    /\ \A n \in DOMAIN headers \ {"method"} :
         ParseHeaders(headers, line, lines)[n] = headers[n]
    /\ \A n \in Names(lines) \ (DOMAIN headers \cup {"method"}) :
         ParseHeaders(headers, line, lines)[n] = ValueIn(lines, n)
<1> TAKE headers, line, lines
<1> DEFINE first == [n \in DOMAIN headers \cup {"method"} |->
                       IF n = "method" THEN line ELSE headers[n]]
<1>1. /\ DOMAIN first = DOMAIN headers \cup {"method"} /\ first["method"] = line
      /\ \A n \in DOMAIN headers \ {"method"} : first[n] = headers[n]
  OBVIOUS
<1>2. ParseHeaders(headers, line, lines) = Inserted(first, lines)
  BY DEF ParseHeaders
<1> HIDE DEF first
<1> QED BY <1>1, <1>2 DEF Inserted

\* The first two words of the first line of a request.
LEMMA RequestLine ==
  ASSUME NEW method, method # Blank, NEW e \in Seq(Tokens), e # <<>>
  PROVE  LET line == <<method, Blank>> \o e \o <<Blank, "HTTP/1.1">>
             got == Word(line, 2)
         IN  /\ Word(line, 1)[1] = method
             /\ IsPrefix(got \o <<Blank>>, e \o <<Blank>>) /\ None(got, {Blank})
<1> DEFINE start == <<method, Blank>>
           end == <<Blank, "HTTP/1.1">>
           first == start \o e
           line == first \o end
           N == Len(e)
           S1 == {method, Blank}
           S2 == {Blank, "HTTP/1.1"}
           S3 == {Blank}
           T == {method, Blank, "HTTP/1.1"} \cup Tokens
           b1 == Find(line, <<Blank>>, 0)
           b2 == Find(line, <<Blank>>, b1 + 1)
           got == Word(line, 2)
<1>1. /\ start \in Seq(S1) /\ Len(start) = 2 /\ start[1] = method /\ start[2] = Blank
      /\ end \in Seq(S2) /\ Len(end) = 2 /\ end[1] = Blank
      /\ N \in Nat \ {0}
  OBVIOUS
<1>2. (S1 \cup Tokens) \cup S2 = T /\ S3 \cup Tokens \subseteq T /\ S3 \subseteq T
  OBVIOUS
<1> HIDE DEF start, end, N, S1, S2, S3
<1>3. /\ first \in Seq(S1 \cup Tokens) /\ Len(first) = 2 + N
      /\ \A i \in 1..2 : first[i] = start[i]
      /\ \A i \in 1..N : first[2 + i] = e[i]
  <2>1. /\ first \in Seq(S1 \cup Tokens) /\ Len(first) = Len(start) + Len(e)
        /\ \A i \in 1..Len(start) : first[i] = start[i]
        /\ \A i \in 1..Len(e) : first[Len(start) + i] = e[i]
    <3>1. start \in Seq(S1) /\ e \in Seq(Tokens)
      BY <1>1
    <3> QED BY <3>1, Together
  <2> HIDE DEF first
  <2> QED BY <1>1, <2>1 DEF N
<1> HIDE DEF first
<1>4. /\ line \in Seq((S1 \cup Tokens) \cup S2) /\ Len(line) = 4 + N
      /\ \A i \in 1..2 + N : line[i] = first[i]
      /\ \A i \in 1..2 : line[2 + N + i] = end[i]
  <2>1. /\ line \in Seq((S1 \cup Tokens) \cup S2)
        /\ Len(line) = Len(first) + Len(end)
        /\ \A i \in 1..Len(first) : line[i] = first[i]
        /\ \A i \in 1..Len(end) : line[Len(first) + i] = end[i]
    <3>1. first \in Seq(S1 \cup Tokens) /\ end \in Seq(S2)
      BY <1>1, <1>3
    <3> HIDE DEF T
    <3> QED BY <3>1, Together
  <2> HIDE DEF line
  <2> QED BY <1>1, <1>3, <2>1
<1>5. line \in Seq(T) /\ Blank \in T
  BY <1>2, <1>4
<1> HIDE DEF line, T
<1>6. /\ line[1] = method /\ line[2] = Blank /\ line[3 + N] = Blank
      /\ \A i \in 1..N : line[2 + i] = e[i]
  BY <1>1, <1>3, <1>4
<1>7. b1 = 1
  <2>1. /\ b1 = Npos => \A i \in 0 + 1..Len(line) : line[i] # Blank
        /\ b1 # Npos => b1 \in 0..Len(line) - 1 /\ \A i \in 0 + 1..b1 : line[i] # Blank
        /\ b1 # Npos => line[b1 + 1] = Blank
    BY <1>5, NothingBeforeFound
  <2> HIDE DEF b1
  <2>2. b1 # Npos
    BY <1>1, <1>4, <1>6, <2>1
  <2>3. b1 # 0 /\ 2 \notin 1..b1
    BY <1>6, <2>1, <2>2
  <2> QED BY <1>1, <1>4, <2>1, <2>2, <2>3
<1>8. b2 \in 2..2 + N /\ line[b2 + 1] = Blank /\ \A i \in 3..b2 : line[i] # Blank
  <2> DEFINE f == Find(line, <<Blank>>, 2)
  <2>1. /\ f = Npos => \A i \in 2 + 1..Len(line) : line[i] # Blank
        /\ f # Npos => f \in 2..Len(line) - 1 /\ \A i \in 2 + 1..f : line[i] # Blank
        /\ f # Npos => line[f + 1] = Blank
    BY <1>5, NothingBeforeFound
  <2> HIDE DEF f
  <2>2. f # Npos
    BY <1>1, <1>4, <1>6, <2>1
  <2>3. 3 + N \notin 3..f
    BY <1>1, <1>6, <2>1, <2>2
  <2>4. f \in 2..2 + N /\ line[f + 1] = Blank /\ \A i \in 3..f : line[i] # Blank
    BY <1>1, <1>4, <2>1, <2>2, <2>3
  <2>5. b2 = f
    BY <1>7 DEF f
  <2> QED BY <2>4, <2>5
<1>9. Word(line, 1) = Before(line, b1) /\ got = SubSeq(line, b1 + 2, b2)
  BY DEF Word
<1> HIDE DEF b1, b2, got
<1>10. Word(line, 1)[1] = method
  <2>1. Before(line, 1)[1] = line[1]
    BY <1>1, <1>4, <1>5, PartOfText DEF Before
  <2> QED BY <1>6, <1>7, <1>9, <2>1
<1> DEFINE k == b2 - 2
<1>11. /\ got \in Seq(T) /\ Len(got) = k /\ k \in 0..N
       /\ \A i \in 1..k : got[i] = line[i + 2]
  <2>1. got = SubSeq(line, 3, b2)
    BY <1>7, <1>9
  <2>2. 3 \in 1..Len(line) + 1 /\ b2 \in 0..Len(line)
    BY <1>1, <1>4, <1>8
  <2>3. /\ got \in Seq(T) /\ Len(got) = (IF 3 <= b2 THEN b2 - 3 + 1 ELSE 0)
        /\ \A i \in 1..b2 - 3 + 1 : got[i] = line[3 + i - 1]
    BY <1>5, <2>1, <2>2, PartOfText
  <2> QED BY <1>1, <1>8, <2>3
<1>12. None(got, {Blank})
  <2>1. ASSUME NEW i \in 1..k
        PROVE  i + 2 \in 3..b2
    BY <1>8
  <2>2. DOMAIN got = 1..k
    BY <1>11
  <2> HIDE DEF k
  <2>3. ASSUME NEW i \in DOMAIN got
        PROVE  got[i] # Blank
    BY <1>8, <1>11, <2>1, <2>2
  <2> QED BY <2>3 DEF None
<1>13. IsPrefix(got \o <<Blank>>, e \o <<Blank>>)
  <2> DEFINE blank == <<Blank>>
             left == got \o blank
             right == e \o blank
  <2>1. blank \in Seq(S3) /\ Len(blank) = 1 /\ blank[1] = Blank
    BY DEF S3
  <2> HIDE DEF blank
  <2>2. /\ left \in Seq(T \cup S3) /\ Len(left) = k + 1
        /\ \A i \in 1..k : left[i] = got[i]
        /\ left[k + 1] = Blank
    <3>1. /\ left \in Seq(T \cup S3) /\ Len(left) = Len(got) + Len(blank)
          /\ \A i \in 1..Len(got) : left[i] = got[i]
          /\ \A i \in 1..Len(blank) : left[Len(got) + i] = blank[i]
      <4>1. got \in Seq(T) /\ blank \in Seq(S3)
        BY <1>11, <2>1
      <4> QED BY <4>1, Together
    <3> HIDE DEF left, k
    <3> QED BY <1>11, <2>1, <3>1
  <2>3. /\ right \in Seq(Tokens \cup S3) /\ Len(right) = N + 1
        /\ \A i \in 1..N : right[i] = e[i]
        /\ right[N + 1] = Blank
    <3>1. /\ right \in Seq(Tokens \cup S3) /\ Len(right) = Len(e) + Len(blank)
          /\ \A i \in 1..Len(e) : right[i] = e[i]
          /\ \A i \in 1..Len(blank) : right[Len(e) + i] = blank[i]
      BY <2>1, Together
    <3> HIDE DEF right
    <3> QED BY <1>1, <2>1, <3>1 DEF N
  <2> HIDE DEF left, right
  <2>4. ASSUME NEW i \in 1..k + 1
        PROVE  left[i] = line[i + 2]
    <3>1. CASE i \in 1..k
      BY <1>11, <2>2, <3>1
    <3>2. CASE i = k + 1
      BY <1>8, <1>11, <2>1, <2>2, <3>2
    <3> QED BY <1>11, <3>1, <3>2
  <2>5. ASSUME NEW i \in 1..N + 1
        PROVE  right[i] = line[i + 2]
    <3>1. CASE i \in 1..N
      BY <1>6, <2>3, <3>1
    <3>2. CASE i = N + 1
      BY <1>1, <1>6, <2>1, <2>3, <3>2
    <3> QED BY <1>1, <3>1, <3>2
  <2>6. Len(left) \in 0..Len(right) /\ \A i \in 1..Len(left) : left[i] = right[i]
    <3>1. Len(left) = k + 1 /\ Len(right) = N + 1 /\ k + 1 \in 0..N + 1
      BY <1>1, <1>11, <2>2, <2>3
    <3> HIDE DEF k
    <3>2. \A i \in 1..k + 1 : i \in 1..N + 1
      BY <1>1, <1>11
    <3> QED BY <2>4, <2>5, <3>1, <3>2
  <2>7. SubSeq(left, 1, Len(left)) = SubSeq(right, 1, Len(left))
    <3> DEFINE part == SubSeq(right, 1, Len(left))
    <3>1. /\ part \in Seq(Tokens \cup S3) /\ Len(part) = Len(left)
          /\ \A i \in 1..Len(left) : part[i] = right[i]
      BY <2>3, <2>6, PartOfText
    <3> HIDE DEF part
    <3>2. left \in Seq(T) /\ part \in Seq(T)
      <4>1. T \cup S3 = T /\ Tokens \cup S3 \subseteq T
        BY <1>2
      <4> QED BY <2>2, <3>1, <4>1, SeqMonotonic
    <3>3. left = part
      BY <2>6, <3>1, <3>2, SeqEqual
    <3>4. SubSeq(left, 1, Len(left)) = left
      BY <3>2, SubSeqFull
    <3> QED BY <3>3, <3>4 DEF part
  <2>8. Len(left) <= Len(right)
    BY <2>3, <2>6
  <2> QED BY <2>7, <2>8 DEF IsPrefix, left, right, blank
<1> QED BY <1>10, <1>12, <1>13 DEF got, line, first, start, end

\* None of the names and values that are written for one is a blank.
LEMMA NoBlanks == "HTTP/1.1" # Blank /\ \A m \in Methods : m # Blank
BY Zenon DEF Blank, Methods

OwnLine(payload) ==
  {<<"Host", <<"localhost">> >>, <<"Content-Length", <<ToString(Len(payload))>> >>,
   <<"Application-Agent", <<"Flex-Audio-Client/1.0">> >>,
   <<"Content-Type", <<"application/json">> >>, <<"Connection", <<"close">> >>}

\* The headers of the library's client: none of them is a question.
LEMMA OwnNames ==
  ASSUME NEW payload
  PROVE  /\ OwnHeaders(payload) \in Seq(OwnLine(payload))
         /\ Names(OwnHeaders(payload)) \subseteq
              {"Host", "Content-Length", "Application-Agent", "Content-Type", "Connection"}
<1> DEFINE L == OwnLine(payload)
           own == OwnHeaders(payload)
           first == << <<"Host", <<"localhost">> >>, <<"Content-Length", <<ToString(Len(payload))>> >>,
                       <<"Application-Agent", <<"Flex-Audio-Client/1.0">> >> >>
           type == IF payload = <<>> THEN <<>> ELSE << <<"Content-Type", <<"application/json">> >> >>
           last == << <<"Connection", <<"close">> >> >>
<1>1. first \in Seq(L) /\ type \in Seq(L) /\ last \in Seq(L)
  BY DEF OwnLine
<1>2. own = first \o type \o last
  BY DEF OwnHeaders
<1> HIDE DEF L, own, first, type, last
<1>3. own \in Seq(L)
  BY <1>1, <1>2
<1>4. \A l \in L : l[1] \in {"Host", "Content-Length", "Application-Agent", "Content-Type", "Connection"}
  BY DEF L, OwnLine
<1>5. \A i \in DOMAIN own : own[i] \in L
  BY <1>3
<1> QED BY <1>3, <1>4, <1>5 DEF Names, own, L

\* What is read of the first k lines is what is read of all of them.
LEMMA FirstLines ==
  ASSUME NEW S, NEW lines \in Seq(S), NEW k \in 0..Len(lines)
  PROVE  /\ SubSeq(lines, 1, k) \in Seq(S)
         /\ Names(SubSeq(lines, 1, k)) \subseteq Names(lines)
         /\ \A n \in Names(SubSeq(lines, 1, k)) :
              ValueIn(lines, n) = ValueIn(SubSeq(lines, 1, k), n)
<1> DEFINE s == SubSeq(lines, 1, k)
           rest == SubSeq(lines, k + 1, Len(lines))
<1>1. s \in Seq(S) /\ rest \in Seq(S)
  BY PartOfText
<1>2. lines = s \o rest
  <2>1. 1 \in 1..Len(lines) + 1 /\ k \in 1 - 1..Len(lines) /\ Len(lines) \in k..Len(lines)
    OBVIOUS
  <2>2. s \o rest = SubSeq(lines, 1, Len(lines))
    BY <2>1, ConcatAdjacentSubSeq
  <2> QED BY <2>2, SubSeqFull
<1> HIDE DEF s, rest
<1>3. ASSUME NEW n
      PROVE  /\ n \in Names(s \o rest) <=> n \in Names(s) \/ n \in Names(rest)
             /\ n \in Names(s) => ValueIn(s \o rest, n) = ValueIn(s, n)
  BY <1>1, LinesTogether
<1>4. Names(s) \subseteq Names(lines) /\ \A n \in Names(s) : ValueIn(lines, n) = ValueIn(s, n)
  BY <1>2, <1>3
<1> QED BY <1>1, <1>4 DEF s

\* What a parser that knew nothing knows after the first packet.
LEMMA ParsedOnce ==
  ASSUME NEW line, NEW lines
  PROVE  /\ DOMAIN ParseHeaders(NoHeaders, line, lines) = {"method"} \cup Names(lines)
         /\ \A n \in Names(lines) \ {"method"} :
              ParseHeaders(NoHeaders, line, lines)[n] = ValueIn(lines, n)
<1> DEFINE parsed == ParseHeaders(NoHeaders, line, lines)
<1>1. DOMAIN NoHeaders = {}
  BY DEF NoHeaders
<1>2. DOMAIN parsed = DOMAIN NoHeaders \cup {"method"} \cup Names(lines)
  BY ParsedHeaders
<1>3. \A n \in Names(lines) \ (DOMAIN NoHeaders \cup {"method"}) : parsed[n] = ValueIn(lines, n)
  BY ParsedHeaders
<1> HIDE DEF parsed
<1> QED BY <1>1, <1>2, <1>3 DEF parsed

\* The headers that the server has read of a request.
LEMMA HeadersSeen ==
  ASSUME FlowInv, stage \in Asked \ {"request"}
  PROVE  /\ request.headers = OwnHeaders(call.payload) \o call.headers
         /\ DOMAIN seen.headers = {"method"} \cup Names(request.headers)
         /\ seen.headers["method"] = request.line
         /\ \A n \in Names(request.headers) \ {"method"} :
              Whole(n) => seen.headers[n] = ValueIn(request.headers, n)
<1> DEFINE own == OwnHeaders(call.payload)
           lines == request.headers
           before == HeadersBefore
<1>1. /\ request = RequestText(call.method, url.endpoint, call.payload, call.headers)
      /\ seen = RequestRead(before, request)
  BY DEF FlowInv, Asked
<1>2. lines = own \o call.headers
  BY <1>1 DEF RequestText
<1>3. seen.headers = ParseHeaders(before, request.line, lines)
  BY <1>1 DEF RequestRead
<1>4. /\ call.headers \in Seq(HeaderLine)
      /\ call.cut = NoCut \/ IsCut(call.cut, own \o call.headers)
  BY CallFacts
<1>5. own \in Seq(OwnLine(call.payload))
  BY OwnNames
<1> DEFINE S == OwnLine(call.payload) \cup HeaderLine
<1>6. lines \in Seq(S)
  <2> HIDE DEF own, lines, before
  <2>1. own \o call.headers \in Seq(S)
    BY <1>4, <1>5, Together DEF own
  <2> QED BY <1>2, <2>1 DEF own, lines
<1> HIDE DEF own, lines, S, before
<1>7. /\ DOMAIN before \subseteq {"method"} \cup Names(lines)
      /\ \A n \in DOMAIN before \ {"method"} : Whole(n) => before[n] = ValueIn(lines, n)
  <2>1. CASE call.cut = NoCut
    BY <2>1 DEF before, HeadersBefore, NoHeaders
  <2>2. ASSUME call.cut # NoCut
        PROVE  /\ DOMAIN before = {"method"} \cup Names(CutLines)
               /\ \A n \in Names(CutLines) \ {"method"} : before[n] = ValueIn(CutLines, n)
    <3>1. before = ParseHeaders(NoHeaders, request.line, CutLines)
      BY <2>2 DEF before, HeadersBefore
    <3> QED BY <3>1, ParsedOnce
  <2>3. ASSUME NEW k \in 2..Len(lines), call.cut = <<k>>
        PROVE  /\ Names(CutLines) \subseteq Names(lines)
               /\ \A n \in Names(CutLines) : ValueIn(lines, n) = ValueIn(CutLines, n)
    <3> DEFINE s == SubSeq(lines, 1, k)
    <3>1. k \in 0..Len(lines)
      BY <1>6, <2>3
    <3>2. /\ s \in Seq(S) /\ Names(s) \subseteq Names(lines)
          /\ \A n \in Names(s) : ValueIn(lines, n) = ValueIn(s, n)
      BY <1>6, <3>1, FirstLines
    <3>3. CutLines = s
      <4> HIDE DEF s
      <4>1. s \o <<>> = s
        BY <3>2, ConcatEmptySeq
      <4>2. call.cut[1] = k /\ Len(call.cut) = 1
        BY <2>3
      <4> QED BY <4>1, <4>2 DEF CutLines, lines, s
    <3> QED BY <3>2, <3>3
  <2>4. ASSUME NEW k \in 2..Len(lines) - 1, NEW m \in 0..Len(lines[k + 1][2]), call.cut = <<k, m>>
        PROVE  /\ Names(CutLines) \subseteq Names(lines)
               /\ \A n \in Names(CutLines) : Whole(n) => ValueIn(lines, n) = ValueIn(CutLines, n)
    <3> DEFINE next == lines[k + 1]
               c == <<next[1], SubSeq(next[2], 1, m)>>
               s == SubSeq(lines, 1, k)
    <3>1. k \in 0..Len(lines) /\ k + 1 \in DOMAIN lines
      BY <1>6, <2>4
    <3>2. /\ s \in Seq(S) /\ Names(s) \subseteq Names(lines)
          /\ \A n \in Names(s) : ValueIn(lines, n) = ValueIn(s, n)
      BY <1>6, <3>1, FirstLines
    <3>3. next[1] \in Names(lines)
      BY <3>1 DEF Names
    <3>4. call.cut[1] = k /\ call.cut[2] = m /\ Len(call.cut) = 2
      BY <2>4
    <3>5. CutLines = s \o <<c>>
      BY <3>4 DEF CutLines, lines
    <3>6. \A n : Whole(n) => n # next[1]
      BY <3>4 DEF Whole, lines
    <3>7. <<c>> \in Seq({c}) /\ Names(<<c>>) = {next[1]}
      <4>1. c[1] = next[1]
        OBVIOUS
      <4> HIDE DEF c
      <4>2. <<c>> \in Seq({c}) /\ DOMAIN <<c>> = {1} /\ <<c>>[1] = c
        OBVIOUS
      <4> QED BY <4>1, <4>2 DEF Names
    <3> HIDE DEF next, c, s
    <3>8. ASSUME NEW n
          PROVE  /\ n \in Names(s \o <<c>>) <=> n \in Names(s) \/ n \in Names(<<c>>)
                 /\ n \in Names(s) => ValueIn(s \o <<c>>, n) = ValueIn(s, n)
      BY <3>2, <3>7, LinesTogether
    <3> QED BY <3>2, <3>3, <3>5, <3>6, <3>7, <3>8
  <2>5. CASE call.cut # NoCut
    <3>1. IsCut(call.cut, lines)
      BY <1>2, <1>4, <2>5
    <3>2. CASE \E k \in 2..Len(lines) : call.cut = <<k>>
      BY <2>2, <2>3, <2>5, <3>2
    <3>3. CASE \E k \in 2..Len(lines) - 1 : \E m \in 0..Len(lines[k + 1][2]) : call.cut = <<k, m>>
      BY <2>2, <2>4, <2>5, <3>3
    <3> QED BY <3>1, <3>2, <3>3 DEF IsCut
  <2> QED BY <2>1, <2>5
<1>8. /\ DOMAIN seen.headers = DOMAIN before \cup {"method"} \cup Names(lines)
      /\ seen.headers["method"] = request.line
      /\ \A n \in DOMAIN before \ {"method"} : seen.headers[n] = before[n]
      /\ \A n \in Names(lines) \ (DOMAIN before \cup {"method"}) :
           seen.headers[n] = ValueIn(lines, n)
  <2> DEFINE parsed == ParseHeaders(before, request.line, lines)
  <2>1. DOMAIN parsed = DOMAIN before \cup {"method"} \cup Names(lines)
    BY ParsedHeaders
  <2>2. parsed["method"] = request.line
    BY ParsedHeaders
  <2>3. \A n \in DOMAIN before \ {"method"} : parsed[n] = before[n]
    BY ParsedHeaders
  <2>4. \A n \in Names(lines) \ (DOMAIN before \cup {"method"}) :
          parsed[n] = ValueIn(lines, n)
    BY ParsedHeaders
  <2>5. seen.headers = parsed
    BY <1>3
  <2> HIDE DEF parsed
  <2> QED BY <2>1, <2>2, <2>3, <2>4, <2>5
<1>9. DOMAIN seen.headers = {"method"} \cup Names(lines)
  BY <1>7, <1>8
<1>10. \A n \in Names(lines) \ {"method"} : Whole(n) => seen.headers[n] = ValueIn(lines, n)
  BY <1>7, <1>8
<1> QED BY <1>2, <1>8, <1>9, <1>10 DEF own, lines

\* HttpParser on the server, of a request that comes in one packet or in two
\* the first of which ends behind the line of Content-Length: the method, the
\* payload and the endpoint up to its first blank are those that were asked
\* for, and every header in whose value no packet ended is what the first line
\* with its name says.
THEOREM RequestsAreReadAsAsked == Spec => []RequestIsReadAsAsked
<1>1. FlowInv => RequestIsReadAsAsked
  <2> SUFFICES ASSUME FlowInv, stage \in Asked \ {"request"}
               PROVE  /\ seen.type = call.method
                      /\ seen.payload = call.payload
                      /\ IsPrefix(seen.endpoint \o <<Blank>>, url.endpoint \o <<Blank>>)
                      /\ None(seen.endpoint, {Blank})
                      /\ \A n \in Names(request.headers) \ {"method"} :
                           Whole(n) => seen.headers[n] = ValueIn(request.headers, n)
    BY DEF RequestIsReadAsAsked, Asked, Stages
  <2>1. /\ request = RequestText(call.method, url.endpoint, call.payload, call.headers)
        /\ seen = RequestRead(HeadersBefore, request)
    BY DEF FlowInv, Asked
  <2>2. call.method \in Methods /\ url.endpoint \in Seq(Tokens) /\ url.endpoint # <<>>
    BY CallFacts DEF Asked
  <2> DEFINE line == <<call.method, Blank>> \o url.endpoint \o <<Blank, "HTTP/1.1">>
  <2>3. request.line = line /\ request.payload = call.payload
    BY <2>1 DEF RequestText
  <2>4. /\ seen.headers["method"] = line
        /\ \A n \in Names(request.headers) \ {"method"} :
             Whole(n) => seen.headers[n] = ValueIn(request.headers, n)
    BY <2>3, HeadersSeen
  <2>5. /\ Word(line, 1)[1] = call.method
        /\ IsPrefix(Word(line, 2) \o <<Blank>>, url.endpoint \o <<Blank>>)
        /\ None(Word(line, 2), {Blank})
    BY <2>2, NoBlanks, RequestLine
  <2> HIDE DEF line
  <2>6. /\ seen.type = IF Word(line, 1)[1] \in Methods THEN Word(line, 1)[1] ELSE "???"
        /\ seen.endpoint = Word(line, 2) /\ seen.payload = request.payload
    BY <2>1, <2>4 DEF RequestRead
  <2> QED BY <2>2, <2>3, <2>4, <2>5, <2>6
<1> QED BY <1>1, FlowInvariant, PTL

-----------------------------------------------------------------------------
(* What the server answers *)

\* The answers to a browser's questions and the headers that ask them.
Questions == {<<"Access-Control-Allow-Headers", "Access-Control-Request-Headers">>,
              <<"Access-Control-Allow-Methods", "Access-Control-Request-Method">>}

\* The headers that every reply has are none of these answers.
LEMMA ReplyHeadersGiven ==
  ASSUME NEW payload, NEW content_type, NEW a \in Questions
  PROVE  /\ GivenOnce(ReplyHeaders(payload, content_type), a[1], {})
         /\ \E F : ReplyHeaders(payload, content_type) \in Seq(F)
<1> DEFINE l1 == <<"Date", Now>>
           l2 == <<"Server", <<"m_server_name">> >>
           l3 == <<"Last-Modified", Now>>
           l4 == <<"Content-Length", <<ToString(Len(payload))>> >>
           l5 == <<"Content-Type", <<content_type>> >>
           l6 == <<"Access-Control-Allow-Origin", <<"http://", "ip4">> >>
           lines == ReplyHeaders(payload, content_type)
<1>1. \A l \in {l1, l2, l3, l4, l5, l6} : l[1] # a[1]
  BY DEF Questions
<1>2. lines = <<l1, l2, l3, l4, l5, l6>>
  BY DEF ReplyHeaders
<1> HIDE DEF l1, l2, l3, l4, l5, l6, lines
<1>3. lines \in Seq({l1, l2, l3, l4, l5, l6})
  BY <1>2
<1>4. \A i \in DOMAIN lines : lines[i] \in {l1, l2, l3, l4, l5, l6}
  BY <1>3
<1>5. GivenOnce(lines, a[1], {})
  BY <1>1, <1>4, GivenNever
<1> QED BY <1>3, <1>5 DEF lines

\* The value that a reply gives for an answer: the handler's, or what the
\* request asked for, or none.
Answered(extra, headers, allow, asked) ==
  IF allow \in DOMAIN extra THEN {extra[allow]}
  ELSE IF asked \in DOMAIN headers THEN {headers[asked]}
  ELSE {}

\* The lines of a reply give an answer once: two parts never both give it.
LEMMA ReplyGivesOnce ==
  ASSUME NEW status, NEW payload, NEW headers, NEW extra, NEW content_type,
         IsFiniteSet(DOMAIN extra), NEW a \in Questions
  PROVE  GivenOnce(CreateReply(status, payload, headers, extra, content_type).headers,
                   a[1], Answered(extra, headers, a[1], a[2]))
<1> DEFINE name == a[1]
           fixed == ReplyHeaders(payload, content_type)
           more == ExtraLines(extra)
           a1 == "Access-Control-Allow-Headers"
           q1 == "Access-Control-Request-Headers"
           a2 == "Access-Control-Allow-Methods"
           q2 == "Access-Control-Request-Method"
           e1 == Echo(extra, headers, a1, q1)
           e2 == Echo(extra, headers, a2, q2)
           last == << <<"Connection", <<"Closed">> >> >>
           X == IF name \in DOMAIN extra THEN {extra[name]} ELSE {}
           Y1 == IF name = a1 /\ q1 \in DOMAIN headers /\ a1 \notin DOMAIN extra
                   THEN {headers[q1]} ELSE {}
           Y2 == IF name = a2 /\ q2 \in DOMAIN headers /\ a2 \notin DOMAIN extra
                   THEN {headers[q2]} ELSE {}
<1>1. CreateReply(status, payload, headers, extra, content_type).headers
        = fixed \o more \o e1 \o e2 \o last
  BY DEF CreateReply
<1>2. PICK F : fixed \in Seq(F)
  BY ReplyHeadersGiven
<1>3. GivenOnce(fixed, name, {})
  BY ReplyHeadersGiven
<1>4. more \in Seq(ExtraLine(extra)) /\ GivenOnce(more, name, X)
  BY ExtraGiven
<1>5. e1 \in Seq({<<a1, headers[q1]>>}) /\ GivenOnce(e1, name, Y1)
  BY EchoGiven
<1>6. e2 \in Seq({<<a2, headers[q2]>>}) /\ GivenOnce(e2, name, Y2)
  BY EchoGiven
<1>7. last \in Seq({<<"Connection", <<"Closed">> >>}) /\ GivenOnce(last, name, {})
  <2>1. last \in Seq({<<"Connection", <<"Closed">> >>})
    OBVIOUS
  <2>2. \A i \in DOMAIN last : last[i][1] # name
    BY DEF Questions
  <2> HIDE DEF last, name
  <2> QED BY <2>1, <2>2, GivenNever
<1>8. /\ X = {} \/ Y1 = {}
      /\ {} \cup X \cup Y1 = {} \/ Y2 = {}
      /\ {} \cup X \cup Y1 \cup Y2 \cup {} = Answered(extra, headers, name, a[2])
  BY DEF Questions, Answered
<1> DEFINE L1 == {<<a1, headers[q1]>>}
           L2 == {<<a2, headers[q2]>>}
           L3 == {<<"Connection", <<"Closed">> >>}
           M == ExtraLine(extra)
<1> HIDE DEF fixed, more, e1, e2, last, X, Y1, Y2, name, L1, L2, L3, M
<1>9. fixed \o more \in Seq(F \cup M) /\ GivenOnce(fixed \o more, name, {} \cup X)
  BY <1>2, <1>3, <1>4, Together, GivenTogether DEF M
<1> DEFINE s1 == fixed \o more
<1> HIDE DEF s1
<1>10. s1 \o e1 \in Seq(F \cup M \cup L1) /\ GivenOnce(s1 \o e1, name, {} \cup X \cup Y1)
  BY <1>5, <1>8, <1>9, Together, GivenTogether DEF L1, s1
<1> DEFINE s2 == s1 \o e1
<1> HIDE DEF s2
<1>11. /\ s2 \o e2 \in Seq(F \cup M \cup L1 \cup L2)
       /\ GivenOnce(s2 \o e2, name, {} \cup X \cup Y1 \cup Y2)
  BY <1>6, <1>8, <1>10, Together, GivenTogether DEF L2, s2
<1> DEFINE s3 == s2 \o e2
<1> HIDE DEF s3
<1>12. GivenOnce(s3 \o last, name, {} \cup X \cup Y1 \cup Y2 \cup {})
  BY <1>7, <1>11, GivenTogether DEF s3
<1> QED BY <1>1, <1>8, <1>12 DEF s1, s2, s3, name

\* HttpServer, create_reply_string: a browser's question which headers and
\* methods it may use is answered once, by the handler if it said something
\* and else with what was asked for, if no packet ended in that; also when
\* there is no handler.
THEOREM QuestionsAreAnsweredOnce == Spec => []AskedAndAnswered
<1>1. FlowInv => AskedAndAnswered
  <2> SUFFICES ASSUME FlowInv, stage \in {"reply", "not_found", "response", "end"},
                      NEW a \in Questions, Whole(a[2])
               PROVE  GivenOnce(reply.headers, a[1], AnswersTo(a[1], a[2]))
    BY DEF AskedAndAnswered, Questions
  <2>1. stage \in Asked \ {"request"}
    BY DEF Asked, Stages
  <2> DEFINE own == OwnHeaders(call.payload)
             asked == a[2]
             lines == own \o call.headers
  <2>2. asked # "method" /\ asked \notin Names(own)
    BY OwnNames DEF Questions
  <2>3. /\ own \in Seq(OwnLine(call.payload)) /\ call.headers \in Seq(HeaderLine)
        /\ IsFiniteSet(DOMAIN call.reply_headers)
    BY OwnNames, CallFacts
  <2>4. /\ request.headers = lines
        /\ DOMAIN seen.headers = {"method"} \cup Names(request.headers)
        /\ asked \in Names(request.headers) => seen.headers[asked] = ValueIn(request.headers, asked)
    BY <2>1, <2>2, HeadersSeen
  <2> HIDE DEF own, asked
  <2>5. /\ asked \in Names(lines) <=> asked \in Names(own) \/ asked \in Names(call.headers)
        /\ asked \notin Names(own) /\ asked \in Names(call.headers) =>
             ValueIn(lines, asked) = ValueIn(call.headers, asked)
    BY <2>3, LinesTogether
  <2> HIDE DEF lines
  <2>6. /\ asked \in DOMAIN seen.headers <=> asked \in Names(call.headers)
        /\ asked \in Names(call.headers) => seen.headers[asked] = ValueIn(call.headers, asked)
    BY <2>2, <2>4, <2>5
  <2>7. IsFiniteSet(DOMAIN Extra)
    BY <2>3, FS_EmptySet DEF Extra, NoHeaders
  <2>8. Answered(Extra, seen.headers, a[1], asked) = AnswersTo(a[1], asked)
    BY <2>6 DEF Answered, AnswersTo
  <2>9. CASE stage \in {"reply", "response"}
    <3>1. reply = CreateReply(call.status, call.answer, seen.headers, Extra, call.content_type)
      BY <2>9 DEF FlowInv, Extra
    <3> QED BY <2>7, <2>8, <3>1, ReplyGivesOnce DEF asked
  <2>10. CASE stage \in {"not_found", "end"}
    <3>1. reply = CreateReply("NOT_FOUND", <<"{", "}">>, seen.headers, Extra, "application/json")
      BY <2>10 DEF FlowInv, Extra
    <3> QED BY <2>7, <2>8, <3>1, ReplyGivesOnce DEF asked
  <2> QED BY <2>9, <2>10
<1> QED BY <1>1, FlowInvariant, PTL

-----------------------------------------------------------------------------
(* What the client reads *)

\* No header hides those that every reply has.
LEMMA LengthAndTypeCount ==
  ASSUME NEW status, NEW payload, NEW headers, NEW extra, NEW content_type,
         IsFiniteSet(DOMAIN extra), NEW lines,
         lines = CreateReply(status, payload, headers, extra, content_type).headers
  PROVE  /\ {"Content-Length", "Content-Type"} \subseteq Names(lines)
         /\ ValueIn(lines, "Content-Length") = <<ToString(Len(payload))>>
         /\ ValueIn(lines, "Content-Type") = <<content_type>>
<1> DEFINE l1 == <<"Date", Now>>
           l2 == <<"Server", <<"m_server_name">> >>
           l3 == <<"Last-Modified", Now>>
           l4 == <<"Content-Length", <<ToString(Len(payload))>> >>
           l5 == <<"Content-Type", <<content_type>> >>
           l6 == <<"Access-Control-Allow-Origin", <<"http://", "ip4">> >>
           F == {l1, l2, l3, l4, l5, l6}
           fixed == ReplyHeaders(payload, content_type)
           more == ExtraLines(extra)
           a1 == "Access-Control-Allow-Headers"
           q1 == "Access-Control-Request-Headers"
           a2 == "Access-Control-Allow-Methods"
           q2 == "Access-Control-Request-Method"
           e1 == Echo(extra, headers, a1, q1)
           e2 == Echo(extra, headers, a2, q2)
           last == << <<"Connection", <<"Closed">> >> >>
           L1 == {<<a1, headers[q1]>>}
           L2 == {<<a2, headers[q2]>>}
           L3 == {<<"Connection", <<"Closed">> >>}
           M == ExtraLine(extra)
<1>1. lines = fixed \o more \o e1 \o e2 \o last
  BY DEF CreateReply
<1>2. more \in Seq(M)
  BY ExtraGiven
<1>3. e1 \in Seq(L1) /\ e2 \in Seq(L2)
  <2>1. e1 \in Seq(L1)
    BY EchoGiven
  <2>2. e2 \in Seq(L2)
    BY EchoGiven
  <2> QED BY <2>1, <2>2
<1>4. last \in Seq(L3)
  OBVIOUS
<1>5. /\ l1[1] \notin {"Content-Length", "Content-Type"}
      /\ l2[1] \notin {"Content-Length", "Content-Type"}
      /\ l3[1] \notin {"Content-Length", "Content-Type"}
      /\ l4[1] = "Content-Length" /\ l4[2] = <<ToString(Len(payload))>>
      /\ l5[1] = "Content-Type" /\ l5[2] = <<content_type>>
  OBVIOUS
<1>6. fixed = <<l1, l2, l3, l4, l5, l6>>
  BY DEF ReplyHeaders
<1> HIDE DEF l1, l2, l3, l4, l5, l6, fixed, more, e1, e2, last, L1, L2, L3, M
<1>7. fixed \in Seq(F) /\ 4 \in DOMAIN fixed /\ 5 \in DOMAIN fixed
  BY <1>6
<1>8. IsFirst(fixed, "Content-Length", 4) /\ IsFirst(fixed, "Content-Type", 5)
  BY <1>5, <1>6 DEF IsFirst
<1>9. /\ "Content-Length" \in Names(fixed) /\ "Content-Type" \in Names(fixed)
      /\ ValueIn(fixed, "Content-Length") = <<ToString(Len(payload))>>
      /\ ValueIn(fixed, "Content-Type") = <<content_type>>
  <2>1. fixed[4] = l4 /\ fixed[5] = l5
    BY <1>6
  <2> HIDE DEF F
  <2> QED BY <1>5, <1>7, <1>8, <2>1, FirstLineCounts
<1> HIDE DEF F
<1> DEFINE s1 == fixed \o more
           s2 == s1 \o e1
           s3 == s2 \o e2
           Same(s, name) == name \in Names(s) /\ ValueIn(s, name) = ValueIn(fixed, name)
<1>10. ASSUME NEW name, name \in Names(fixed)
      PROVE  Same(lines, name)
  <2> HIDE DEF s1, s2, s3
  <2>1. s1 \in Seq(F \cup M) /\ Same(s1, name)
    BY <1>2, <1>7, <1>10, Together, LinesTogether DEF s1
  <2>2. s2 \in Seq(F \cup M \cup L1) /\ Same(s2, name)
    BY <1>3, <2>1, Together, LinesTogether DEF s2
  <2>3. s3 \in Seq(F \cup M \cup L1 \cup L2) /\ Same(s3, name)
    BY <1>3, <2>2, Together, LinesTogether DEF s3
  <2>4. Same(s3 \o last, name)
    BY <1>4, <2>3, LinesTogether
  <2> QED BY <1>1, <2>4 DEF s1, s2, s3
<1> QED BY <1>9, <1>10

\* The first line of a reply: the status is its second word, whatever blanks
\* its name has, and also if the last one is cut off.
LEMMA StatusLine ==
  ASSUME NEW status, status # Blank
  PROVE  StatusOf(Trim(<<"HTTP/1.1", Blank, status, Blank>> \o StatusName(status))) = status
<1> DEFINE first == <<"HTTP/1.1", Blank, status, Blank>>
           name == StatusName(status)
           S == {"HTTP/1.1", Blank, status}
           line == first \o name
           t == Trim(line)
<1>1. first \in Seq(S) /\ Len(first) = 4
      /\ first[1] = "HTTP/1.1" /\ first[2] = Blank /\ first[3] = status /\ first[4] = Blank
  OBVIOUS
<1>2. PICK R : name \in Seq(R) /\ Len(name) >= 1
  <2> DEFINE R == {"Not", "Found", "OK", "Bad", "Request", "Internal", "Server", "Error",
                   "Forbidden", "unknown:", Blank, status}
             n1 == <<"Not", Blank, "Found">>
             n2 == <<"Bad", Blank, "Request">>
             n3 == <<"Internal", Blank, "Server", Blank, "Error">>
             n4 == <<"unknown:", Blank, status>>
             n5 == <<"OK">>
             n6 == <<"Forbidden">>
  <2>1. \/ name = n1 \/ name = n2 \/ name = n3
        \/ name = n4 \/ name = n5 \/ name = n6
    BY DEF StatusName
  <2>2. n1 \in Seq(R) /\ Len(n1) = 3
    OBVIOUS
  <2>3. n2 \in Seq(R) /\ Len(n2) = 3
    OBVIOUS
  <2>4. n3 \in Seq(R) /\ Len(n3) = 5
    OBVIOUS
  <2>5. n4 \in Seq(R) /\ Len(n4) = 3
    OBVIOUS
  <2>6. n5 \in Seq(R) /\ Len(n5) = 1 /\ n6 \in Seq(R) /\ Len(n6) = 1
    OBVIOUS
  <2> HIDE DEF name, R, n1, n2, n3, n4, n5, n6
  <2> DEFINE Good(n) == n \in Seq(R) /\ Len(n) >= 1
  <2>7. Good(n1) /\ Good(n2) /\ Good(n3) /\ Good(n4) /\ Good(n5) /\ Good(n6)
    BY <2>2, <2>3, <2>4, <2>5, <2>6
  <2>8. Good(name)
    <3> HIDE DEF Good
    <3> QED BY <2>1, <2>7
  <2> QED BY <2>8
<1> HIDE DEF first, name, S
<1>3. /\ line \in Seq(S \cup R) /\ Len(line) >= 5
      /\ \A i \in 1..4 : line[i] = first[i]
  <2>1. /\ line \in Seq(S \cup R) /\ Len(line) = Len(first) + Len(name)
        /\ \A i \in 1..Len(first) : line[i] = first[i]
    <3>1. first \in Seq(S) /\ name \in Seq(R)
      BY <1>1, <1>2
    <3> QED BY <3>1, Together
  <2> HIDE DEF line
  <2> QED BY <1>1, <1>2, <2>1
<1> DEFINE T == S \cup R
<1> HIDE DEF line, T
<1>4. /\ t \in Seq(T) /\ Len(t) >= 4
      /\ \A i \in 1..4 : t[i] = first[i]
  <2>1. CASE line # <<>> /\ line[Len(line)] = Blank
    <3> DEFINE n == Len(line) - 1
               part == SubSeq(line, 1, n)
    <3>1. t = part
      BY <2>1 DEF Trim
    <3>2. line \in Seq(T) /\ 1 \in 1..Len(line) + 1 /\ n \in 0..Len(line) /\ n \in Nat /\ n >= 4
      BY <1>3 DEF T
    <3> HIDE DEF n
    <3>3. /\ part \in Seq(T) /\ Len(part) = (IF 1 <= n THEN n - 1 + 1 ELSE 0)
          /\ \A i \in 1..n - 1 + 1 : part[i] = line[1 + i - 1]
      BY <3>2, PartOfText
    <3> HIDE DEF part
    <3>4. \A i \in 1..4 : part[i] = line[i]
      BY <3>2, <3>3
    <3> HIDE DEF t
    <3> QED BY <1>3, <3>1, <3>2, <3>3, <3>4
  <2>2. CASE ~(line # <<>> /\ line[Len(line)] = Blank)
    <3>1. t = line
      BY <2>2 DEF Trim
    <3> HIDE DEF t
    <3> QED BY <1>3, <3>1 DEF T
  <2> QED BY <2>1, <2>2
<1> HIDE DEF t
<1>5. /\ t[1] = "HTTP/1.1" /\ t[2] = Blank /\ t[3] = status /\ t[4] = Blank
      /\ Len(t) \in Nat
  BY <1>1, <1>4
<1>6. Blank \in T
  BY DEF T, S
<1>7. t[1] # Blank /\ t[3] # Blank
  BY <1>5, NoBlanks
<1>8. ~(Words(t) < 3)
  <2> DEFINE B == {i \in DOMAIN t : t[i] = Blank}
             C == {2} \cup {4}
  <2>1. IsFiniteSet(1..Len(t)) /\ B \subseteq 1..Len(t) /\ C \subseteq B
    <3>1. IsFiniteSet(1..Len(t))
      BY <1>5, FS_Interval
    <3> QED BY <1>4, <1>5, <3>1
  <2>2. IsFiniteSet(C) /\ Cardinality(C) = 2
    <3>1. IsFiniteSet({2}) /\ Cardinality({2}) = 1
      BY FS_Singleton
    <3> QED BY <3>1, FS_AddElement
  <2> HIDE DEF B, C
  <2>3. IsFiniteSet(B)
    BY <2>1, FS_Subset
  <2>4. Cardinality(C) <= Cardinality(B) /\ Cardinality(B) \in Nat
    BY <2>1, <2>3, FS_Subset, FS_CardinalityType
  <2>5. Words(t) = 1 + Cardinality(B)
    BY DEF Words, B
  <2> QED BY <2>2, <2>4, <2>5
<1> DEFINE b1 == Find(t, <<Blank>>, 0)
           b2 == Find(t, <<Blank>>, b1 + 1)
<1>9. b1 = 1
  <2>1. /\ b1 = Npos => \A i \in 0 + 1..Len(t) : t[i] # Blank
        /\ b1 # Npos => b1 \in 0..Len(t) - 1 /\ \A i \in 0 + 1..b1 : t[i] # Blank
        /\ b1 # Npos => t[b1 + 1] = Blank
    BY <1>4, <1>6, NothingBeforeFound
  <2> HIDE DEF b1
  <2>2. b1 # Npos
    BY <1>4, <1>5, <2>1
  <2>3. b1 # 0 /\ 2 \notin 1..b1
    BY <1>5, <1>7, <2>1, <2>2
  <2> QED BY <1>5, <2>1, <2>2, <2>3
<1>10. b2 = 3
  <2> DEFINE f == Find(t, <<Blank>>, 2)
  <2>1. /\ f = Npos => \A i \in 2 + 1..Len(t) : t[i] # Blank
        /\ f # Npos => f \in 2..Len(t) - 1 /\ \A i \in 2 + 1..f : t[i] # Blank
        /\ f # Npos => t[f + 1] = Blank
    BY <1>4, <1>6, NothingBeforeFound
  <2> HIDE DEF f
  <2>2. f # Npos
    BY <1>4, <1>5, <2>1
  <2>3. f # 2 /\ 4 \notin 3..f
    BY <1>5, <1>7, <2>1, <2>2
  <2>4. f = 3
    BY <1>5, <2>1, <2>2, <2>3
  <2> QED BY <1>9, <2>4 DEF f
<1>11. Word(t, 2) = SubSeq(t, b1 + 2, b2)
  BY DEF Word
<1> HIDE DEF b1, b2
<1>12. Word(t, 2)[1] = status
  <2>1. 3 \in 1..Len(t) + 1 /\ 3 \in 0..Len(t) /\ 1 \in 1..3 - 3 + 1
    BY <1>4, <1>5
  <2>2. SubSeq(t, 3, 3)[1] = t[3 + 1 - 1]
    BY <1>4, <2>1, PartOfText
  <2> QED BY <1>5, <1>9, <1>10, <1>11, <2>2
<1> QED BY <1>8, <1>12 DEF StatusOf, t, line, first, name

\* HttpParser on the client: it reads the status, the payload, its length and
\* its type as the handler gave them, whatever headers the handler added.
THEOREM RepliesAreReadAsAnswered == Spec => []ReplyIsReadAsAnswered
<1>1. FlowInv => ReplyIsReadAsAnswered
  <2> SUFFICES ASSUME FlowInv, stage = "response"
               PROVE  /\ response.status = call.status
                      /\ response.payload = call.answer
                      /\ response.headers["Content-Length"] = <<ToString(Len(call.answer))>>
                      /\ response.headers["Content-Type"] = <<call.content_type>>
    BY DEF ReplyIsReadAsAnswered
  <2>1. /\ reply = CreateReply(call.status, call.answer, seen.headers, call.reply_headers,
                               call.content_type)
        /\ response = ResponseRead(reply)
    BY DEF FlowInv
  <2>2. IsFiniteSet(DOMAIN call.reply_headers) /\ call.status # Blank
    BY CallFacts
  <2> DEFINE lines == reply.headers
             line == Trim(<<"HTTP/1.1", Blank, call.status, Blank>> \o StatusName(call.status))
             parsed == ParseHeaders(NoHeaders, reply.line, lines)
  <2>3. reply.line = line /\ reply.payload = call.answer
    BY <2>1 DEF CreateReply
  <2>4. /\ {"Content-Length", "Content-Type"} \subseteq Names(lines)
        /\ ValueIn(lines, "Content-Length") = <<ToString(Len(call.answer))>>
        /\ ValueIn(lines, "Content-Type") = <<call.content_type>>
    BY <2>1, <2>2, LengthAndTypeCount
  <2>5. /\ response.headers = parsed /\ response.payload = reply.payload
        /\ response.status = StatusOf(parsed["method"])
    BY <2>1 DEF ResponseRead
  <2> HIDE DEF lines
  <2>6. parsed["method"] = reply.line
    BY ParsedHeaders
  <2>7. \A n \in Names(lines) \ (DOMAIN NoHeaders \cup {"method"}) : parsed[n] = ValueIn(lines, n)
    BY ParsedHeaders
  <2>8. DOMAIN NoHeaders = {}
    BY DEF NoHeaders
  <2>9. StatusOf(line) = call.status
    BY <2>2, StatusLine
  <2> HIDE DEF parsed, line
  <2> QED BY <2>3, <2>4, <2>5, <2>6, <2>7, <2>8, <2>9
<1> QED BY <1>1, FlowInvariant, PTL

=============================================================================
