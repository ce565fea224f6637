---------------------------- MODULE RouterProofs ----------------------------
(***************************************************************************)
(* Proofs about Router, for any endpoints, targets and registrations.      *)
(*                                                                         *)
(* The argument: an entry of the handler map is the number of the last     *)
(* registration for its method and endpoint, and the order in which        *)
(* find_handler tries them only depends on which ones match.               *)
(* Which ones match is a matter of segments; what split makes of a string  *)
(* is known after each of its characters, so it is a matter of tokens.     *)
(***************************************************************************)
EXTENDS Router, WellFoundedInduction, FiniteSetTheorems, TLAPS

\* m_handler_map[m][p] is the last registration for m and p.
Entry(m, p) == [method |-> m, endpoint |-> p]

EntryIsLatest(m, p) ==
  /\ m_handler_map[m][p] \in 0..Len(registered)
  /\ m_handler_map[m][p] # NoHandler => registered[m_handler_map[m][p]] = Entry(m, p)
  /\ \A k \in m_handler_map[m][p] + 1 .. Len(registered) : registered[k] # Entry(m, p)

MapInv ==
  /\ registered \in Seq(Registration)
  /\ m_handler_map \in [Methods -> [Endpoints -> Nat]]
  /\ \A m \in Methods, p \in Endpoints : EntryIsLatest(m, p)

\* What find_handler answers.
Answer(m, e) == [method |-> m, target |-> e,
                 handler |-> Route(m, e), params |-> RouteParameters(m, e)]

\* What a request came to still holds of the map, until it changes.
LastInv == last # NoRequest => \E m \in Methods, e \in Targets : last = Answer(m, e)

RouteInv == MapInv /\ LastInv /\ aborted \in BOOLEAN

-----------------------------------------------------------------------------
\* A set of numbers that is not empty has a least one.
LEMMA SmallestExists ==
  ASSUME NEW S \in SUBSET Nat, S # {}
  PROVE  \E i \in S : \A j \in S : i <= j
<1> DEFINE R == OpToRel(<, Nat)
<1>1. PICK i \in S : \A j \in S : ~ (<<j, i>> \in R)
  <2> HIDE DEF R
  <2>1. IsWellFoundedOn(R, Nat)
    BY NatLessThanWellFounded DEF R
  <2> QED BY <2>1, WFMin
<1>2. ASSUME NEW j \in S
      PROVE  i <= j
  <2>1. R = {ss \in Nat \X Nat : ss[1] < ss[2]}
    BY DEF OpToRel
  <2> HIDE DEF R
  <2>2. ~(<<j, i>> \in R)
    BY <1>1
  <2>3. <<j, i>> \in Nat \X Nat
    OBVIOUS
  <2> QED BY <2>1, <2>2, <2>3
<1> QED BY <1>2

\* Induction up to N, for a set of numbers.
LEMMA Induct ==
  ASSUME NEW N \in Nat, NEW T, 1 \in T, \A n \in 1..N - 1 : n \in T => n + 1 \in T
  PROVE  \A n \in 1..N : n \in T
<1> DEFINE Bad == {n \in 1..N : n \notin T}
<1>1. SUFFICES ASSUME Bad # {} PROVE FALSE
  OBVIOUS
<1>2. PICK i \in Bad : \A j \in Bad : i <= j
  <2>1. Bad \in SUBSET Nat
    OBVIOUS
  <2> HIDE DEF Bad
  <2> QED BY <1>1, <2>1, SmallestExists
<1>3. i - 1 \in 1..N - 1 /\ i - 1 \notin Bad /\ i - 1 \in 1..N
  BY <1>2
<1> QED BY <1>2, <1>3

\* The loop of find_handler stops at a match, if there is one.
LEMMA FirstMatchIsFirst ==
  ASSUME NEW m \in Methods, NEW e, Candidates(m, e) # {}
  PROVE  /\ FirstMatch(m, e) \in Candidates(m, e)
         /\ \A q \in Candidates(m, e) : Rank[FirstMatch(m, e)] <= Rank[q]
<1>1. Candidates(m, e) \subseteq Endpoints
  BY DEF Candidates, Registered
<1>2. {Rank[p] : p \in Candidates(m, e)} \in SUBSET Nat
  BY <1>1, RankAssumption
<1> DEFINE S == {Rank[p] : p \in Candidates(m, e)}
<1>3. PICK i \in S : \A j \in S : i <= j
  <2>1. S # {} /\ S \in SUBSET Nat
    BY <1>2
  <2> HIDE DEF S
  <2> QED BY <2>1, SmallestExists
<1>4. \E p \in Candidates(m, e) : \A q \in Candidates(m, e) : Rank[p] <= Rank[q]
  BY <1>3
<1> QED BY <1>4 DEF FirstMatch

\* What find_handler returns is a match.
LEMMA FirstMatchMatches ==
  ASSUME NEW m \in Methods, NEW e, Candidates(m, e) # {}
  PROVE  FirstMatch(m, e) \in Candidates(m, e)
BY FirstMatchIsFirst

-----------------------------------------------------------------------------
\* split, one character after the other.
LEMMA SplitLoopDef ==
  ASSUME NEW e, Len(e) \in Nat
  PROVE  SplitLoop(e) = [n \in 1..Len(e) |-> IF n = 1 THEN NothingRead
                                             ELSE SplitStep(SplitLoop(e)[n - 1], e[n])]
<1> DEFINE Loop(f, k) ==
      f = [n \in 1..k |-> IF n = 1 THEN NothingRead ELSE SplitStep(f[n - 1], e[n])]
<1> DEFINE T == {k \in Nat : \E f : Loop(f, k)}
<1>1. ASSUME NEW k \in Nat, NEW f, Loop(f, k)
      PROVE  \E g : Loop(g, k + 1)
  <2> DEFINE last1 == IF k + 1 = 1 THEN NothingRead ELSE SplitStep(f[k], e[k + 1])
             g == [n \in 1..k + 1 |-> IF n <= k THEN f[n] ELSE last1]
  <2>1. ASSUME NEW n \in 1..k + 1
        PROVE  g[n] = IF n = 1 THEN NothingRead ELSE SplitStep(g[n - 1], e[n])
    <3>1. CASE n <= k
      <4>1. g[n] = f[n] /\ (n # 1 => g[n - 1] = f[n - 1])
        BY <3>1
      <4>2. f[n] = IF n = 1 THEN NothingRead ELSE SplitStep(f[n - 1], e[n])
        <5>1. n \in 1..k
          BY <3>1
        <5> QED BY <1>1, <5>1
      <4> HIDE DEF g
      <4> QED BY <4>1, <4>2
    <3>2. CASE n = k + 1
      <4>1. g[n] = last1 /\ (n # 1 => g[n - 1] = f[k])
        BY <3>2
      <4> HIDE DEF g
      <4> QED BY <3>2, <4>1
    <3> QED BY <3>1, <3>2
  <2>2. Loop(g, k + 1)
    <3>1. g = [n \in 1..k + 1 |-> g[n]]
      OBVIOUS
    <3> HIDE DEF g
    <3> QED BY <2>1, <3>1
  <2> QED BY <2>2
<1>2. \E f : Loop(f, 0)
  <2>1. Loop([n \in 1..0 |-> NothingRead], 0)
    OBVIOUS
  <2> QED BY <2>1
<1>3. \E f : Loop(f, Len(e))
  <2> HIDE DEF Loop
  <2>1. 1 \in T
    BY <1>1, <1>2
  <2>2. \A k \in 1..Len(e) - 1 : k \in T => k + 1 \in T
    BY <1>1
  <2>3. \A k \in 1..Len(e) : k \in T
    <3> HIDE DEF T
    <3> QED BY <2>1, <2>2, Induct
  <2> QED BY <1>2, <2>3
<1>4. SplitLoop(e) = CHOOSE f : Loop(f, Len(e))
  BY DEF SplitLoop
<1>5. Loop(SplitLoop(e), Len(e))
  <2> HIDE DEF Loop
  <2> QED BY <1>3, <1>4
<1> QED BY <1>5

\* The loop of split begins with nothing and takes one character at a time.
LEMMA SplitLoopSteps ==
  ASSUME NEW e \in Path, e # <<>>
  PROVE  /\ SplitLoop(e)[1] = NothingRead
         /\ \A n \in 2..Len(e) : SplitLoop(e)[n] = SplitStep(SplitLoop(e)[n - 1], e[n])
<1>1. e \in Seq(Texts \cup {Slash}) /\ Len(e) \in Nat /\ 1 \in 1..Len(e) /\ 2..Len(e) \subseteq 1..Len(e)
  BY DEF Path
<1> QED BY <1>1, SplitLoopDef

\* What split has after n characters.
After(e, n) == SplitLoop(e)[n]

\* A slash closes the open segment, any other character extends it.
LEMMA LoopIsStep ==
  ASSUME NEW e \in Path, NEW n \in 1..Len(e) - 1
  PROVE  /\ n \in 1..Len(e) /\ n + 1 \in 2..Len(e) /\ e # <<>> /\ Len(e) \in Nat
         /\ e[n + 1] = Slash =>
              After(e, n + 1) = [closed |-> Append(After(e, n).closed, After(e, n).open),
                                 open |-> <<>>]
         /\ e[n + 1] # Slash =>
              After(e, n + 1) = [closed |-> After(e, n).closed,
                                 open |-> Append(After(e, n).open, e[n + 1])]
<1>1. e \in Seq(Texts \cup {Slash}) /\ Len(e) \in Nat
  BY DEF Path
<1>2. n \in 1..Len(e) /\ n + 1 \in 2..Len(e) /\ (n + 1) - 1 = n
  BY <1>1
<1>3. e # <<>>
  BY <1>1, <1>2
<1>4. SplitLoop(e)[n + 1] = SplitStep(SplitLoop(e)[(n + 1) - 1], e[n + 1])
  BY <1>2, <1>3, SplitLoopSteps
<1>5. After(e, n + 1) = SplitStep(After(e, n), e[n + 1])
  BY <1>2, <1>4 DEF After
<1> QED BY <1>1, <1>2, <1>3, <1>5 DEF SplitStep

Segment(T) == {<<>>} \cup {<<t>> : t \in T}

\* Segments are texts or empty, and the open one is the last character.
LoopStateOK(T, e, n) ==
  /\ After(e, n) = [closed |-> After(e, n).closed, open |-> After(e, n).open]
  /\ After(e, n).closed \in Seq(Segment(T))
  /\ After(e, n).open = IF n = 1 \/ e[n] = Slash THEN <<>> ELSE <<e[n]>>

\* After n characters the open segment is empty or the last character.
LEMMA LoopState ==
  ASSUME NEW T, NEW e \in Path, e # <<>>, \A n \in 2..Len(e) : e[n] \in T \cup {Slash}
  PROVE  \A n \in 1..Len(e) : LoopStateOK(T, e, n)
<1> DEFINE G == {n \in 1..Len(e) : LoopStateOK(T, e, n)}
           Segs == Segment(T)
<1>1. e \in Seq(Texts \cup {Slash}) /\ Len(e) \in Nat /\ 1 \in 1..Len(e)
  BY DEF Path
<1>2. 1 \in G
  <2>1. After(e, 1) = NothingRead
    BY SplitLoopSteps DEF After
  <2>2. <<>> \in Seq(Segs)
    OBVIOUS
  <2>3. After(e, 1).closed = <<>> /\ After(e, 1).open = <<>>
    BY <2>1 DEF NothingRead
  <2>4. LoopStateOK(T, e, 1)
    BY <2>1, <2>2, <2>3 DEF NothingRead, LoopStateOK
  <2> QED BY <1>1, <2>4
<1>3. ASSUME NEW n \in 1..Len(e) - 1, n \in G
      PROVE  n + 1 \in G
  <2> DEFINE c == After(e, n).closed
             o == After(e, n).open
             k == n + 1
  <2>1. /\ After(e, n) = [closed |-> c, open |-> o]
        /\ c \in Seq(Segs)
        /\ o = IF n = 1 \/ e[n] = Slash THEN <<>> ELSE <<e[n]>>
    BY <1>3 DEF LoopStateOK
  <2>2. /\ k \in 2..Len(e) /\ k \in 1..Len(e) /\ k # 1
        /\ e[k] = Slash => After(e, k) = [closed |-> Append(c, o), open |-> <<>>]
        /\ e[k] # Slash => After(e, k) = [closed |-> c, open |-> Append(o, e[k])]
    <3>1. /\ k \in 2..Len(e)
          /\ e[k] = Slash => After(e, k) = [closed |-> Append(c, o), open |-> <<>>]
          /\ e[k] # Slash => After(e, k) = [closed |-> c, open |-> Append(o, e[k])]
      BY LoopIsStep
    <3>2. k \in 1..Len(e) /\ k # 1
      BY <1>1
    <3> QED BY <3>1, <3>2
  <2>3. n # 1 => n \in 2..Len(e) - 1 /\ n \in 2..Len(e)
    BY <1>1
  <2>4. o \in Segs
    <3>1. CASE n = 1 \/ e[n] = Slash
      BY <2>1, <3>1 DEF Segment
    <3>2. CASE ~(n = 1 \/ e[n] = Slash)
      <4>1. e[n] \in T
        BY <2>3, <3>2
      <4> QED BY <2>1, <3>2, <4>1 DEF Segment
    <3> QED BY <3>1, <3>2
  <2>5. CASE e[k] = Slash
    <3>1. Append(c, o) \in Seq(Segs)
      <4> HIDE DEF c, o, Segs
      <4> QED BY <2>1, <2>4
    <3>2. After(e, k) = [closed |-> Append(c, o), open |-> <<>>]
      BY <2>2, <2>5
    <3>3. After(e, k).closed = Append(c, o) /\ After(e, k).open = <<>>
      BY <3>2
    <3>4. LoopStateOK(T, e, k)
      <4> HIDE DEF c, o, k
      <4> QED BY <2>5, <3>1, <3>2, <3>3 DEF LoopStateOK
    <3> QED BY <2>2, <3>4
  <2>6. CASE e[k] # Slash
    <3>1. o = <<>>
      <4>1. n = 1 \/ e[n] = Slash
        <5>1. n # 1 => Slash \in {e[n], e[k]}
          BY <2>3 DEF Path
        <5> QED BY <2>6, <5>1
      <4> QED BY <2>1, <4>1
    <3>2. Append(o, e[k]) = <<e[k]>>
      BY <3>1
    <3>3. After(e, k) = [closed |-> c, open |-> <<e[k]>>]
      <4>1. After(e, k) = [closed |-> c, open |-> Append(o, e[k])]
        BY <2>2, <2>6
      <4> HIDE DEF c, o, k
      <4> QED BY <2>1, <3>2, <4>1
    <3>4. After(e, k).closed = c /\ After(e, k).open = <<e[k]>>
      BY <3>3
    <3>5. LoopStateOK(T, e, k)
      <4> HIDE DEF c, o, k
      <4> QED BY <2>1, <2>2, <2>6, <3>3, <3>4 DEF LoopStateOK
    <3> QED BY <2>2, <3>5
  <2> QED BY <2>5, <2>6
<1>4. \A n \in 1..Len(e) : n \in G
  <2> HIDE DEF G
  <2> QED BY <1>1, <1>2, <1>3, Induct
<1> QED BY <1>4

\* A segment that was closed stays.
LEMMA ClosedStays ==
  ASSUME NEW e \in Path, e # <<>>, NEW n \in 1..Len(e), NEW m \in n..Len(e)
  PROVE  /\ Len(After(e, n).closed) <= Len(After(e, m).closed)
         /\ \A i \in 1..Len(After(e, n).closed) : After(e, m).closed[i] = After(e, n).closed[i]
<1> DEFINE Kept(x) ==
      /\ Len(After(e, n).closed) <= Len(After(e, x).closed)
      /\ \A i \in 1..Len(After(e, n).closed) : After(e, x).closed[i] = After(e, n).closed[i]
<1> DEFINE G == {x \in 1..Len(e) : x < n \/ Kept(x)}
<1>1. Len(e) \in Nat /\ 1 \in 1..Len(e) /\ m \in 1..Len(e) /\ n \in Nat /\ n <= m
  BY DEF Path
<1>2. \A x \in 1..Len(e) :
        /\ After(e, x).closed \in Seq(Segment(Texts))
        /\ Len(After(e, x).closed) \in Nat
  <2>1. \A x \in 2..Len(e) : e[x] \in Texts \cup {Slash}
    BY DEF Path
  <2>2. \A x \in 1..Len(e) : LoopStateOK(Texts, e, x)
    BY <2>1, LoopState
  <2>3. \A x \in 1..Len(e) : After(e, x).closed \in Seq(Segment(Texts))
    BY <2>2 DEF LoopStateOK
  <2>4. \A c \in Seq(Segment(Texts)) : Len(c) \in Nat
    OBVIOUS
  <2> QED BY <2>3, <2>4
<1>3. Kept(n)
  BY <1>2
<1>4. 1 \in G
  BY <1>1, <1>3
<1>5. ASSUME NEW x \in 1..Len(e) - 1, x \in G
      PROVE  x + 1 \in G
  <2> DEFINE c == After(e, x).closed
             d == After(e, x + 1).closed
             a == After(e, n).closed
  <2>1. x + 1 \in 1..Len(e) /\ x \in 1..Len(e)
    BY <1>1
  <2>2. CASE x + 1 <= n
    <3>1. x + 1 < n \/ x + 1 = n
      BY <1>1, <2>2
    <3> QED BY <1>3, <2>1, <3>1
  <2>3. CASE ~(x + 1 <= n)
    <3>1. Kept(x)
      <4>1. ~(x < n)
        BY <1>1, <2>3
      <4> QED BY <1>5, <4>1
    <3>2. d = c \/ d = Append(c, After(e, x).open)
      <4>1. CASE e[x + 1] = Slash
        <5>1. After(e, x + 1) = [closed |-> Append(c, After(e, x).open), open |-> <<>>]
          BY <4>1, LoopIsStep
        <5> QED BY <5>1
      <4>2. CASE e[x + 1] # Slash
        <5>1. After(e, x + 1) = [closed |-> c, open |-> Append(After(e, x).open, e[x + 1])]
          BY <4>2, LoopIsStep
        <5> QED BY <5>1
      <4> QED BY <4>1, <4>2
    <3>3. c \in Seq(Segment(Texts)) /\ Len(c) \in Nat /\ Len(a) \in Nat
      BY <1>2, <2>1
    <3>4. Len(c) <= Len(d) /\ \A i \in 1..Len(c) : d[i] = c[i]
      <4> HIDE DEF c, d
      <4> QED BY <3>2, <3>3
    <3>5. Len(d) \in Nat
      BY <1>2, <2>1
    <3>6. Len(a) <= Len(c) /\ \A i \in 1..Len(a) : c[i] = a[i]
      BY <3>1
    <3>7. Len(a) <= Len(d) /\ \A i \in 1..Len(a) : d[i] = a[i]
      <4> HIDE DEF a, c, d
      <4> QED BY <3>3, <3>4, <3>5, <3>6
    <3> QED BY <2>1, <3>7
  <2> QED BY <2>2, <2>3
<1>6. \A x \in 1..Len(e) : x \in G
  <2> HIDE DEF G
  <2> QED BY <1>1, <1>4, <1>5, Induct
<1> QED BY <1>1, <1>6

\* split returns segments of the texts in the string.
LEMMA SplitPathType ==
  ASSUME NEW T, NEW e \in Path, e # <<>>, \A n \in 2..Len(e) : e[n] \in T \cup {Slash}
  PROVE  SplitPath(e) \in Seq(Segment(T))
<1>1. Len(e) \in 1..Len(e)
  BY DEF Path
<1>2. LoopStateOK(T, e, Len(e))
  BY <1>1, LoopState
<1> DEFINE c == After(e, Len(e)).closed
           o == After(e, Len(e)).open
<1>3. c \in Seq(Segment(T)) /\ o = IF Len(e) = 1 \/ e[Len(e)] = Slash THEN <<>> ELSE <<e[Len(e)]>>
  BY <1>2 DEF LoopStateOK
<1>4. SplitPath(e) = IF o = <<>> THEN c ELSE Append(c, o)
  BY DEF SplitPath, Segments, After
<1>5. o \in Segment(T)
  <2>1. CASE Len(e) = 1 \/ e[Len(e)] = Slash
    BY <1>3, <2>1 DEF Segment
  <2>2. CASE ~(Len(e) = 1 \/ e[Len(e)] = Slash)
    <3>1. Len(e) \in 2..Len(e)
      BY <1>1, <2>2
    <3>2. e[Len(e)] \in T
      BY <2>2, <3>1
    <3> QED BY <1>3, <2>2, <3>2 DEF Segment
  <2> QED BY <2>1, <2>2
<1> QED
  <2> HIDE DEF c, o
  <2> QED BY <1>3, <1>4, <1>5

\* The segment that is open, or opened next, is the one behind the closed ones.
LEMMA SegmentAt ==
  ASSUME NEW e \in Path, e # <<>>, NEW n \in 1..Len(e)
  PROVE  LET k == Len(After(e, n).closed)
             sp == SplitPath(e)
         IN  /\ k \in Nat /\ Len(sp) \in Nat /\ k <= Len(sp)
             /\ \A i \in 1..k : sp[i] = After(e, n).closed[i]
             /\ n = Len(e) /\ After(e, n).open = <<>> => Len(sp) = k
             /\ n = Len(e) /\ After(e, n).open # <<>> =>
                  Len(sp) = k + 1 /\ sp[k + 1] = After(e, n).open
             /\ n < Len(e) /\ e[n + 1] = Slash =>
                  k + 1 <= Len(sp) /\ sp[k + 1] = After(e, n).open
<1> DEFINE k == Len(After(e, n).closed)
           sp == SplitPath(e)
           N == Len(e)
           c == After(e, N).closed
           o == After(e, N).open
<1>1. N \in Nat /\ N \in 1..N /\ n <= N /\ N \in n..N
  BY DEF Path
<1>2. \A x \in 1..N : After(e, x).closed \in Seq(Segment(Texts))
  <2>1. \A x \in 2..Len(e) : e[x] \in Texts \cup {Slash}
    BY DEF Path
  <2>2. \A x \in 1..Len(e) : LoopStateOK(Texts, e, x)
    BY <2>1, LoopState
  <2> QED BY <2>2 DEF LoopStateOK
<1>3. \A x \in Seq(Segment(Texts)) : Len(x) \in Nat
  OBVIOUS
<1>4. sp = IF o = <<>> THEN c ELSE Append(c, o)
  BY DEF SplitPath, Segments, After
<1>5. k \in Nat /\ c \in Seq(Segment(Texts)) /\ Len(c) \in Nat
  BY <1>1, <1>2, <1>3
<1>6. k <= Len(c) /\ \A i \in 1..k : c[i] = After(e, n).closed[i]
  BY <1>1, ClosedStays
<1>7. /\ Len(sp) \in Nat /\ Len(c) <= Len(sp) /\ \A i \in 1..Len(c) : sp[i] = c[i]
      /\ o = <<>> => Len(sp) = Len(c)
      /\ o # <<>> => Len(sp) = Len(c) + 1 /\ sp[Len(c) + 1] = o
  <2> HIDE DEF c, o, sp
  <2> QED BY <1>4, <1>5
<1>8. k <= Len(sp) /\ \A i \in 1..k : sp[i] = After(e, n).closed[i]
  <2> HIDE DEF c, o, sp, k
  <2> QED BY <1>5, <1>6, <1>7
<1>9. n = N => k = Len(c) /\ After(e, n).open = o
  OBVIOUS
<1>10. ASSUME n < N, e[n + 1] = Slash
       PROVE  k + 1 <= Len(sp) /\ sp[k + 1] = After(e, n).open
  <2> DEFINE d == After(e, n + 1).closed
  <2>1. n \in 1..N - 1 /\ n + 1 \in 1..N /\ N \in n + 1..N
    BY <1>1, <1>10
  <2>2. d = Append(After(e, n).closed, After(e, n).open)
    <3>1. After(e, n + 1) = [closed |-> Append(After(e, n).closed, After(e, n).open),
                             open |-> <<>>]
      BY <1>10, <2>1, LoopIsStep
    <3> QED BY <3>1
  <2>3. After(e, n).closed \in Seq(Segment(Texts))
    BY <1>2
  <2>4. Len(d) = k + 1 /\ d[k + 1] = After(e, n).open
    <3> HIDE DEF d
    <3> QED BY <2>2, <2>3
  <2>5. Len(d) <= Len(c) /\ \A i \in 1..Len(d) : c[i] = d[i]
    BY <2>1, ClosedStays
  <2> HIDE DEF d, c, k, sp
  <2> QED BY <1>5, <1>7, <2>4, <2>5
<1> QED
  <2> HIDE DEF k, sp, c, o, N
  <2>1. n = N /\ After(e, n).open = <<>> => Len(sp) = k
    BY <1>7, <1>9
  <2>2. n = N /\ After(e, n).open # <<>> => Len(sp) = k + 1 /\ sp[k + 1] = After(e, n).open
    BY <1>7, <1>9
  <2> QED BY <1>5, <1>7, <1>8, <1>10, <2>1, <2>2 DEF k, sp, N

\* What is known of an endpoint and of split's loop on it.
LEMMA PathFacts ==
  ASSUME NEW e \in Path, e # <<>>
  PROVE  /\ e \in Seq(Texts \cup {Slash}) /\ Len(e) \in Nat /\ 1 \in 1..Len(e) /\ Len(e) \in 1..Len(e)
         /\ \A n \in 1..Len(e) :
              /\ LoopStateOK(Texts, e, n)
              /\ After(e, n).closed \in Seq(Segment(Texts))
              /\ Len(After(e, n).closed) \in Nat
              /\ After(e, n).open = IF n = 1 \/ e[n] = Slash THEN <<>> ELSE <<e[n]>>
<1>1. /\ e \in Seq(Texts \cup {Slash}) /\ Len(e) \in Nat /\ 1 \in 1..Len(e) /\ Len(e) \in 1..Len(e)
      /\ \A x \in 2..Len(e) : e[x] \in Texts \cup {Slash}
  BY DEF Path
<1>2. \A n \in 1..Len(e) : LoopStateOK(Texts, e, n)
  BY <1>1, LoopState
<1>3. \A c \in Seq(Segment(Texts)) : Len(c) \in Nat
  OBVIOUS
<1>4. ASSUME NEW n \in 1..Len(e)
      PROVE  /\ After(e, n).closed \in Seq(Segment(Texts))
             /\ After(e, n).open = IF n = 1 \/ e[n] = Slash THEN <<>> ELSE <<e[n]>>
  BY <1>2 DEF LoopStateOK
<1> QED BY <1>1, <1>2, <1>3, <1>4

\* A text is the segment behind those that were closed before it.
LEMMA TextAt ==
  ASSUME NEW e \in Path, e # <<>>, NEW n \in 2..Len(e), e[n] # Slash
  PROVE  LET k == Len(After(e, n).closed)
         IN  k + 1 <= Len(SplitPath(e)) /\ SplitPath(e)[k + 1] = <<e[n]>>
<1>1. n \in 1..Len(e) /\ Len(e) \in Nat /\ n # 1
  BY PathFacts
<1>2. After(e, n).open = <<e[n]>> /\ <<e[n]>> # <<>> /\ Len(After(e, n).closed) \in Nat
  <2>1. /\ After(e, n).open = IF n = 1 \/ e[n] = Slash THEN <<>> ELSE <<e[n]>>
        /\ Len(After(e, n).closed) \in Nat
    BY <1>1, PathFacts
  <2>2. After(e, n).open = <<e[n]>>
    BY <1>1, <2>1
  <2> QED BY <2>1, <2>2
<1>3. CASE n = Len(e)
  <2>1. /\ Len(SplitPath(e)) = Len(After(e, n).closed) + 1
        /\ SplitPath(e)[Len(After(e, n).closed) + 1] = After(e, n).open
    BY <1>1, <1>2, <1>3, SegmentAt
  <2> QED BY <1>2, <2>1
<1>4. CASE n < Len(e)
  <2>1. e[n + 1] = Slash
    <3>1. n \in 2..Len(e) - 1
      BY <1>1, <1>4
    <3> QED BY <3>1 DEF Path
  <2> QED BY <1>1, <1>2, <1>4, <2>1, SegmentAt
<1> QED BY <1>1, <1>3, <1>4

\* Without the slash at its end an endpoint has the same tokens before it.
LEMMA BareFacts ==
  ASSUME NEW e \in Path, e # <<>>
  PROVE  /\ Len(Bare(e)) \in 1..Len(e)
         /\ DOMAIN Bare(e) = 1..Len(Bare(e))
         /\ \A i \in 1..Len(Bare(e)) : Bare(e)[i] = e[i]
BY PathFacts DEF Bare

\* A slash at the end makes no difference to split.
LEMMA SplitOfBare ==
  ASSUME NEW e \in Path, e # <<>>, e[1] = Slash
  PROVE  SplitPath(e) = Segments(After(e, Len(Bare(e))))
<1> DEFINE N == Len(e)
<1>1. N \in Nat /\ 1 \in 1..N /\ e \in Seq(Texts \cup {Slash})
  BY PathFacts
<1>2. CASE Bare(e) = e
  BY <1>2 DEF SplitPath, After
<1>3. CASE Bare(e) # e
  <2>1. N > 1 /\ e[N] = Slash /\ e[N - 1] # Slash /\ Bare(e) = SubSeq(e, 1, N - 1)
    BY <1>3 DEF Bare
  <2>2. N - 1 \in 1..N - 1 /\ (N - 1) + 1 = N /\ N - 1 # 1 /\ N - 1 \in 1..N
    BY <1>1, <2>1
  <2>3. Len(Bare(e)) = N - 1
    BY <1>1, <2>1, <2>2
  <2> DEFINE c == After(e, N - 1).closed
             o == After(e, N - 1).open
  <2>4. After(e, N) = [closed |-> Append(c, o), open |-> <<>>]
    BY <2>1, <2>2, LoopIsStep
  <2>5. o = <<e[N - 1]>> /\ o # <<>>
    <3>1. o = IF N - 1 = 1 \/ e[N - 1] = Slash THEN <<>> ELSE <<e[N - 1]>>
      BY <2>2, PathFacts
    <3>2. o = <<e[N - 1]>>
      BY <2>1, <2>2, <3>1
    <3> QED BY <3>2
  <2>6. SplitPath(e) = Append(c, o)
    <3>1. SplitPath(e) = Segments(After(e, N))
      BY DEF SplitPath, After
    <3> QED BY <2>4, <3>1 DEF Segments
  <2> QED BY <2>3, <2>5, <2>6 DEF Segments
<1> QED BY <1>2, <1>3

\* A wildcard with one of the texts Z in its place.
Stands(Z, s, t) == s = t \/ (IsWildcard(s) /\ \E z \in Z : t = <<z>>)

\* Segment by segment agreement is kept when one more pair agrees.
LEMMA StandsAppend ==
  ASSUME NEW Z, NEW S, NEW s \in Seq(S), NEW t \in Seq(S), NEW x, NEW y,
         Len(s) = Len(t), \A i \in 1..Len(s) : Stands(Z, s[i], t[i]), Stands(Z, x, y)
  PROVE  LET sx == Append(s, x)
             ty == Append(t, y)
         IN  Len(sx) = Len(ty) /\ \A i \in 1..Len(sx) : Stands(Z, sx[i], ty[i])
<1> DEFINE sx == Append(s, x)
           ty == Append(t, y)
           n == Len(s)
<1>1. n \in Nat /\ Len(t) = n
  OBVIOUS
<1>2. Len(sx) = n + 1 /\ sx[n + 1] = x /\ \A i \in 1..n : sx[i] = s[i]
  OBVIOUS
<1>3. Len(ty) = n + 1 /\ ty[n + 1] = y /\ \A i \in 1..n : ty[i] = t[i]
  BY <1>1
<1>4. \A i \in 1..n + 1 : i \in 1..n \/ i = n + 1
  BY <1>1
<1>5. ASSUME NEW i \in 1..Len(sx)
      PROVE  Stands(Z, sx[i], ty[i])
  <2>1. i \in 1..n \/ i = n + 1
    BY <1>2, <1>4
  <2> HIDE DEF sx, ty, n
  <2>2. CASE i \in 1..n
    BY <1>2, <1>3, <2>2 DEF n
  <2>3. CASE i = n + 1
    BY <1>2, <1>3, <2>3
  <2> QED BY <2>1, <2>2, <2>3
<1> QED BY <1>2, <1>3, <1>5

\* Endpoints that agree token by token agree segment by segment.
LEMMA FitsStands ==
  ASSUME NEW p \in Path, NEW e \in Path, p # <<>>, e # <<>>, p[1] = Slash, Fits(p, e),
         NEW Z, \A i \in DOMAIN Bare(p) : p[i] \in Wildcards => e[i] \in Z
  PROVE  /\ Len(SplitPath(p)) = Len(SplitPath(e))
         /\ \A i \in 1..Len(SplitPath(p)) : Stands(Z, SplitPath(p)[i], SplitPath(e)[i])
<1> DEFINE M == Len(Bare(p))
           cp(n) == After(p, n).closed
           ce(n) == After(e, n).closed
           op(n) == After(p, n).open
           oe(n) == After(e, n).open
<1>1. /\ M = Len(Bare(e)) /\ M \in Nat /\ 1 \in 1..M /\ M \in 1..M
      /\ M <= Len(p) /\ M <= Len(e) /\ Len(p) \in Nat /\ Len(e) \in Nat
  BY BareFacts, PathFacts DEF Fits
<1>2. \A n \in 1..M : \/ p[n] = e[n]
                      \/ /\ p[n] \in Wildcards /\ e[n] \in Texts /\ e[n] \in Z
                         /\ p[n] # Slash /\ e[n] # Slash
  BY <1>1, BareFacts, SlashAssumption DEF Fits
<1>3. e[1] = Slash
  BY <1>1, <1>2
<1>4. \A n \in 1..M : /\ cp(n) \in Seq(Segment(Texts)) /\ ce(n) \in Seq(Segment(Texts))
                      /\ Len(cp(n)) \in Nat /\ Len(ce(n)) \in Nat
                      /\ op(n) = IF n = 1 \/ p[n] = Slash THEN <<>> ELSE <<p[n]>>
                      /\ oe(n) = IF n = 1 \/ e[n] = Slash THEN <<>> ELSE <<e[n]>>
  <2> SUFFICES ASSUME NEW n \in 1..M
               PROVE  /\ cp(n) \in Seq(Segment(Texts)) /\ ce(n) \in Seq(Segment(Texts))
                      /\ Len(cp(n)) \in Nat /\ Len(ce(n)) \in Nat
                      /\ op(n) = IF n = 1 \/ p[n] = Slash THEN <<>> ELSE <<p[n]>>
                      /\ oe(n) = IF n = 1 \/ e[n] = Slash THEN <<>> ELSE <<e[n]>>
    OBVIOUS
  <2>1. n \in 1..Len(p) /\ n \in 1..Len(e)
    BY <1>1
  <2> QED BY <2>1, PathFacts
<1>5. ASSUME NEW n \in 1..M
      PROVE  Stands(Z, op(n), oe(n)) /\ (op(n) = <<>> <=> oe(n) = <<>>)
  <2>1. CASE p[n] = e[n]
    <3>1. op(n) = oe(n)
      BY <1>4, <2>1
    <3> QED BY <3>1 DEF Stands
  <2>2. CASE /\ p[n] \in Wildcards /\ e[n] \in Z
             /\ p[n] # Slash /\ e[n] # Slash /\ n # 1
    <3>1. op(n) = <<p[n]>> /\ oe(n) = <<e[n]>>
      BY <1>4, <2>2
    <3>2. IsWildcard(<<p[n]>>)
      BY <2>2 DEF IsWildcard
    <3> HIDE DEF op, oe
    <3> QED BY <2>2, <3>1, <3>2 DEF Stands
  <2>3. n = 1 => p[n] = e[n]
    BY <1>3
  <2> QED BY <1>2, <2>1, <2>2, <2>3
<1> DEFINE Par(n) == /\ Len(cp(n)) = Len(ce(n))
                     /\ \A i \in 1..Len(cp(n)) : Stands(Z, cp(n)[i], ce(n)[i])
           G == {n \in 1..M : Par(n)}
<1>6. 1 \in G
  <2>1. cp(1) = <<>> /\ ce(1) = <<>>
    BY SplitLoopSteps DEF After, NothingRead
  <2> QED BY <1>1, <2>1
<1>7. ASSUME NEW n \in 1..M - 1, n \in G
      PROVE  n + 1 \in G
  <2>1. /\ n \in 1..M /\ n + 1 \in 1..M
        /\ n \in 1..Len(p) - 1 /\ n \in 1..Len(e) - 1
    BY <1>1
  <2>2. CASE p[n + 1] = Slash /\ e[n + 1] = Slash
    <3>1. cp(n + 1) = Append(cp(n), op(n)) /\ ce(n + 1) = Append(ce(n), oe(n))
      <4>1. After(p, n + 1) = [closed |-> Append(cp(n), op(n)), open |-> <<>>]
        BY <2>1, <2>2, LoopIsStep
      <4>2. After(e, n + 1) = [closed |-> Append(ce(n), oe(n)), open |-> <<>>]
        BY <2>1, <2>2, LoopIsStep
      <4> QED BY <4>1, <4>2
    <3>2. /\ cp(n) \in Seq(Segment(Texts)) /\ ce(n) \in Seq(Segment(Texts))
          /\ Len(cp(n)) \in Nat
      BY <1>4, <2>1
    <3>3. Par(n) /\ Stands(Z, op(n), oe(n))
      BY <1>5, <1>7, <2>1
    <3>4. Par(n + 1)
      <4>1. Len(cp(n)) = Len(ce(n)) /\ \A i \in 1..Len(cp(n)) : Stands(Z, cp(n)[i], ce(n)[i])
        BY <3>3
      <4> HIDE DEF cp, ce, op, oe
      <4>2. LET s == Append(cp(n), op(n))
                t == Append(ce(n), oe(n))
            IN  Len(s) = Len(t) /\ \A i \in 1..Len(s) : Stands(Z, s[i], t[i])
        BY <3>2, <3>3, <4>1, StandsAppend
      <4> QED BY <3>1, <4>2
    <3> QED BY <2>1, <3>4
  <2>3. CASE p[n + 1] # Slash /\ e[n + 1] # Slash
    <3>1. cp(n + 1) = cp(n) /\ ce(n + 1) = ce(n)
      <4>1. After(p, n + 1) = [closed |-> cp(n), open |-> Append(op(n), p[n + 1])]
        BY <2>1, <2>3, LoopIsStep
      <4>2. After(e, n + 1) = [closed |-> ce(n), open |-> Append(oe(n), e[n + 1])]
        BY <2>1, <2>3, LoopIsStep
      <4> QED BY <4>1, <4>2
    <3>2. Par(n)
      BY <1>7
    <3>3. Par(n + 1)
      <4> HIDE DEF cp, ce
      <4> QED BY <3>1, <3>2
    <3> QED BY <2>1, <3>3
  <2>4. p[n + 1] = Slash <=> e[n + 1] = Slash
    BY <1>2, <2>1
  <2> QED BY <2>2, <2>3, <2>4
<1>8. M \in G
  <2> HIDE DEF G, M
  <2> QED BY <1>1, <1>6, <1>7, Induct
<1>9. /\ SplitPath(p) = IF op(M) = <<>> THEN cp(M) ELSE Append(cp(M), op(M))
      /\ SplitPath(e) = IF oe(M) = <<>> THEN ce(M) ELSE Append(ce(M), oe(M))
  <2>1. SplitPath(p) = Segments(After(p, M)) /\ SplitPath(e) = Segments(After(e, M))
    BY <1>1, <1>3, SplitOfBare
  <2> QED BY <2>1 DEF Segments
<1>10. Par(M) /\ Stands(Z, op(M), oe(M)) /\ (op(M) = <<>> <=> oe(M) = <<>>)
  BY <1>1, <1>5, <1>8
<1>11. /\ cp(M) \in Seq(Segment(Texts)) /\ ce(M) \in Seq(Segment(Texts))
       /\ Len(cp(M)) \in Nat
  BY <1>1, <1>4
<1> QED
  <2> HIDE DEF cp, ce, op, oe, M
  <2> QED BY <1>9, <1>10, <1>11

\* What the next character says of the segment it belongs to.
LEMMA NextSegment ==
  ASSUME NEW e \in Path, NEW n \in 1..Len(e) - 1
  PROVE  LET k == Len(After(e, n).closed)
             sp == SplitPath(e)
         IN  /\ k \in Nat /\ Len(sp) \in Nat /\ k + 1 <= Len(sp)
             /\ e[n + 1] = Slash => sp[k + 1] = After(e, n).open
             /\ e[n + 1] # Slash => sp[k + 1] = <<e[n + 1]>> /\ After(e, n).open = <<>>
<1> DEFINE k == Len(After(e, n).closed)
           sp == SplitPath(e)
<1>1. /\ n \in 1..Len(e) /\ n + 1 \in 2..Len(e) /\ n + 1 \in 1..Len(e) /\ e # <<>>
      /\ Len(e) \in Nat /\ n < Len(e)
  BY LoopIsStep
<1>2. k \in Nat /\ Len(sp) \in Nat
  BY <1>1, SegmentAt
<1>3. CASE e[n + 1] = Slash
  BY <1>1, <1>2, <1>3, SegmentAt
<1>4. CASE e[n + 1] # Slash
  <2>1. After(e, n).open = <<>>
    <3>1. After(e, n).open = IF n = 1 \/ e[n] = Slash THEN <<>> ELSE <<e[n]>>
      BY <1>1, PathFacts
    <3>2. n # 1 => n \in 2..Len(e) - 1
      BY <1>1
    <3>3. n # 1 => e[n] = Slash
      BY <1>4, <3>2 DEF Path
    <3> QED BY <3>1, <3>3
  <2>2. After(e, n + 1).closed = After(e, n).closed
    <3>1. After(e, n + 1) = [closed |-> After(e, n).closed,
                             open |-> Append(After(e, n).open, e[n + 1])]
      BY <1>4, LoopIsStep
    <3> QED BY <3>1
  <2>3. k + 1 <= Len(sp) /\ sp[k + 1] = <<e[n + 1]>>
    BY <1>1, <1>4, <2>2, TextAt
  <2> QED BY <1>2, <1>4, <2>1, <2>3
<1> QED BY <1>3, <1>4

\* The segments of an endpoint or a target have their types.
LEMMA SplitFacts ==
  ASSUME NEW e \in Endpoints \cup Targets
  PROVE  /\ e \in Path /\ e # <<>>
         /\ Split[e] = SplitPath(e) /\ Split[e] \in Seq(Segment(Texts))
         /\ Len(Split[e]) \in Nat /\ DOMAIN Split[e] = 1..Len(Split[e])
<1>1. e \in Path /\ e # <<>>
  BY PathAssumption
<1>2. Split[e] = SplitPath(e)
  BY DEF Split
<1>3. \A n \in 2..Len(e) : e[n] \in Texts \cup {Slash}
  BY <1>1 DEF Path
<1>4. SplitPath(e) \in Seq(Segment(Texts))
  BY <1>1, <1>3, SplitPathType
<1>5. \A s \in Seq(Segment(Texts)) : Len(s) \in Nat /\ DOMAIN s = 1..Len(s)
  OBVIOUS
<1> QED BY <1>1, <1>2, <1>4, <1>5

\* What fits an endpoint by its tokens is what endpoint_matches finds.
LEMMA FitsMatches ==
  ASSUME NEW p \in Endpoints, NEW e \in Endpoints \cup Targets, Fits(p, e)
  PROVE  EndpointMatches(p, e)
<1>1. \A i \in DOMAIN Bare(p) : p[i] \in Wildcards => e[i] \in Wildcards \cup Texts
  <2>1. DOMAIN Bare(p) = 1..Len(Bare(p)) /\ \A i \in 1..Len(Bare(p)) : Bare(p)[i] = p[i]
    BY SplitFacts, BareFacts
  <2>2. \A i \in 1..Len(Bare(e)) : Bare(e)[i] = e[i]
    BY SplitFacts, BareFacts
  <2> QED BY <2>1, <2>2 DEF Fits
<1>2. /\ Len(Split[p]) = Len(Split[e])
      /\ \A i \in 1..Len(Split[p]) : Stands(Wildcards \cup Texts, Split[p][i], Split[e][i])
  <2>1. p \in Path /\ e \in Path /\ p # <<>> /\ e # <<>> /\ p[1] = Slash
    BY SplitFacts, PathAssumption
  <2>2. /\ Len(SplitPath(p)) = Len(SplitPath(e))
        /\ \A i \in 1..Len(SplitPath(p)) :
             Stands(Wildcards \cup Texts, SplitPath(p)[i], SplitPath(e)[i])
    BY <1>1, <2>1, FitsStands
  <2> QED BY <2>2, SplitFacts
<1>3. DOMAIN Split[p] = 1..Len(Split[p])
  BY SplitFacts
<1> QED BY <1>2, <1>3 DEF EndpointMatches, Stands

\* The segments of an endpoint are made of its tokens.
LEMMA SegmentTokens ==
  ASSUME NEW e \in Endpoints \cup Targets, NEW i \in DOMAIN Split[e]
  PROVE  Split[e][i] = <<>> \/ \E n \in DOMAIN e : Split[e][i] = <<e[n]>>
<1> DEFINE T == {e[n] : n \in DOMAIN e}
<1>1. e \in Path /\ e # <<>> /\ Split[e] = SplitPath(e) /\ DOMAIN Split[e] = 1..Len(Split[e])
  BY SplitFacts
<1>2. DOMAIN e = 1..Len(e) /\ Len(e) \in Nat
  BY <1>1, PathFacts
<1>3. \A n \in 2..Len(e) : e[n] \in T \cup {Slash}
  BY <1>2
<1>4. Split[e] \in Seq(Segment(T))
  <2> HIDE DEF T
  <2> QED BY <1>1, <1>3, SplitPathType
<1>5. Split[e][i] \in Segment(T)
  <2> HIDE DEF T
  <2> QED BY <1>1, <1>4
<1> QED BY <1>5 DEF Segment

\* Up to its first wildcard an endpoint has the tokens of a spelled-out one
\* that matches the same requests.
LEMMA AgreeUpToWildcard ==
  ASSUME NEW p \in Endpoints, NEW q \in Endpoints,
         Len(Split[p]) = Len(Split[q]),
         \A i \in 1..Len(Split[p]) : IsWildcard(Split[p][i]) \/ Split[p][i] = Split[q][i],
         NEW n \in DOMAIN p, p[n] \in Wildcards, \A i \in 1..n - 1 : p[i] \notin Wildcards
  PROVE  n \in DOMAIN q /\ \A i \in 1..n - 1 : p[i] = q[i]
<1> DEFINE G == {j \in 1..n : /\ j <= Len(q)
                              /\ j < n => p[j] = q[j] /\ After(p, j) = After(q, j)}
<1>1. /\ p \in Path /\ q \in Path /\ p # <<>> /\ q # <<>> /\ p[1] = Slash /\ q[1] = Slash
      /\ Split[p] = SplitPath(p) /\ Split[q] = SplitPath(q)
  BY PathAssumption, SplitFacts
<1>2. /\ DOMAIN p = 1..Len(p) /\ Len(p) \in Nat /\ DOMAIN q = 1..Len(q) /\ Len(q) \in Nat
      /\ 1 <= Len(q) /\ n \in 1..Len(p)
  BY <1>1, PathFacts
<1>3. 1 \in G
  <2>1. After(p, 1) = NothingRead /\ After(q, 1) = NothingRead
    BY <1>1, SplitLoopSteps DEF After
  <2> QED BY <1>1, <1>2, <2>1
<1>4. ASSUME NEW j \in 1..n - 1, j \in G
      PROVE  j + 1 \in G
  <2> DEFINE k == Len(After(p, j).closed)
             sp == SplitPath(p)
             sq == SplitPath(q)
             o == After(p, j).open
  <2>1. /\ j \in 1..Len(p) - 1 /\ j + 1 \in 1..n /\ j < n /\ j \in 1..Len(p) /\ j \in 1..Len(q)
        /\ After(p, j) = After(q, j) /\ p[j] = q[j] /\ j + 1 <= Len(p)
    BY <1>2, <1>4
  <2>2. /\ k \in Nat /\ Len(sp) \in Nat /\ k + 1 <= Len(sp)
        /\ p[j + 1] = Slash => sp[k + 1] = o
        /\ p[j + 1] # Slash => sp[k + 1] = <<p[j + 1]>> /\ o = <<>>
    BY <1>1, <2>1, NextSegment
  <2>3. Len(sq) = Len(sp)
    BY <1>1
  <2>4. j # Len(q)
    <3> SUFFICES ASSUME j = Len(q) PROVE FALSE
      OBVIOUS
    <3>1. /\ o = <<>> => Len(sq) = k
          /\ o # <<>> => Len(sq) = k + 1
      BY <1>1, <2>1, SegmentAt
    <3>2. o # <<>>
      BY <2>2, <2>3, <3>1
    <3>3. p[j + 1] = Slash
      BY <2>2, <3>2
    <3>4. j + 1 # n
      BY <3>3, SlashAssumption
    <3>5. j + 1 \in 1..Len(p) - 1
      BY <1>2, <2>1, <3>4
    <3>6. Len(After(p, j + 1).closed) + 1 <= Len(sp) /\ Len(After(p, j + 1).closed) \in Nat
      BY <1>1, <3>5, NextSegment
    <3>7. Len(After(p, j + 1).closed) = k + 1
      <4>1. After(p, j + 1) = [closed |-> Append(After(p, j).closed, o), open |-> <<>>]
        BY <1>1, <2>1, <3>3, LoopIsStep
      <4>2. After(p, j).closed \in Seq(Segment(Texts))
        BY <1>1, <2>1, PathFacts
      <4>3. After(p, j + 1).closed = Append(After(p, j).closed, o)
        BY <4>1
      <4> HIDE DEF o
      <4> QED BY <4>2, <4>3
    <3> QED BY <2>2, <2>3, <3>1, <3>2, <3>6, <3>7
  <2>5. j \in 1..Len(q) - 1 /\ j + 1 <= Len(q)
    <3>1. Len(q) \in Nat /\ j \in 1..Len(q)
      BY <1>2, <2>1
    <3> QED BY <2>4, <3>1
  <2>6. ASSUME j + 1 < n
        PROVE  p[j + 1] = q[j + 1] /\ After(p, j + 1) = After(q, j + 1)
    <3>1. p[j + 1] \notin Wildcards
      BY <2>1, <2>6
    <3>2. /\ q[j + 1] = Slash => sq[k + 1] = o
          /\ q[j + 1] # Slash => sq[k + 1] = <<q[j + 1]>> /\ o = <<>>
      <4>1. LET l == Len(After(q, j).closed)
            IN  /\ q[j + 1] = Slash => sq[l + 1] = After(q, j).open
                /\ q[j + 1] # Slash => sq[l + 1] = <<q[j + 1]>> /\ After(q, j).open = <<>>
        BY <1>1, <2>5, NextSegment
      <4>2. After(q, j) = After(p, j)
        BY <2>1
      <4> HIDE DEF sq
      <4> QED BY <4>1, <4>2
    <3>3. k + 1 \in 1..Len(Split[p])
      BY <1>1, <2>2
    <3>4. IsWildcard(sp[k + 1]) \/ sp[k + 1] = sq[k + 1]
      BY <1>1, <3>3
    <3>5. p[j + 1] # Slash => ~IsWildcard(<<p[j + 1]>>)
      BY <3>1 DEF IsWildcard
    <3>6. ~IsWildcard(<<>>)
      BY DEF IsWildcard
    <3>7. \A t : <<t>> # <<>>
      OBVIOUS
    <3>8. \A t, u : <<t>> = <<u>> => t = u
      OBVIOUS
    <3>9. p[j + 1] = q[j + 1]
      <4>1. CASE p[j + 1] = Slash /\ q[j + 1] # Slash
        <5> HIDE DEF sp, sq, o, k
        <5> QED BY <2>2, <3>2, <3>4, <3>6, <3>7, <4>1
      <4>2. CASE p[j + 1] # Slash /\ q[j + 1] = Slash
        <5> HIDE DEF sp, sq, o, k
        <5> QED BY <2>2, <3>2, <3>4, <3>5, <3>7, <4>2
      <4>3. CASE p[j + 1] # Slash /\ q[j + 1] # Slash
        <5> HIDE DEF sp, sq, o, k
        <5> QED BY <2>2, <3>2, <3>4, <3>5, <3>8, <4>3
      <4> QED BY <4>1, <4>2, <4>3
    <3>10. After(p, j + 1) = After(q, j + 1)
      <4>1. CASE p[j + 1] = Slash
        <5>1. After(p, j + 1) = [closed |-> Append(After(p, j).closed, After(p, j).open),
                                 open |-> <<>>]
          BY <1>1, <2>1, <4>1, LoopIsStep
        <5>2. After(q, j + 1) = [closed |-> Append(After(q, j).closed, After(q, j).open),
                                 open |-> <<>>]
          BY <1>1, <2>5, <3>9, <4>1, LoopIsStep
        <5> QED BY <2>1, <5>1, <5>2
      <4>2. CASE p[j + 1] # Slash
        <5>1. After(p, j + 1) = [closed |-> After(p, j).closed,
                                 open |-> Append(After(p, j).open, p[j + 1])]
          BY <1>1, <2>1, <4>2, LoopIsStep
        <5>2. After(q, j + 1) = [closed |-> After(q, j).closed,
                                 open |-> Append(After(q, j).open, q[j + 1])]
          BY <1>1, <2>5, <3>9, <4>2, LoopIsStep
        <5> QED BY <2>1, <3>9, <5>1, <5>2
      <4> QED BY <4>1, <4>2
    <3> QED BY <3>9, <3>10
  <2> QED BY <2>1, <2>5, <2>6
<1>5. \A j \in 1..n : j \in G
  <2>1. n \in Nat
    BY <1>2
  <2> HIDE DEF G
  <2> QED BY <1>3, <1>4, <2>1, Induct
<1> QED BY <1>2, <1>5

\* Of two matches, one spelled out and one not, the first is spelled out.
LEMMA SpelledOutComesFirst ==
  ASSUME WildcardsComeLast, NEW p \in Endpoints, NEW q \in Endpoints,
         NEW e \in Targets, EndpointMatches(p, e), EndpointMatches(q, e), Literal(q), ~Literal(p)
  PROVE  Rank[q] < Rank[p]
<1>1. /\ DOMAIN Split[p] = 1..Len(Split[p]) /\ DOMAIN Split[q] = 1..Len(Split[q])
      /\ DOMAIN p = 1..Len(p) /\ Len(p) \in Nat
  BY SplitFacts, PathFacts
<1>2. \A i \in DOMAIN Split[q] : ~IsWildcard(Split[q][i])
  <2> SUFFICES ASSUME NEW i \in DOMAIN Split[q] PROVE ~IsWildcard(Split[q][i])
    OBVIOUS
  <2>1. CASE Split[q][i] = <<>>
    BY <2>1 DEF IsWildcard
  <2>2. CASE \E n \in DOMAIN q : Split[q][i] = <<q[n]>>
    BY <2>2 DEF Literal, IsWildcard
  <2> QED BY <2>1, <2>2, SegmentTokens
<1>3. /\ Len(Split[p]) = Len(Split[q])
      /\ \A i \in 1..Len(Split[p]) : IsWildcard(Split[p][i]) \/ Split[p][i] = Split[q][i]
  BY <1>1, <1>2 DEF EndpointMatches
<1> DEFINE W == {i \in DOMAIN p : p[i] \in Wildcards}
<1>4. W # {} /\ W \in SUBSET Nat
  BY <1>1 DEF Literal
<1>5. PICK n \in W : \A i \in W : n <= i
  <2> HIDE DEF W
  <2> QED BY <1>4, SmallestExists
<1>6. n \in DOMAIN p /\ p[n] \in Wildcards /\ \A i \in 1..n - 1 : p[i] \notin Wildcards
  BY <1>1, <1>5
<1>7. n \in DOMAIN q /\ \A i \in 1..n - 1 : p[i] = q[i]
  BY <1>3, <1>6, AgreeUpToWildcard
<1> QED BY <1>6, <1>7 DEF WildcardsComeLast, Literal

-----------------------------------------------------------------------------
\* The parameters, one segment after the other.
LEMMA InductFromZero ==
  ASSUME NEW N \in Nat, NEW T, 0 \in T, \A n \in 0..N - 1 : n \in T => n + 1 \in T
  PROVE  \A n \in 0..N : n \in T
<1>1. CASE N = 0
  BY <1>1
<1>2. CASE N # 0
  <2>1. 0 \in 0..N - 1 /\ \A n \in 1..N - 1 : n \in 0..N - 1
    BY <1>2
  <2>2. 0 + 1 \in T
    BY <2>1
  <2>3. 1 \in T /\ \A n \in 1..N - 1 : n \in T => n + 1 \in T
    BY <2>1, <2>2
  <2>4. \A n \in 1..N : n \in T
    BY <2>3, Induct
  <2> QED BY <2>4
<1> QED BY <1>1, <1>2

\* What a wildcard is bound to.
Bound(p, e, i) == [name |-> Split[p][i], value |-> Split[e][i]]

\* The loop of endpoint_matches is the function that its definition says.
LEMMA ParametersLoopDef ==
  ASSUME NEW p, NEW e, Len(Split[p]) \in Nat
  PROVE  ParametersLoop(p, e) =
           [i \in 0..Len(Split[p]) |->
              IF i = 0 THEN <<>>
              ELSE IF IsWildcard(Split[p][i])
                     THEN Append(ParametersLoop(p, e)[i - 1], Bound(p, e, i))
                     ELSE ParametersLoop(p, e)[i - 1]]
<1> DEFINE Loop(f, k) ==
      f = [i \in 0..k |-> IF i = 0 THEN <<>>
                          ELSE IF IsWildcard(Split[p][i])
                                 THEN Append(f[i - 1], Bound(p, e, i))
                                 ELSE f[i - 1]]
<1> DEFINE T == {k \in Nat : \E f : Loop(f, k)}
<1>1. ASSUME NEW k \in Nat, NEW f, Loop(f, k)
      PROVE  \E g : Loop(g, k + 1)
  <2> DEFINE new == IF IsWildcard(Split[p][k + 1]) THEN Append(f[k], Bound(p, e, k + 1)) ELSE f[k]
             g == [i \in 0..k + 1 |-> IF i <= k THEN f[i] ELSE new]
  <2>1. ASSUME NEW i \in 0..k + 1
        PROVE  g[i] = IF i = 0 THEN <<>>
                      ELSE IF IsWildcard(Split[p][i]) THEN Append(g[i - 1], Bound(p, e, i))
                                                      ELSE g[i - 1]
    <3>1. CASE i <= k
      <4>1. g[i] = f[i] /\ (i # 0 => g[i - 1] = f[i - 1])
        BY <3>1
      <4>2. f[i] = IF i = 0 THEN <<>>
                   ELSE IF IsWildcard(Split[p][i]) THEN Append(f[i - 1], Bound(p, e, i))
                                                   ELSE f[i - 1]
        <5>1. i \in 0..k
          BY <3>1
        <5> QED BY <1>1, <5>1
      <4> HIDE DEF g
      <4> QED BY <4>1, <4>2
    <3>2. CASE i = k + 1
      <4>1. g[i] = new /\ g[i - 1] = f[k] /\ i # 0
        BY <3>2
      <4> HIDE DEF g
      <4> QED BY <3>2, <4>1
    <3> QED BY <3>1, <3>2
  <2>2. Loop(g, k + 1)
    <3>1. g = [i \in 0..k + 1 |-> g[i]]
      OBVIOUS
    <3> HIDE DEF g
    <3> QED BY <2>1, <3>1
  <2> QED BY <2>2
<1>2. 0 \in T
  <2>1. Loop([i \in 0..0 |-> <<>>], 0)
    OBVIOUS
  <2> QED BY <2>1
<1>3. \E f : Loop(f, Len(Split[p]))
  <2>1. \A k \in 0..Len(Split[p]) - 1 : k \in T => k + 1 \in T
    <3> HIDE DEF Loop
    <3> QED BY <1>1
  <2>2. \A k \in 0..Len(Split[p]) : k \in T
    <3> HIDE DEF T
    <3> QED BY <1>2, <2>1, InductFromZero
  <2> HIDE DEF Loop
  <2> QED BY <2>2
<1>4. ParametersLoop(p, e) = CHOOSE f : Loop(f, Len(Split[p]))
  BY DEF ParametersLoop, Bound
<1>5. Loop(ParametersLoop(p, e), Len(Split[p]))
  <2> HIDE DEF Loop
  <2> QED BY <1>3, <1>4
<1> QED BY <1>5

\* The wildcards among the first i segments.
UpTo(p, i) == {j \in 1..i : IsWildcard(Split[p][j])}

\* One more segment adds one wildcard or none.
LEMMA UpToStep ==
  ASSUME NEW p, NEW i \in Nat
  PROVE  /\ IsFiniteSet(UpTo(p, i)) /\ Cardinality(UpTo(p, i)) \in Nat
         /\ UpTo(p, 0) = {} /\ Cardinality(UpTo(p, 0)) = 0
         /\ IsWildcard(Split[p][i + 1]) =>
              /\ UpTo(p, i + 1) = UpTo(p, i) \cup {i + 1}
              /\ Cardinality(UpTo(p, i + 1)) = Cardinality(UpTo(p, i)) + 1
         /\ ~IsWildcard(Split[p][i + 1]) => UpTo(p, i + 1) = UpTo(p, i)
<1>1. IsFiniteSet(UpTo(p, i))
  <2>1. IsFiniteSet(1..i)
    BY FS_Interval
  <2>2. UpTo(p, i) \subseteq 1..i
    BY DEF UpTo
  <2> QED BY <2>1, <2>2, FS_Subset
<1>2. Cardinality(UpTo(p, i)) \in Nat
  BY <1>1, FS_CardinalityType
<1>3. UpTo(p, 0) = {} /\ Cardinality(UpTo(p, 0)) = 0
  <2>1. UpTo(p, 0) = {}
    BY DEF UpTo
  <2> QED BY <2>1, FS_EmptySet
<1>4. ASSUME IsWildcard(Split[p][i + 1])
      PROVE  /\ UpTo(p, i + 1) = UpTo(p, i) \cup {i + 1}
             /\ Cardinality(UpTo(p, i + 1)) = Cardinality(UpTo(p, i)) + 1
  <2>1. UpTo(p, i + 1) = UpTo(p, i) \cup {i + 1}
    BY <1>4 DEF UpTo
  <2>2. i + 1 \notin UpTo(p, i)
    BY DEF UpTo
  <2> QED BY <1>1, <2>1, <2>2, FS_AddElement
<1>5. ASSUME ~IsWildcard(Split[p][i + 1])
      PROVE  UpTo(p, i + 1) = UpTo(p, i)
  <2>1. \A j \in 1..i + 1 : j \in 1..i \/ j = i + 1
    OBVIOUS
  <2>2. \A j \in 1..i : j \in 1..i + 1
    OBVIOUS
  <2> QED BY <1>5, <2>1, <2>2 DEF UpTo
<1> QED BY <1>1, <1>2, <1>3, <1>4, <1>5

\* The n-th parameter belongs to the n-th wildcard.
ParametersOK(p, e, i) ==
  LET ps == ParametersLoop(p, e)[i]
  IN  /\ ps \in Seq(Parameter)
      /\ Len(ps) = Cardinality(UpTo(p, i))
      /\ \A j \in UpTo(p, i) :
           /\ Cardinality(UpTo(p, j)) \in 1..Len(ps)
           /\ ps[Cardinality(UpTo(p, j))] = Bound(p, e, j)

\* What a wildcard of a match is bound to is a parameter.
LEMMA BoundIsParameter ==
  ASSUME NEW p \in Endpoints, NEW e \in Endpoints \cup Targets, EndpointMatches(p, e),
         NEW i \in 1..Len(Split[p]), IsWildcard(Split[p][i])
  PROVE  Bound(p, e, i) \in Parameter
<1>1. /\ Split[p] \in Seq(Segment(Texts)) /\ Split[e] \in Seq(Segment(Texts))
      /\ Len(Split[p]) = Len(Split[e])
  BY SplitFacts DEF EndpointMatches
<1>2. Split[p][i] \in Segment(Texts) /\ Split[e][i] \in Segment(Texts)
  BY <1>1
<1>3. Split[p][i] \in Seq(Wildcards)
  <2>1. PICK t \in Texts : Split[p][i] = <<t>>
    BY <1>2 DEF Segment, IsWildcard
  <2>2. t \in Wildcards
    BY <2>1 DEF IsWildcard
  <2> QED BY <2>1, <2>2
<1>4. Split[e][i] \in Seq(Texts)
  <2>1. Split[e][i] = <<>> \/ \E t \in Texts : Split[e][i] = <<t>>
    BY <1>2 DEF Segment
  <2>2. <<>> \in Seq(Texts) /\ \A t \in Texts : <<t>> \in Seq(Texts)
    OBVIOUS
  <2> QED BY <2>1, <2>2
<1> QED BY <1>3, <1>4 DEF Bound, Parameter

\* A match has one parameter for each wildcard, at the place of the wildcard.
LEMMA ParametersFacts ==
  ASSUME NEW p \in Endpoints, NEW e \in Endpoints \cup Targets, EndpointMatches(p, e)
  PROVE  ParametersOK(p, e, Len(Split[p]))
<1> DEFINE M == Len(Split[p])
           P(i) == ParametersLoop(p, e)[i]
           G == {i \in 0..M : ParametersOK(p, e, i)}
<1>1. M \in Nat
  BY SplitFacts
<1>2. \A i \in 0..M : P(i) = IF i = 0 THEN <<>>
                             ELSE IF IsWildcard(Split[p][i]) THEN Append(P(i - 1), Bound(p, e, i))
                                                             ELSE P(i - 1)
  <2>1. ParametersLoop(p, e) =
          [i \in 0..Len(Split[p]) |->
             IF i = 0 THEN <<>>
             ELSE IF IsWildcard(Split[p][i])
                    THEN Append(ParametersLoop(p, e)[i - 1], Bound(p, e, i))
                    ELSE ParametersLoop(p, e)[i - 1]]
    BY <1>1, ParametersLoopDef
  <2> QED BY <2>1, Zenon
<1>3. 0 \in G
  <2>1. P(0) = <<>> /\ 0 \in 0..M
    BY <1>1, <1>2
  <2>2. <<>> \in Seq(Parameter) /\ Len(<<>>) = 0
    OBVIOUS
  <2>3. UpTo(p, 0) = {} /\ Cardinality(UpTo(p, 0)) = 0
    BY UpToStep
  <2>4. ParametersOK(p, e, 0)
    BY <2>1, <2>2, <2>3 DEF ParametersOK
  <2> QED BY <2>1, <2>4
<1>4. ASSUME NEW i \in 0..M - 1, i \in G
      PROVE  i + 1 \in G
  <2>1. i \in Nat /\ i + 1 \in 0..M /\ i + 1 \in 1..M /\ i + 1 # 0 /\ (i + 1) - 1 = i
    BY <1>1
  <2>2. /\ P(i) \in Seq(Parameter)
        /\ Len(P(i)) = Cardinality(UpTo(p, i))
        /\ \A j \in UpTo(p, i) : /\ Cardinality(UpTo(p, j)) \in 1..Len(P(i))
                                 /\ P(i)[Cardinality(UpTo(p, j))] = Bound(p, e, j)
    BY <1>4 DEF ParametersOK
  <2>3. CASE IsWildcard(Split[p][i + 1])
    <3>1. P(i + 1) = Append(P(i), Bound(p, e, i + 1))
      BY <1>2, <2>1, <2>3
    <3>2. Bound(p, e, i + 1) \in Parameter
      BY <2>1, <2>3, BoundIsParameter
    <3>3. /\ UpTo(p, i + 1) = UpTo(p, i) \cup {i + 1}
          /\ Cardinality(UpTo(p, i + 1)) = Cardinality(UpTo(p, i)) + 1
          /\ Cardinality(UpTo(p, i)) \in Nat
      BY <2>1, <2>3, UpToStep
    <3>4. /\ P(i + 1) \in Seq(Parameter) /\ Len(P(i + 1)) = Len(P(i)) + 1 /\ Len(P(i)) \in Nat
          /\ \A n \in 1..Len(P(i)) : P(i + 1)[n] = P(i)[n]
          /\ P(i + 1)[Len(P(i)) + 1] = Bound(p, e, i + 1)
      <4>1. \A ps \in Seq(Parameter), b \in Parameter :
              /\ Append(ps, b) \in Seq(Parameter) /\ Len(Append(ps, b)) = Len(ps) + 1
              /\ Len(ps) \in Nat
              /\ \A n \in 1..Len(ps) : Append(ps, b)[n] = ps[n]
              /\ Append(ps, b)[Len(ps) + 1] = b
        OBVIOUS
      <4>2. P(i) \in Seq(Parameter)
        BY <2>2
      <4> HIDE DEF P
      <4> QED BY <3>1, <3>2, <4>1, <4>2
    <3>5. ASSUME NEW j \in UpTo(p, i + 1)
          PROVE  /\ Cardinality(UpTo(p, j)) \in 1..Len(P(i + 1))
                 /\ P(i + 1)[Cardinality(UpTo(p, j))] = Bound(p, e, j)
      <4> HIDE DEF P
      <4>1. CASE j \in UpTo(p, i)
        BY <2>2, <3>4, <4>1
      <4>2. CASE j = i + 1
        BY <2>2, <3>3, <3>4, <4>2
      <4> QED BY <3>3, <4>1, <4>2
    <3>6. ParametersOK(p, e, i + 1)
      BY <2>2, <3>3, <3>4, <3>5 DEF ParametersOK
    <3> QED BY <2>1, <3>6
  <2>4. CASE ~IsWildcard(Split[p][i + 1])
    <3>1. P(i + 1) = P(i)
      BY <1>2, <2>1, <2>4
    <3>2. UpTo(p, i + 1) = UpTo(p, i)
      BY <2>1, <2>4, UpToStep
    <3>3. ParametersOK(p, e, i + 1)
      BY <2>2, <3>1, <3>2 DEF ParametersOK
    <3> QED BY <2>1, <3>3
  <2> QED BY <2>3, <2>4
<1>5. \A i \in 0..M : i \in G
  <2> HIDE DEF G, M
  <2> QED BY <1>1, <1>3, <1>4, InductFromZero
<1> QED BY <1>1, <1>5

-----------------------------------------------------------------------------
\* The invariant holds before anything is registered.
LEMMA InitRouteInv == Init => RouteInv
<1>1. Init => MapInv
  BY DEF Init, MapInv, EntryIsLatest, NoHandler
<1>2. Init => LastInv /\ aborted \in BOOLEAN
  BY DEF Init, LastInv
<1> QED BY <1>1, <1>2 DEF RouteInv

\* A registration is the last one for its entry and no other.
LEMMA RegisterMapInv ==
  ASSUME MapInv, NEW m \in Methods, NEW p \in Endpoints, RegisterEndpointHandler(m, p)
  PROVE  MapInv'
<1> DEFINE n == Len(registered) + 1
<1>1. /\ registered' = Append(registered, Entry(m, p))
      /\ m_handler_map' = [m_handler_map EXCEPT ![m][p] = n]
  BY DEF RegisterEndpointHandler, Entry
<1>2. /\ registered \in Seq(Registration) /\ Entry(m, p) \in Registration
      /\ m_handler_map \in [Methods -> [Endpoints -> Nat]]
  BY DEF MapInv, Entry, Registration
<1>3. /\ registered' \in Seq(Registration)
      /\ Len(registered') = n
      /\ registered'[n] = Entry(m, p)
      /\ \A k \in 1..Len(registered) : registered'[k] = registered[k]
  BY <1>1, <1>2
<1>4. n \in Nat /\ Len(registered) \in Nat
  BY <1>2
<1>5. m_handler_map' \in [Methods -> [Endpoints -> Nat]]
  BY <1>1, <1>2, <1>4
<1>6. ASSUME NEW k \in Methods, NEW q \in Endpoints
      PROVE  EntryIsLatest(k, q)'
  <2>1. CASE k = m /\ q = p
    <3>1. m_handler_map'[k][q] = n
      BY <1>1, <1>2, <2>1
    <3> QED BY <1>3, <1>4, <2>1, <3>1 DEF EntryIsLatest
  <2>2. CASE ~(k = m /\ q = p)
    <3>1. m_handler_map'[k][q] = m_handler_map[k][q]
      BY <1>1, <1>2, <2>2
    <3>2. Entry(k, q) # Entry(m, p)
      BY <2>2 DEF Entry
    <3>3. EntryIsLatest(k, q)
      BY DEF MapInv
    <3>4. m_handler_map[k][q] \in 0..Len(registered)
      BY <3>3 DEF EntryIsLatest
    <3>5. m_handler_map'[k][q] # NoHandler => registered'[m_handler_map'[k][q]] = Entry(k, q)
      BY <1>3, <1>4, <3>1, <3>3, <3>4 DEF EntryIsLatest, NoHandler
    <3>6. \A i \in m_handler_map'[k][q] + 1 .. Len(registered') : registered'[i] # Entry(k, q)
      BY <1>3, <1>4, <3>1, <3>2, <3>3, <3>4 DEF EntryIsLatest
    <3> QED BY <1>3, <1>4, <3>1, <3>4, <3>5, <3>6 DEF EntryIsLatest, Entry
  <2> QED BY <2>1, <2>2
<1> QED BY <1>3, <1>5, <1>6 DEF MapInv

\* What is answered only depends on the map.
LEMMA RouteUnchanged ==
  ASSUME UNCHANGED m_handler_map
  PROVE  \A m, e : Answer(m, e)' = Answer(m, e)
BY DEF Answer, Route, RouteParameters, FirstMatch, Candidates, Registered

\* Registrations and requests keep the invariant.
LEMMA NextRouteInv == RouteInv /\ [Next]_vars => RouteInv'
<1> SUFFICES ASSUME RouteInv, [Next]_vars PROVE RouteInv'
  OBVIOUS
<1>1. ASSUME NEW m \in Methods, NEW p \in Endpoints, RegisterEndpointHandler(m, p)
      PROVE  RouteInv'
  <2>1. MapInv'
    BY <1>1, RegisterMapInv DEF RouteInv
  <2>2. LastInv'
    BY <1>1 DEF RegisterEndpointHandler, LastInv
  <2>3. aborted' \in BOOLEAN
    BY <1>1 DEF RegisterEndpointHandler, RouteInv
  <2> QED BY <2>1, <2>2, <2>3 DEF RouteInv
<1>2. ASSUME UNCHANGED <<m_handler_map, registered>>
      PROVE  MapInv'
  BY <1>2 DEF RouteInv, MapInv, EntryIsLatest
<1>3. ASSUME NEW m \in Methods, NEW e \in Targets, HandleEndpoint(m, e)
      PROVE  RouteInv'
  <2>1. UNCHANGED <<m_handler_map, registered>> /\ aborted' \in BOOLEAN
    BY <1>3 DEF HandleEndpoint, RouteInv
  <2>2. CASE UNCHANGED last
    <3>1. LastInv'
      BY <2>1, <2>2, RouteUnchanged DEF RouteInv, LastInv
    <3> QED BY <1>2, <2>1, <3>1 DEF RouteInv
  <2>3. CASE last' = Answer(m, e)
    <3>1. last' = Answer(m, e)'
      BY <2>1, <2>3, RouteUnchanged
    <3>2. LastInv'
      BY <3>1 DEF LastInv
    <3> QED BY <1>2, <2>1, <3>2 DEF RouteInv
  <2> QED BY <1>3, <2>2, <2>3 DEF HandleEndpoint, Answer
<1>4. CASE UNCHANGED vars
  <2>1. LastInv'
    BY <1>4, RouteUnchanged DEF vars, RouteInv, LastInv
  <2> QED BY <1>2, <1>4, <2>1 DEF vars, RouteInv
<1> QED BY <1>1, <1>3, <1>4 DEF Next

\* The invariant holds in every reachable state.
LEMMA SpecRouteInv == Spec => []RouteInv
BY InitRouteInv, NextRouteInv, PTL DEF Spec

-----------------------------------------------------------------------------
\* A request goes to a handler that was registered for its method, and to the
\* last one registered for its endpoint: a later registration overrides.
THEOREM LatestHandlers == Spec => []LatestHandlerIsCalled
<1>1. RouteInv => LatestHandlerIsCalled
  <2> SUFFICES ASSUME RouteInv, Called
               PROVE  /\ registered[last.handler].method = last.method
                      /\ \A n \in last.handler + 1 .. Len(registered) :
                           registered[n] # registered[last.handler]
    BY DEF LatestHandlerIsCalled
  <2> DEFINE m == last.method
             e == last.target
             p == FirstMatch(m, e)
  <2>1. m \in Methods /\ last.handler = Route(m, e) /\ last.handler # NoHandler
    BY DEF RouteInv, LastInv, Called, Answer
  <2>2. Candidates(m, e) # {} /\ last.handler = m_handler_map[m][p]
    BY <2>1 DEF Route
  <2>3. p \in Endpoints
    <3>1. p \in Candidates(m, e)
      BY <2>1, <2>2, FirstMatchMatches
    <3> QED BY <3>1 DEF Candidates, Registered
  <2>4. EntryIsLatest(m, p)
    BY <2>1, <2>3 DEF RouteInv, MapInv
  <2>5. registered[last.handler] = Entry(m, p)
    BY <2>1, <2>2, <2>4 DEF EntryIsLatest
  <2> QED BY <2>2, <2>4, <2>5 DEF EntryIsLatest, Entry
<1> QED BY <1>1, SpecRouteInv, PTL

\* Any number of registrations and requests leaves the tables in shape, and
\* the parameters of a match are texts under the names of wildcards.
THEOREM TypeCorrect == Spec => []TypeOK
<1>1. RouteInv => TypeOK
  <2> SUFFICES ASSUME RouteInv PROVE TypeOK
    OBVIOUS
  <2>1. m_handler_map \in [Methods -> [Endpoints -> 0..Len(registered)]]
    BY DEF RouteInv, MapInv, EntryIsLatest
  <2>2. ASSUME NEW m \in Methods, NEW e \in Targets
        PROVE  Answer(m, e) \in Request
    <3>1. Route(m, e) \in Nat /\ RouteParameters(m, e) \in Seq(Parameter)
      <4>1. CASE Candidates(m, e) = {}
        <5>1. <<>> \in Seq(Parameter)
          OBVIOUS
        <5> QED BY <4>1, <5>1 DEF Route, RouteParameters, NoHandler
      <4>2. CASE Candidates(m, e) # {}
        <5> DEFINE p == FirstMatch(m, e)
        <5>1. p \in Endpoints /\ EndpointMatches(p, e)
          <6>1. p \in Candidates(m, e)
            BY <4>2, FirstMatchMatches
          <6> QED BY <6>1 DEF Candidates, Registered
        <5>2. Route(m, e) = m_handler_map[m][p] /\ RouteParameters(m, e) = Parameters(p, e)
          BY <4>2 DEF Route, RouteParameters
        <5>3. m_handler_map[m][p] \in Nat
          BY <5>1 DEF RouteInv, MapInv
        <5>4. Parameters(p, e) \in Seq(Parameter)
          BY <5>1, ParametersFacts DEF Parameters, ParametersOK
        <5> QED BY <5>2, <5>3, <5>4
      <4> QED BY <4>1, <4>2
    <3> QED BY <3>1 DEF Answer, Request
  <2>3. last \in Request \cup {NoRequest}
    BY <2>2 DEF RouteInv, LastInv
  <2> QED BY <2>1, <2>3 DEF TypeOK, RouteInv, MapInv
<1> QED BY <1>1, SpecRouteInv, PTL

\* The endpoint a request was answered by, and what it came with.
LEMMA AnswerOf ==
  ASSUME RouteInv, Called
  PROVE  /\ last.method \in Methods /\ last.target \in Targets
         /\ Candidates(last.method, last.target) # {}
         /\ FirstMatch(last.method, last.target) \in Candidates(last.method, last.target)
         /\ registered[last.handler].endpoint = FirstMatch(last.method, last.target)
         /\ last.params = Parameters(FirstMatch(last.method, last.target), last.target)
<1>1. PICK m \in Methods, e \in Targets : last = Answer(m, e)
  BY DEF RouteInv, LastInv, Called
<1>2. /\ last.method = m /\ last.target = e
      /\ last.handler = Route(m, e) /\ last.params = RouteParameters(m, e)
  BY <1>1 DEF Answer
<1>3. Candidates(m, e) # {}
  BY <1>2 DEF Route, Called
<1> DEFINE p == FirstMatch(m, e)
<1>4. p \in Candidates(m, e)
  BY <1>3, FirstMatchMatches
<1>5. p \in Endpoints /\ last.handler = m_handler_map[m][p] /\ last.params = Parameters(p, e)
  BY <1>2, <1>3, <1>4 DEF Route, RouteParameters, Candidates, Registered
<1>6. registered[last.handler] = Entry(m, p)
  BY <1>5 DEF RouteInv, MapInv, EntryIsLatest, Called
<1>7. registered[last.handler].endpoint = p
  BY <1>6 DEF Entry
<1> QED BY <1>2, <1>3, <1>4, <1>5, <1>7

\* What was registered is in the map, and a candidate for what it fits.
LEMMA RegisteredIsCandidate ==
  ASSUME RouteInv, NEW n \in DOMAIN registered, NEW e \in Targets,
         Fits(registered[n].endpoint, e)
  PROVE  /\ registered[n].endpoint \in Endpoints
         /\ registered[n].endpoint \in Candidates(registered[n].method, e)
<1> DEFINE m == registered[n].method
           p == registered[n].endpoint
<1>1. registered \in Seq(Registration) /\ n \in 1..Len(registered)
  BY DEF RouteInv, MapInv
<1>2. registered[n] \in Registration
  BY <1>1
<1>3. m \in Methods /\ p \in Endpoints /\ registered[n] = Entry(m, p)
  BY <1>2 DEF Registration, Entry
<1>4. m_handler_map[m][p] # NoHandler
  <2>1. /\ m_handler_map[m][p] \in 0..Len(registered)
        /\ \A k \in m_handler_map[m][p] + 1 .. Len(registered) : registered[k] # Entry(m, p)
    BY <1>3 DEF RouteInv, MapInv, EntryIsLatest
  <2> HIDE DEF m, p
  <2> QED BY <1>1, <1>3, <2>1 DEF NoHandler
<1>5. EndpointMatches(p, e)
  BY <1>3, FitsMatches
<1> QED BY <1>3, <1>4, <1>5 DEF Candidates, Registered

\* NOT_FOUND says that nothing registered for the method fits: split and
\* endpoint_matches overlook no endpoint, with or without a slash at the end.
THEOREM NotFoundIsHonest == Spec => []NotFoundOnlyIfNothingFits
<1>1. RouteInv => NotFoundOnlyIfNothingFits
  <2> SUFFICES ASSUME RouteInv, last # NoRequest, last.handler = NoHandler,
                      NEW n \in DOMAIN registered, registered[n].method = last.method,
                      Fits(registered[n].endpoint, last.target)
               PROVE  FALSE
    BY DEF NotFoundOnlyIfNothingFits
  <2>1. PICK m \in Methods, e \in Targets : last = Answer(m, e)
    BY DEF RouteInv, LastInv
  <2>2. last.method = m /\ last.target = e /\ last.handler = Route(m, e)
    BY <2>1 DEF Answer
  <2>3. Candidates(m, e) # {}
    BY <2>2, RegisteredIsCandidate
  <2>4. FirstMatch(m, e) \in Candidates(m, e)
    BY <2>3, FirstMatchMatches
  <2>5. Route(m, e) # NoHandler
    BY <2>3, <2>4 DEF Route, Candidates, Registered
  <2> QED BY <2>2, <2>5
<1> QED BY <1>1, SpecRouteInv, PTL

\* The endpoint that spells a request out gets it, if the texts of endpoints
\* come before the brace in the order of the map.
THEOREM SpelledOutEndpointsWin ==
  ASSUME WildcardsComeLast
  PROVE  Spec => []SpelledOutEndpointWins
<1>1. RouteInv => SpelledOutEndpointWins
  <2> SUFFICES ASSUME RouteInv, Called,
                      NEW n \in DOMAIN registered, registered[n].method = last.method,
                      Literal(registered[n].endpoint), Fits(registered[n].endpoint, last.target)
               PROVE  Literal(registered[last.handler].endpoint)
    BY DEF SpelledOutEndpointWins
  <2> DEFINE m == last.method
             e == last.target
             p == FirstMatch(m, e)
             q == registered[n].endpoint
  <2>1. /\ m \in Methods /\ e \in Targets /\ p \in Candidates(m, e)
        /\ registered[last.handler].endpoint = p
    BY AnswerOf
  <2>2. q \in Endpoints /\ q \in Candidates(m, e)
    BY <2>1, RegisteredIsCandidate
  <2>3. p \in Endpoints /\ EndpointMatches(p, e) /\ EndpointMatches(q, e)
    BY <2>1, <2>2 DEF Candidates, Registered
  <2>4. Rank[p] <= Rank[q]
    BY <2>1, <2>2, FirstMatchIsFirst
  <2>5. Rank[p] \in Nat /\ Rank[q] \in Nat
    BY <2>2, <2>3, RankAssumption
  <2> SUFFICES ASSUME ~Literal(p) PROVE FALSE
    BY <2>1
  <2>6. Rank[q] < Rank[p]
    <3> HIDE DEF p, q, e, m
    <3> QED BY <2>1, <2>2, <2>3, SpelledOutComesFirst DEF q
  <2> QED BY <2>4, <2>5, <2>6
<1> QED BY <1>1, SpecRouteInv, PTL

\* The parameters, put in the places of the wildcards, give the target back.
THEOREM ParametersGiveTheTargetBack == Spec => []ParametersRebuildTarget
<1>1. RouteInv => ParametersRebuildTarget
  <2> SUFFICES ASSUME RouteInv, Called
               PROVE  Filled(Split[registered[last.handler].endpoint], last.params)
                        = Split[last.target]
    BY DEF ParametersRebuildTarget
  <2> DEFINE e == last.target
             p == FirstMatch(last.method, e)
             ps == Parameters(p, e)
             param(i) == ps[Cardinality({j \in 1..i : IsWildcard(Split[p][j])})]
             filled(i) == IF ~IsWildcard(Split[p][i]) THEN Split[p][i]
                          ELSE IF param(i).name = Split[p][i] THEN param(i).value
                          ELSE <<>>
  <2>1. /\ e \in Targets /\ p \in Candidates(last.method, e)
        /\ registered[last.handler].endpoint = p /\ last.params = ps
    BY AnswerOf
  <2>2. p \in Endpoints /\ EndpointMatches(p, e)
    BY <2>1 DEF Candidates, Registered
  <2>3. ParametersOK(p, e, Len(Split[p])) /\ ps = ParametersLoop(p, e)[Len(Split[p])]
    BY <2>1, <2>2, ParametersFacts DEF Parameters
  <2>4. /\ DOMAIN Split[p] = 1..Len(Split[p]) /\ DOMAIN Split[e] = 1..Len(Split[p])
        /\ Split[e] \in Seq(Segment(Texts)) /\ Len(Split[p]) \in Nat
    BY <2>1, <2>2, SplitFacts DEF EndpointMatches
  <2>5. ASSUME NEW i \in 1..Len(Split[p])
        PROVE  filled(i) = Split[e][i]
    <3>1. CASE ~IsWildcard(Split[p][i])
      BY <2>2, <2>4, <3>1 DEF EndpointMatches
    <3>2. CASE IsWildcard(Split[p][i])
      <4>1. i \in UpTo(p, Len(Split[p])) /\ UpTo(p, i) = {j \in 1..i : IsWildcard(Split[p][j])}
        BY <3>2 DEF UpTo
      <4>2. ps[Cardinality(UpTo(p, i))] = Bound(p, e, i)
        BY <2>3, <4>1 DEF ParametersOK
      <4>3. param(i) = Bound(p, e, i)
        BY <4>1, <4>2
      <4>4. param(i).name = Split[p][i] /\ param(i).value = Split[e][i]
        BY <4>3 DEF Bound
      <4> HIDE DEF param
      <4> QED BY <3>2, <4>4
    <3> QED BY <3>1, <3>2
  <2>6. Filled(Split[p], ps) = [i \in 1..Len(Split[p]) |-> filled(i)]
    BY <2>4 DEF Filled
  <2>7. Split[e] = [i \in 1..Len(Split[p]) |-> Split[e][i]]
    BY <2>4
  <2>8. Filled(Split[p], ps) = Split[e]
    <3> HIDE DEF filled, ps, p, e
    <3> QED BY <2>5, <2>6, <2>7
  <2> QED BY <2>1, <2>8
<1> QED BY <1>1, SpecRouteInv, PTL

\* What matches a target made of p with a foreign text matches p itself.
LEMMA MatchesOriginal ==
  ASSUME NEW p \in Endpoints, NEW q \in Endpoints, NEW e \in Targets,
         AsksOnlyFor(p, e), EndpointMatches(q, e)
  PROVE  EndpointMatches(q, p)
<1>1. Fits(p, e)
  BY DEF AsksOnlyFor
<1>2. PICK z \in Texts : /\ \A f \in Endpoints : \A i \in DOMAIN f : f[i] # z
                         /\ \A i \in DOMAIN Bare(p) : p[i] \in Wildcards => e[i] = z
  BY DEF AsksOnlyFor
<1>3. p \in Path /\ e \in Path /\ p # <<>> /\ e # <<>> /\ p[1] = Slash
  BY SplitFacts, PathAssumption
<1>4. /\ Len(Split[p]) = Len(Split[e])
      /\ \A i \in 1..Len(Split[p]) : Stands({z}, Split[p][i], Split[e][i])
  <2>1. \A i \in DOMAIN Bare(p) : p[i] \in Wildcards => e[i] \in {z}
    BY <1>2
  <2>2. /\ Len(SplitPath(p)) = Len(SplitPath(e))
        /\ \A i \in 1..Len(SplitPath(p)) : Stands({z}, SplitPath(p)[i], SplitPath(e)[i])
    BY <1>1, <1>3, <2>1, FitsStands
  <2> QED BY <2>2, SplitFacts
<1>5. /\ Len(Split[q]) = Len(Split[e]) /\ DOMAIN Split[q] = 1..Len(Split[q])
      /\ \A i \in DOMAIN Split[q] : IsWildcard(Split[q][i]) \/ Split[q][i] = Split[e][i]
  BY SplitFacts DEF EndpointMatches
<1>6. ASSUME NEW i \in DOMAIN Split[q], ~IsWildcard(Split[q][i])
      PROVE  Split[q][i] = Split[p][i]
  <2>1. Split[q][i] = Split[e][i]
    BY <1>5, <1>6
  <2>2. Split[e][i] # <<z>>
    <3>1. Split[q][i] = <<>> \/ \E n \in DOMAIN q : Split[q][i] = <<q[n]>>
      BY SegmentTokens
    <3>2. \A n \in DOMAIN q : q[n] # z
      BY <1>2
    <3>3. <<z>> # <<>> /\ \A t : <<t>> = <<z>> => t = z
      OBVIOUS
    <3> QED BY <2>1, <3>1, <3>2, <3>3
  <2>3. Stands({z}, Split[p][i], Split[e][i])
    BY <1>4, <1>5
  <2> QED BY <2>1, <2>2, <2>3 DEF Stands
<1> QED BY <1>4, <1>5, <1>6 DEF EndpointMatches

\* No endpoint is registered in vain, except behind one that matches all that
\* it matches, if every endpoint is asked for with a text of its own.
THEOREM HandlersAreReachable ==
  ASSUME EveryEndpointIsAskedFor
  PROVE  Spec => []ReachableUnlessCovered
<1>1. ReachableUnlessCovered
  <2> SUFFICES ASSUME NEW m \in Methods, NEW p \in Registered(m)
               PROVE  \/ \E e \in Targets : Route(m, e) = m_handler_map[m][p]
                      \/ \E q \in Registered(m) :
                           q # p /\ EndpointMatches(q, p) /\ Rank[q] < Rank[p]
    BY DEF ReachableUnlessCovered
  <2>1. p \in Endpoints
    BY DEF Registered
  <2>2. PICK e \in Targets : AsksOnlyFor(p, e)
    BY <2>1 DEF EveryEndpointIsAskedFor
  <2> DEFINE q == FirstMatch(m, e)
  <2>3. p \in Candidates(m, e)
    <3>1. EndpointMatches(p, e)
      BY <2>1, <2>2, FitsMatches DEF AsksOnlyFor
    <3> QED BY <3>1 DEF Candidates
  <2>4. q \in Candidates(m, e) /\ Rank[q] <= Rank[p]
    BY <2>3, FirstMatchIsFirst
  <2>5. q \in Registered(m) /\ q \in Endpoints /\ EndpointMatches(q, e)
    BY <2>4 DEF Candidates, Registered
  <2>6. CASE q = p
    BY <2>3, <2>6 DEF Route
  <2>7. CASE q # p
    <3>1. EndpointMatches(q, p)
      BY <2>1, <2>2, <2>5, MatchesOriginal
    <3>2. Rank[q] < Rank[p]
      <4>1. Rank[q] \in Nat /\ Rank[p] \in Nat /\ Rank[q] # Rank[p]
        BY <2>1, <2>5, <2>7, RankAssumption
      <4> HIDE DEF q
      <4> QED BY <2>4, <4>1
    <3> QED BY <2>5, <2>7, <3>1, <3>2
  <2> QED BY <2>6, <2>7
<1> QED BY <1>1, PTL

\* Registering an endpoint moves only requests of its method that it matches.
THEOREM RoutesAreStable == Spec => RoutesChangeOnlyWhereTheyFit
<1> DEFINE Stable ==
      registered' # registered =>
        LET r == registered'[Len(registered')]
        IN  \A m \in Methods, e \in Targets :
              \/ Route(m, e)' = Route(m, e)
              \/ r.method = m /\ EndpointMatches(r.endpoint, e)
<1>1. RouteInv /\ [Next]_vars => Stable
  <2> SUFFICES ASSUME RouteInv, [Next]_vars, registered' # registered,
                      NEW m \in Methods, NEW e \in Targets
               PROVE  \/ Route(m, e)' = Route(m, e)
                      \/ /\ registered'[Len(registered')].method = m
                         /\ EndpointMatches(registered'[Len(registered')].endpoint, e)
    BY Zenon
  <2>1. PICK k \in Methods, p \in Endpoints : RegisterEndpointHandler(k, p)
    BY DEF Next, vars, HandleEndpoint
  <2>2. registered \in Seq(Registration) /\ m_handler_map \in [Methods -> [Endpoints -> Nat]]
    BY DEF RouteInv, MapInv
  <2>3. /\ registered' = Append(registered, [method |-> k, endpoint |-> p])
        /\ m_handler_map' = [m_handler_map EXCEPT ![k][p] = Len(registered) + 1]
    BY <2>1 DEF RegisterEndpointHandler
  <2>4. registered'[Len(registered')] = [method |-> k, endpoint |-> p]
    BY <2>2, <2>3
  <2>5. SUFFICES ASSUME ~(k = m /\ EndpointMatches(p, e))
                 PROVE  Route(m, e)' = Route(m, e)
    BY <2>4
  <2>6. \A q \in Endpoints : EndpointMatches(q, e) => m_handler_map'[m][q] = m_handler_map[m][q]
    BY <2>2, <2>3, <2>5
  <2>7. Candidates(m, e)' = Candidates(m, e)
    <3>1. Candidates(m, e)' = {q \in Endpoints : m_handler_map'[m][q] # NoHandler
                                                  /\ EndpointMatches(q, e)}
      BY DEF Candidates, Registered, EndpointMatches
    <3>2. Candidates(m, e) = {q \in Endpoints : m_handler_map[m][q] # NoHandler
                                                 /\ EndpointMatches(q, e)}
      BY DEF Candidates, Registered
    <3> QED BY <2>6, <3>1, <3>2
  <2>8. FirstMatch(m, e)' = FirstMatch(m, e)
    BY <2>7 DEF FirstMatch
  <2>9. CASE Candidates(m, e) = {}
    BY <2>7, <2>9 DEF Route
  <2>10. CASE Candidates(m, e) # {}
    <3>1. FirstMatch(m, e) \in Endpoints /\ EndpointMatches(FirstMatch(m, e), e)
      <4>1. FirstMatch(m, e) \in Candidates(m, e)
        BY <2>10, FirstMatchMatches
      <4> QED BY <4>1 DEF Candidates, Registered
    <3> QED BY <2>6, <2>7, <2>8, <2>10, <3>1 DEF Route
  <2> QED BY <2>9, <2>10
<1>2. Stable => [Stable]_vars
  OBVIOUS
<1> QED BY <1>1, SpecRouteInv, PTL DEF Spec, RoutesChangeOnlyWhereTheyFit

=============================================================================
