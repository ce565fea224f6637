------------------------------ MODULE MCRouter ------------------------------
(* Instances of Router for TLC. *)
EXTENDS Router, SequencesExt

\* The tokens by the order of their first characters: "/" comes before the
\* letters and these before "{".  z is a text no endpoint spells out.
Slash_ == 1
a == 2
b == 3
z == 4
x == 5
y == 6

MCTexts == {a, b, z, x, y}

MCWildcards == {x, y}

MCEndpoints ==
  {<<Slash_>>, <<Slash_, a>>, <<Slash_, a, Slash_>>, <<Slash_, x>>,
   <<Slash_, a, Slash_, x>>, <<Slash_, x, Slash_, y>>, <<Slash_, y, Slash_, b>>,
   <<Slash_, y, Slash_, Slash_>>}

MCTargets ==
  {<<Slash_>>, <<Slash_, a>>, <<Slash_, z>>, <<Slash_, z, Slash_>>, <<Slash_, Slash_>>,
   <<Slash_, a, Slash_, b>>, <<Slash_, a, Slash_, z>>, <<Slash_, z, Slash_, b>>,
   <<Slash_, z, Slash_, z, Slash_>>, <<Slash_, Slash_, b>>,
   <<Slash_, z, Slash_, Slash_>>, <<z>>}

\* The order of strings.
Before(s, t) ==
  \/ \E n \in 1..Len(s) :
       /\ n <= Len(t) /\ s[n] < t[n]
       /\ \A i \in 1..n - 1 : s[i] = t[i]
  \/ IsStrictPrefix(s, t)

MCRank == [p \in MCEndpoints |-> Cardinality({q \in MCEndpoints : Before(q, p)})]

\* The hypotheses of the theorems in RouterProofs hold of this instance.
ASSUME HypothesesAssumption == WildcardsComeLast /\ EveryEndpointIsAskedFor

=============================================================================
