------------------------------- MODULE Router -------------------------------
(***************************************************************************)
(* The endpoint handlers of HttpServer: registration, the order in which   *)
(* find_handler tries the registered endpoints, wildcards and the URL      *)
(* parameters they bind.                                                   *)
(*                                                                         *)
(* An endpoint is a sequence of slashes and texts, one text at most        *)
(* between two slashes; the first token of a target without a leading      *)
(* slash is its first character.  A text that begins with a brace is a     *)
(* wildcard in an endpoint that was registered; in a request every text    *)
(* stands for itself.                                                      *)
(***************************************************************************)
EXTENDS Integers, Sequences, FiniteSets

CONSTANTS
  Methods,
  Slash,             \* the separator
  Texts,             \* the texts between slashes
  Wildcards,         \* the texts that begin with a brace
  Endpoints,         \* the endpoints that may be registered
  Targets,           \* the endpoints that may be asked for
  Rank,              \* the order of the std::map, which is that of its strings
  MaxRegistrations   \* bound: how often register_endpoint_handler is called

Path == {e \in Seq(Texts \cup {Slash}) : \A n \in 2..Len(e) - 1 : Slash \in {e[n], e[n + 1]}}

ASSUME SlashAssumption == Slash \notin Texts /\ Wildcards \subseteq Texts
ASSUME PathAssumption ==
  /\ \A p \in Endpoints : p \in Path /\ p # <<>> /\ p[1] = Slash
  /\ \A e \in Targets : e \in Path /\ e # <<>>
ASSUME RankAssumption ==
  /\ Rank \in [Endpoints -> Nat]
  /\ \A p, q \in Endpoints : Rank[p] = Rank[q] => p = q
ASSUME MaxAssumption == MaxRegistrations \in Nat

VARIABLES
  m_handler_map,   \* m_handler_map[m][p]: the handler of p, a number, or NoHandler
  registered,      \* bookkeeping: the registrations, the n-th one is of handler n
  last,            \* bookkeeping: the last request since then and its handler
  aborted          \* has an assertion failed?

vars == <<m_handler_map, registered, last, aborted>>

NoHandler == 0

Registration == [method : Methods, endpoint : Endpoints]

-----------------------------------------------------------------------------
\* The segments closed by a slash so far, and the open one.
NothingRead == [closed |-> <<>>, open |-> <<>>]

SplitStep(s, t) ==
  IF t = Slash THEN [closed |-> Append(s.closed, s.open), open |-> <<>>]
               ELSE [closed |-> s.closed, open |-> Append(s.open, t)]

\* The loop of split, after each character.  The first one is skipped,
\* whatever it is.
SplitLoop(e) ==
  LET after[n \in 1..Len(e)] ==
        IF n = 1 THEN NothingRead ELSE SplitStep(after[n - 1], e[n])
  IN  after

\* An empty segment at the end is dropped.
Segments(s) == IF s.open = <<>> THEN s.closed ELSE Append(s.closed, s.open)

\* (mutant) the last segment is dropped when no slash follows it
SplitPathClosed(e) == SplitLoop(e)[Len(e)].closed

\* split
SplitPath(e) == Segments(SplitLoop(e)[Len(e)])

Split == [e \in Endpoints \cup Targets |-> SplitPath(e)]

IsWildcard(segment) == segment # <<>> /\ segment[1] \in Wildcards

\* (mutant) a wildcard also matches any target that goes on
EndpointMatchesPrefix(p, e) ==
  /\ Len(Split[p]) <= Len(Split[e])
  /\ \A i \in DOMAIN Split[p] : IsWildcard(Split[p][i]) \/ Split[p][i] = Split[e][i]

\* endpoint_matches, the test.
EndpointMatches(p, e) ==
  /\ Len(Split[p]) = Len(Split[e])
  /\ \A i \in DOMAIN Split[p] : IsWildcard(Split[p][i]) \/ Split[p][i] = Split[e][i]

\* (mutant) the texts that are spelled out are stored as well
ParametersAll(p, e) ==
  [i \in DOMAIN Split[p] |-> [name |-> Split[p][i], value |-> Split[e][i]]]

\* endpoint_matches, the parameters: one for each wildcard, in order.
ParametersLoop(p, e) ==
  LET after[i \in 0..Len(Split[p])] ==
        IF i = 0 THEN <<>>
        ELSE IF IsWildcard(Split[p][i])
               THEN Append(after[i - 1], [name |-> Split[p][i], value |-> Split[e][i]])
               ELSE after[i - 1]
  IN  after

Parameters(p, e) == ParametersLoop(p, e)[Len(Split[p])]

Registered(m) == {p \in Endpoints : m_handler_map[m][p] # NoHandler}

Candidates(m, e) == {p \in Registered(m) : EndpointMatches(p, e)}

\* (mutant) the last match wins
FirstMatchLast(m, e) ==
  CHOOSE p \in Candidates(m, e) : \A q \in Candidates(m, e) : Rank[q] <= Rank[p]

\* find_handler tries the endpoints in the order of the map.
FirstMatch(m, e) ==
  CHOOSE p \in Candidates(m, e) : \A q \in Candidates(m, e) : Rank[p] <= Rank[q]

\* find_handler: the handler, and the parameters of the match it was found by.
Route(m, e) ==
  IF Candidates(m, e) = {} THEN NoHandler ELSE m_handler_map[m][FirstMatch(m, e)]

RouteParameters(m, e) ==
  IF Candidates(m, e) = {} THEN <<>> ELSE Parameters(FirstMatch(m, e), e)

-----------------------------------------------------------------------------
Parameter == [name : Seq(Wildcards), value : Seq(Texts)]

NoRequest == [method |-> "none"]

Request == [method : Methods, target : Targets, handler : Nat, params : Seq(Parameter)]

Init ==
  /\ m_handler_map = [m \in Methods |-> [p \in Endpoints |-> NoHandler]]
  /\ registered = <<>>
  /\ last = NoRequest
  /\ aborted = FALSE

\* (mutant) std::map's insert keeps the entry that is there
RegisterEndpointHandlerInsert(m, p) ==
  /\ ~aborted
  /\ Len(registered) < MaxRegistrations
  /\ registered' = Append(registered, [method |-> m, endpoint |-> p])
  /\ m_handler_map' = IF p \in Registered(m) THEN m_handler_map
                      ELSE [m_handler_map EXCEPT ![m][p] = Len(registered) + 1]
  /\ last' = NoRequest
  /\ UNCHANGED aborted

\* (mutant) the method is forgotten
RegisterEndpointHandlerAllMethods(m, p) ==
  /\ ~aborted
  /\ Len(registered) < MaxRegistrations
  /\ registered' = Append(registered, [method |-> m, endpoint |-> p])
  /\ m_handler_map' = [k \in Methods |-> [m_handler_map[k] EXCEPT ![p] = Len(registered) + 1]]
  /\ last' = NoRequest
  /\ UNCHANGED aborted

\* register_endpoint_handler, with a handler of its own each time.
RegisterEndpointHandler(m, p) ==
  /\ ~aborted
  /\ Len(registered) < MaxRegistrations
  /\ registered' = Append(registered, [method |-> m, endpoint |-> p])
  /\ m_handler_map' = [m_handler_map EXCEPT ![m][p] = Len(registered) + 1]
  /\ last' = NoRequest
  /\ UNCHANGED aborted

\* find_handler for a request.  split asserts that the target begins with a
\* slash, and is called once for each endpoint that is tried; whether assert
\* is compiled in depends on the build.
HandleEndpoint(m, e) ==
  /\ ~aborted
  /\ \/ /\ e[1] # Slash /\ Registered(m) # {}
        /\ aborted' = TRUE
        /\ UNCHANGED last
     \/ /\ last' = [method |-> m, target |-> e,
                     handler |-> Route(m, e), params |-> RouteParameters(m, e)]
        /\ UNCHANGED aborted
  /\ UNCHANGED <<m_handler_map, registered>>

Next == \E m \in Methods :
  \/ \E p \in Endpoints : RegisterEndpointHandler(m, p)
  \/ \E e \in Targets : HandleEndpoint(m, e)

Spec == Init /\ [][Next]_vars

-----------------------------------------------------------------------------
\* The shape of the state.
TypeOK ==
  /\ m_handler_map \in [Methods -> [Endpoints -> 0..Len(registered)]]
  /\ registered \in Seq(Registration)
  /\ last \in Request \cup {NoRequest}
  /\ aborted \in BOOLEAN

Called == last # NoRequest /\ last.handler # NoHandler

\* register_endpoint_handler: "repeated calls for the same endpoint will
\* override the earlier registered endpoint handler".  The handler a request
\* goes to was registered for its method and is the last one registered for
\* its endpoint.
LatestHandlerIsCalled ==
  Called =>
    /\ registered[last.handler].method = last.method
    /\ \A n \in last.handler + 1 .. Len(registered) : registered[n] # registered[last.handler]

\* The parameters are what the wildcards stand for: put in their places they
\* give back the segments of the target, each under its own name.
Filled(segments, params) ==
  LET upto(i) == {j \in 1..i : IsWildcard(segments[j])}
      param(i) == params[Cardinality(upto(i))]
  IN  [i \in DOMAIN segments |->
         IF ~IsWildcard(segments[i]) THEN segments[i]
         ELSE IF param(i).name = segments[i] THEN param(i).value
         ELSE <<>>]

ParametersRebuildTarget ==
  Called => Filled(Split[registered[last.handler].endpoint], last.params) = Split[last.target]

\* What endpoints and targets mean, without split: e is p with texts for the
\* wildcards, and a slash at the end makes no difference.
Bare(e) ==
  IF Len(e) > 1 /\ e[Len(e)] = Slash /\ e[Len(e) - 1] # Slash
    THEN SubSeq(e, 1, Len(e) - 1) ELSE e

Fits(p, e) ==
  /\ Len(Bare(p)) = Len(Bare(e))
  /\ \A i \in DOMAIN Bare(p) :
       \/ Bare(p)[i] = Bare(e)[i]
       \/ Bare(p)[i] \in Wildcards /\ Bare(e)[i] \in Texts

Literal(p) == \A i \in DOMAIN p : p[i] \notin Wildcards

\* A request is answered with NOT_FOUND only if no endpoint that was ever
\* registered for its method fits it.
NotFoundOnlyIfNothingFits ==
  last # NoRequest /\ last.handler = NoHandler =>
    \A n \in DOMAIN registered :
      registered[n].method = last.method => ~Fits(registered[n].endpoint, last.target)

\* What the order of the map gives when no text that is spelled out begins
\* with a brace or a later character: "|", "}", "~" or one that is not ASCII.
WildcardsComeLast ==
  \A p, q \in Endpoints : \A n \in DOMAIN p \cap DOMAIN q :
    /\ \A i \in 1..n - 1 : p[i] = q[i]
    /\ p[n] \in Wildcards /\ q[n] \notin Wildcards
    => Rank[q] < Rank[p]

\* Wildcards never take a request away from the endpoint that is spelled out
\* in it, whatever was registered first.
SpelledOutEndpointWins ==
  Called /\ (\E n \in DOMAIN registered :
               /\ registered[n].method = last.method
               /\ Literal(registered[n].endpoint)
               /\ Fits(registered[n].endpoint, last.target)) =>
    Literal(registered[last.handler].endpoint)

\* e asks for p with a text for its wildcards that no endpoint spells out.
AsksOnlyFor(p, e) ==
  /\ Fits(p, e)
  /\ \E z \in Texts :
       /\ \A q \in Endpoints : \A i \in DOMAIN q : q[i] # z
       /\ \A i \in DOMAIN Bare(p) : p[i] \in Wildcards => e[i] = z

EveryEndpointIsAskedFor == \A p \in Endpoints : \E e \in Targets : AsksOnlyFor(p, e)

\* A handler is called for some request unless its endpoint, read as a
\* target, is matched by one that comes before it in the order of the
\* strings.  (A wildcard matches an empty segment, too: with "/{x}/{y}" before
\* it, "/{y}//" is never reached.)
ReachableUnlessCovered ==
  \A m \in Methods : \A p \in Registered(m) :
    \/ \E e \in Targets : Route(m, e) = m_handler_map[m][p]
    \/ \E q \in Registered(m) : q # p /\ EndpointMatches(q, p) /\ Rank[q] < Rank[p]

\* A registration changes where a request goes only if the request has its
\* method and fits its endpoint.
RoutesChangeOnlyWhereTheyFit ==
  [][registered' # registered =>
       LET r == registered'[Len(registered')]
       IN  \A m \in Methods, e \in Targets :
             \/ Route(m, e)' = Route(m, e)
             \/ r.method = m /\ EndpointMatches(r.endpoint, e)]_vars

=============================================================================
