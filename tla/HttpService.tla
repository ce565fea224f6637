----------------------------- MODULE HttpService -----------------------------
(***************************************************************************)
(* What HttpServer promises: the requests of a connection are handed to    *)
(* the endpoint handlers whole, once each and in the order they were sent, *)
(* and each of them is answered once, when its handler gets to it.         *)
(***************************************************************************)
EXTENDS Naturals, Sequences

CONSTANTS
  Conns,      \* connections
  Requests    \* Requests[c]: the requests c's client sends, in order

VARIABLES
  handed,     \* handed[c]: the requests handed to handlers
  answered    \* answered[c]: the numbers of the requests answered, in order

serviceVars == <<handed, answered>>

Init ==
  /\ handed = [c \in Conns |-> <<>>]
  /\ answered = [c \in Conns |-> <<>>]

Unanswered(c, k) == \A i \in 1..Len(answered[c]) : answered[c][i] # k

Handle(c) ==
  /\ Len(handed[c]) < Len(Requests[c])
  /\ handed' = [handed EXCEPT ![c] = Append(@, Requests[c][Len(@) + 1])]
  /\ \/ UNCHANGED answered
     \/ answered' = [answered EXCEPT ![c] = Append(@, Len(handed[c]) + 1)]

Answer(c, k) ==
  /\ k \in 1..Len(handed[c])
  /\ Unanswered(c, k)
  /\ answered' = [answered EXCEPT ![c] = Append(@, k)]
  /\ UNCHANGED handed

AnswerSome(c) == \E k \in 1..Len(handed[c]) : Answer(c, k)

Next == \E c \in Conns : Handle(c) \/ AnswerSome(c)

SafeSpec == Init /\ [][Next]_serviceVars

Fairness == \A c \in Conns : WF_serviceVars(Handle(c)) /\ WF_serviceVars(AnswerSome(c))

Spec == SafeSpec /\ Fairness
=============================================================================
