---------------------------- MODULE RequestLedger ----------------------------
(***************************************************************************)
(* What HttpClientManager promises its users, without clients, sockets or  *)
(* completions: a request that was made is answered exactly once, with an  *)
(* answer of its own.  A handler that is given an answer may make further  *)
(* requests in the same step.                                              *)
(***************************************************************************)
EXTENDS Sequences

CONSTANTS
  Requests,   \* the requests that may be made
  Own         \* Own[r]: the answers that are r's own

VARIABLES
  issued,     \* the requests made so far
  results     \* results[r]: the answers r's handler was given

ledgerVars == <<issued, results>>

Init ==
  /\ issued = {}
  /\ results = [r \in Requests |-> <<>>]

Issue(new) ==
  /\ issued' = issued \cup new
  /\ UNCHANGED results

Answer(r, new) ==
  /\ r \in issued
  /\ results[r] = <<>>
  /\ \E a \in Own[r] : results' = [results EXCEPT ![r] = <<a>>]
  /\ issued' = issued \cup new

Next ==
  \E new \in SUBSET Requests :
    \/ Issue(new)
    \/ \E r \in Requests : Answer(r, new)

SafeSpec == Init /\ [][Next]_ledgerVars

Fairness == \A r \in Requests : WF_ledgerVars(\E new \in SUBSET Requests : Answer(r, new))

Spec == SafeSpec /\ Fairness
=============================================================================
