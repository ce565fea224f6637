----------------------------- MODULE RemoteCall -----------------------------
(***************************************************************************)
(* What the library's client and server promise together: at most once.    *)
(* A request is handed to the server's endpoint handlers at most once, as  *)
(* it was meant, its caller gets at most one result, and a result that is  *)
(* a response means that the request was handled.  An error means nothing: *)
(* the request may have been handled, and it may still be.                 *)
(***************************************************************************)
EXTENDS Sequences

CONSTANTS
  Requests,   \* the requests that may be made
  Meant       \* Meant[r]: what r's handler has to be given

VARIABLES
  called,     \* the requests made so far
  handled,    \* handled[r]: what was handed over for r
  returned    \* returned[r]: "nothing", "response" or "error"

callVars == <<called, handled, returned>>

Init ==
  /\ called = {}
  /\ handled = [r \in Requests |-> <<>>]
  /\ returned = [r \in Requests |-> "nothing"]

Call(new) ==
  /\ called' = called \cup new
  /\ UNCHANGED <<handled, returned>>

Handle(r) ==
  /\ r \in called
  /\ handled[r] = <<>>
  /\ handled' = [handled EXCEPT ![r] = <<Meant[r]>>]
  /\ UNCHANGED <<called, returned>>

\* Whoever gets a result may call again in the same step.
Return(r, new) ==
  /\ r \in called
  /\ returned[r] = "nothing"
  /\ \/ handled[r] # <<>> /\ returned' = [returned EXCEPT ![r] = "response"]
     \/ returned' = [returned EXCEPT ![r] = "error"]
  /\ called' = called \cup new
  /\ UNCHANGED handled

Next ==
  \/ \E r \in Requests : Handle(r)
  \/ \E new \in SUBSET Requests : Call(new) \/ \E r \in Requests : Return(r, new)

SafeSpec == Init /\ [][Next]_callVars

=============================================================================
