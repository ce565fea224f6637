------------------------- MODULE MCHttpClientManager -------------------------
(* Instances of HttpClientManager for TLC. *)
EXTENDS HttpClientManager

CONSTANTS r1, r2, r3, h1, h2

\* Two requests to one host and one to another, so that a mix-up of requests
\* and a mix-up of hosts can be told apart.
MCDest == [r \in Requests |-> IF r = r3 THEN h2 ELSE h1]

=============================================================================
