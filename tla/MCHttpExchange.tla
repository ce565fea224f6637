--------------------------- MODULE MCHttpExchange ---------------------------
(* Instances of HttpExchange for TLC. *)
EXTENDS HttpExchange

CONSTANTS r1, r2, h1

MCDest == [r \in Requests |-> h1]

Tok(q, kind, num) == [kind |-> kind, of |-> q, num |-> num]

\* What HttpClient writes: always a Content-Length, here of one digit, and a
\* body of that many parts.
Request(q, body) ==
  <<Tok(q, "method", 0), Tok(q, "target", 0), Tok(q, "tail", 0),
    Tok(q, "version", 0), Tok(q, "eol", 0),
    Tok(q, "clen", 0), Tok(q, "digit", body), Tok(q, "eol", 0), Tok(q, "blank", 0)>>
  \o [i \in 1..body |-> Tok(q, "body", 0)]

\* One request has a payload, the other one has none and no handler.
MCStream == [r \in Requests |-> Request(r, IF r = r1 THEN 2 ELSE 0)]

MCRouted == {r1}

\* Packets end behind a header block, in a body, and inside a header block,
\* with a cut for each thing that this can do: the first line has no endpoint
\* yet, there is no Content-Length yet (behind the target or the end of the line
\* it is the same), or one without its value.
HeaderCuts == {"blank", "body", "method", "version", "clen"}

=============================================================================
