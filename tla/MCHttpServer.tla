---------------------------- MODULE MCHttpServer ----------------------------
(* Instances of HttpServer for TLC. *)
EXTENDS HttpServer, TLC

CONSTANTS c1, c2, p1, p2

\* A script gives a client's requests: without a Content-Length, with one, or
\* with one that is out of range.
CONSTANT Script

\* A number that is larger than any data.
Huge == 1000

\* What std::stoul makes of the beginning of a length and of all of it: of 12,
\* and of a number of more digits than it takes.
Length == [POST |-> <<1, 2>>, LARGE |-> <<Huge, Refused>>]

Tok(q, kind, num) == [kind |-> kind, of |-> q, num |-> num]

\* A body of two parts, and a Content-Length in two; none behind a bad one.
Wire(q, request) ==
  <<Tok(q, "method", 0), Tok(q, "target", 0), Tok(q, "tail", 0),
    Tok(q, "version", 0), Tok(q, "eol", 0)>>
  \o (IF request # "GET"
        THEN <<Tok(q, "clen", 0), Tok(q, "digit", Length[request][1]),
               Tok(q, "more", Length[request][2]), Tok(q, "eol", 0)>>
        ELSE <<>>)
  \o <<Tok(q, "blank", 0)>>
  \o (IF request = "POST" THEN <<Tok(q, "body", 0), Tok(q, "body", 0)>> ELSE <<>>)

MCIds == {<<c, k>> : c \in Conns, k \in 1..3}

\* The first k requests of c.
Prefix(c) ==
  LET p[k \in 0..Len(Script[c])] ==
        IF k = 0 THEN <<>> ELSE p[k - 1] \o Wire(<<c, k>>, Script[c][k])
  IN  p

MCStream == [c \in Conns |-> Prefix(c)[Len(Script[c])]]

MCEnds == [c \in Conns |-> [k \in 1..Len(Script[c]) |-> Len(Prefix(c)[k])]]

\* The first client posts, then gets; the second one only gets.
PostGet == (c1 :> <<"POST", "GET">>) @@ (c2 :> <<"GET">>)

\* One client posts, gets and posts, the other one gets.
Mixed == (c1 :> <<"POST", "GET", "POST">>) @@ (c2 :> <<"GET", "POST">>)

\* The second client's length is one that std::stoul refuses in the end.
PostGetLarge == (c1 :> <<"POST", "GET">>) @@ (c2 :> <<"LARGE">>)

OwnPorts == (c1 :> p1) @@ (c2 :> p2)

\* The second client's first request has no handler.
MCRouted == MCIds \ {<<c2, 1>>}

\* The streams of the other instances are what the theorems about whole
\* requests are about.
ASSUME InstanceAssumption == Script # PostGetLarge => WellFormedStreams

\* Packets end behind a header block or inside a body.
BodyCuts == {"blank", "body"}

=============================================================================
