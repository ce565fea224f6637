----------------------------- MODULE HttpParser -----------------------------
(***************************************************************************)
(* What HttpParser makes of the bytes a session has gathered so far.       *)
(*                                                                         *)
(* The bytes are tokens: a request line is <<method, target, tail,         *)
(* version, eol>> (a target in two parts, so that it can be cut), a        *)
(* Content-Length line is <<clen, digit, more, eol>> (a number in two      *)
(* parts), the empty line is <<blank>>, a body is a sequence of <<body>>.  *)
(* A cut inside a token has the same outcome as the cut before it, so      *)
(* tokens are never cut.                                                   *)
(***************************************************************************)
EXTENDS Integers, Sequences, FiniteSets

Kinds == {"method", "target", "tail", "version", "eol", "clen", "digit", "more",
          "blank", "body"}

\* Values of the Content-Length entry of m_headers that are not numbers.
Absent == -1     \* no such header
Refused == -2    \* a text that std::stoul throws on

\* of is the request the token was written for.  num is what std::stoul makes
\* of the value of a Content-Length up to here, of its beginning for digit and
\* of all of it for more.  Without digits at its start, or out of range, it is
\* Refused; text behind the digits is ignored; a minus sign negates modulo
\* 2^64, which gives a number larger than any data.
TokenOf(Ids) == [kind : Kinds, of : Ids, num : Nat \cup {Refused}]

Newline(t) == t.kind \in {"eol", "blank"}

\* Tokens written after a space.
Spaced(t) == t.kind \in {"target", "version", "digit"}

Least(S) == CHOOSE i \in S : \A j \in S : i <= j

Greatest(S) == CHOOSE i \in S : \A j \in S : j <= i

\* The text of a set of adjacent positions.
Text(d, I) == IF I = {} THEN <<>> ELSE SubSeq(d, Least(I), Greatest(I))

-----------------------------------------------------------------------------
(* parse and parse_headers *)

\* Where a line that is empty ends: std::getline stopped at its newline, so
\* the stream is still good and tellg is the position behind it.
HeaderEnds(d) ==
  {i \in DOMAIN d : Newline(d[i]) /\ (i = 1 \/ Newline(d[i - 1]))}

\* m_header_size: -1 when the stream was exhausted before an empty line.
HeaderSize(d) == IF HeaderEnds(d) = {} THEN -1 ELSE Least(HeaderEnds(d))

\* (mutant) the substring starts one position early
PayloadOffByOne(d) ==
  IF HeaderEnds(d) = {} THEN <<>> ELSE SubSeq(d, HeaderSize(d), Len(d))

\* m_payload: everything behind the header block, left empty without one.
Payload(d) ==
  IF HeaderEnds(d) = {} THEN <<>> ELSE SubSeq(d, HeaderSize(d) + 1, Len(d))

\* Where a Content-Length header begins.  The first line of the data is the
\* METHOD entry whatever it looks like.
ClenLines(d) ==
  {i \in DOMAIN d : /\ d[i].kind = "clen"
                    /\ i > 1 /\ Newline(d[i - 1])
                    /\ \A e \in HeaderEnds(d) : i < e}

IsKind(d, i, kind) == i \in DOMAIN d /\ d[i].kind = kind

\* (mutant) a value that is not followed by more digits is dropped
LengthAtWhole(d, i) == IF IsKind(d, i + 2, "more") THEN d[i + 2].num ELSE Refused

\* What std::stoul makes of as much of the value as is there: it throws on an
\* empty one, too.
LengthAt(d, i) ==
  IF ~IsKind(d, i + 1, "digit") THEN Refused
  ELSE IF IsKind(d, i + 2, "more") THEN d[i + 2].num
  ELSE d[i + 1].num

\* m_headers.insert keeps the value an earlier parse of less data put there.
ParsedLength(clen, d) ==
  IF clen # Absent \/ ClenLines(d) = {} THEN clen ELSE LengthAt(d, Least(ClenLines(d)))

-----------------------------------------------------------------------------
(* get_endpoint and get_type: words of the METHOD line, which every parse  *)
(* replaces.                                                               *)

FirstLine(d) == {i \in DOMAIN d : \A j \in 1..i : ~Newline(d[j])}

WordStarts(d) == {i \in FirstLine(d) : i = 1 \/ Spaced(d[i])}

Word(d, n) ==
  Text(d, {i \in FirstLine(d) : Cardinality({w \in WordStarts(d) : w <= i}) = n})

HasEndpoint(d) == Cardinality(WordStarts(d)) >= 2

Endpoint(d) == Word(d, 2)

KnownMethod(d) == Len(Word(d, 1)) = 1 /\ Word(d, 1)[1].kind = "method"

-----------------------------------------------------------------------------
(* HttpSession: is the request complete?                                   *)

\* (mutant) > became >=
WantsMoreOrEqual(clen, d) == clen >= Len(d) - HeaderSize(d)

\* The last test of handle_incoming_http_packet.
WantsMore(clen, d) == clen > Len(d) - HeaderSize(d)

\* get_content_size, where std::stoul may throw, is called before the header
\* size is looked at.  Without a Content-Length the request
\* counts as complete, even if the header block is not; with one, a header
\* size of -1 is compared as an unsigned number and is larger than any data.
Outcome(clen, d) ==
  CASE clen = Absent -> "COMPLETE"
    [] clen = Refused -> "throws"
    [] clen >= 0 /\ HeaderSize(d) = -1 -> "INCOMPLETE"
    [] clen >= 0 /\ HeaderSize(d) # -1 ->
         IF WantsMore(clen, d) THEN "INCOMPLETE" ELSE "COMPLETE"

=============================================================================
