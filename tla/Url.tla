--------------------------------- MODULE Url ---------------------------------
(***************************************************************************)
(* URL: what parse makes of a text, and what to_string makes of a URL.     *)
(*                                                                         *)
(* A text is a sequence of tokens: ":", "/", " ", "-", "+", words (the     *)
(* names of the protocols among them) and numbers.  Two numbers are never  *)
(* adjacent: they would be one.                                            *)
(***************************************************************************)
EXTENDS Integers, Sequences

Blank == " "

Protocols == {"http", "https", "sap"}

\* The greatest port.
MaxPort == 65535

CONSTANTS
  Numbers,      \* tokens that are decimal numbers
  ValueOf,      \* ValueOf[n]: the value of one, MaxPort + 1 for everything above
  DefaultPort   \* the enumerators of iuring for the protocols' ports

ASSUME ValueOfAssumption == ValueOf \in [Numbers -> 0..MaxPort + 1]
ASSUME DefaultPortAssumption == DefaultPort \in [Protocols -> 1..MaxPort]

\* The optional port without a value.
NoPort == -1

\* The public constructor.
Make(protocol, host, port, endpoint) ==
  [error |-> "OK", protocol |-> protocol, host |-> host, endpoint |-> endpoint,
   port |-> IF port = NoPort THEN DefaultPort[protocol] ELSE port]

Unexpected(e) == [error |-> e]

-----------------------------------------------------------------------------
(* Strings.  A position is the number of tokens before it; npos is -1.     *)

Npos == -1

FirstOf(S) == IF S = {} THEN Npos ELSE CHOOSE i \in S : \A j \in S : i <= j

Occurrences(s, mark, pos) ==
  {i \in pos..Len(s) - Len(mark) : SubSeq(s, i + 1, i + Len(mark)) = mark}

\* s.find(mark, pos)
Find(s, mark, pos) == FirstOf(Occurrences(s, mark, pos))

Before(s, pos) == SubSeq(s, 1, pos)

From(s, pos) == SubSeq(s, pos + 1, Len(s))

\* std::stoi: blanks and a sign may come first, anything may follow.  0
\* where it throws, which the caller does not tell from a port below 1; nor
\* does it tell a number that is no int from a port above 65535.
Stoi(s) ==
  LET t == From(s, FirstOf({i \in 0..Len(s) : i = Len(s) \/ s[i + 1] # Blank}))
      NumberAt(i) == IF i \in DOMAIN t /\ t[i] \in Numbers THEN ValueOf[t[i]] ELSE 0
  IN  IF t = <<>> \/ t[1] \notin {"+", "-"} THEN NumberAt(1)
      ELSE IF t[1] = "-" THEN -NumberAt(2) ELSE NumberAt(2)

-----------------------------------------------------------------------------
(* parse *)

\* (mutant) a port that has 17 bits is accepted
ValidPortOffByOne(p) == p > 0 /\ p <= MaxPort + 1

ValidPort(p) == p > 0 /\ p <= MaxPort

\* (mutant) the port is not cut off the host
HostAndPortUncut(protocol, text, endpoint) ==
  LET sep == Find(text, <<":">>, 0)
      port == Stoi(From(text, sep + 1))
  IN  IF (sep # Npos /\ ~ValidPort(port)) \/ text = <<>> THEN Unexpected("RANGE")
      ELSE Make(protocol, text, IF sep = Npos THEN NoPort ELSE port, endpoint)

\* hostname[:port].  The port is looked at before the host is.
HostAndPort(protocol, text, endpoint) ==
  LET sep == Find(text, <<":">>, 0)
      host == IF sep = Npos THEN text ELSE Before(text, sep)
      port == Stoi(From(text, sep + 1))
  IN  IF (sep # Npos /\ ~ValidPort(port)) \/ host = <<>> THEN Unexpected("RANGE")
      ELSE Make(protocol, host, IF sep = Npos THEN NoPort ELSE port, endpoint)

Parse(text) ==
  LET end == Find(text, <<":", "/", "/">>, 0)
      pos == end + 3
      slash == Find(text, <<"/">>, pos)
      hostport == SubSeq(text, pos + 1, IF slash = Npos THEN Len(text) ELSE slash)
      endpoint == IF slash = Npos THEN <<"/">> ELSE From(text, slash)
  IN  IF end = Npos \/ Before(text, end) \notin {<<p>> : p \in Protocols}
        THEN Unexpected("BAD_PPROTOCOL")
        ELSE HostAndPort(text[1], hostport, endpoint)

-----------------------------------------------------------------------------
(* to_string: the port is left out, and only http has its own name. *)

PrintedProtocol(u) == IF u.protocol = "http" THEN "http" ELSE "https"

ToText(u) == <<PrintedProtocol(u), ":", "/", "/">> \o u.host \o u.endpoint

-----------------------------------------------------------------------------
(* What a URL is, without an order in which to look for its parts:         *)
(*     protocol "://" host [":" port] [endpoint]                           *)

None(s, marks) == \A i \in DOMAIN s : s[i] \notin marks

\* The URL that text denotes if its host ends at h and its port part at p.
\* A port part is empty, or a colon and a text that begins with a port.
Split(text, h, p) ==
  [protocol |-> text[1], host |-> SubSeq(text, 5, h),
   port |-> SubSeq(text, h + 1, p), endpoint |-> From(text, p)]

IsUrl(s) ==
  /\ s.host # <<>> /\ None(s.host, {":", "/"})
  /\ \/ s.port = <<>>
     \/ s.port[1] = ":" /\ None(s.port, {"/"}) /\ Stoi(Tail(s.port)) \in 1..MaxPort
  /\ s.endpoint = <<>> \/ s.endpoint[1] = "/"

BeginsWithProtocol(text) ==
  Len(text) >= 4 /\ text[1] \in Protocols /\ SubSeq(text, 2, 4) = <<":", "/", "/">>

\* All the ways in which text is a URL, as pairs of those positions.
Readings(text) ==
  IF ~BeginsWithProtocol(text) THEN {}
    ELSE {r \in (4..Len(text)) \X (4..Len(text)) :
            r[1] <= r[2] /\ IsUrl(Split(text, r[1], r[2]))}

\* The URL of a reading, with what may be left out.
UrlOf(s) ==
  Make(s.protocol, s.host, IF s.port = <<>> THEN NoPort ELSE Stoi(Tail(s.port)),
       IF s.endpoint = <<>> THEN <<"/">> ELSE s.endpoint)

-----------------------------------------------------------------------------
\* What a URL that parse returned has, whatever the text was: a host without
\* separators, a port, an endpoint that begins with a slash.
WellFormed(u) ==
  /\ u.error = "OK"
  /\ u.protocol \in Protocols
  /\ u.port \in 1..MaxPort
  /\ u.host # <<>> /\ None(u.host, {":", "/"})
  /\ u.endpoint # <<>> /\ u.endpoint[1] = "/"

\* u is the one way in which text is a URL, or an error if there is none:
\* which of the two errors depends on the protocol alone.
IsWhatItSays(u, text) ==
  IF u.error = "OK"
    THEN \E r \in Readings(text) :
           Readings(text) = {r} /\ u = UrlOf(Split(text, r[1], r[2]))
    ELSE /\ Readings(text) = {}
         /\ u.error = IF BeginsWithProtocol(text) THEN "RANGE" ELSE "BAD_PPROTOCOL"

\* What to_string prints of u is read as its host and its endpoint, by the
\* printed protocol and at that protocol's port, and printed as it was.
LeadsBack(u) ==
  LET back == Parse(ToText(u))
  IN  /\ back = Make(PrintedProtocol(u), u.host, NoPort, u.endpoint)
      /\ ToText(back) = ToText(u)

=============================================================================
