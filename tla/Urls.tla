--------------------------------- MODULE Urls ---------------------------------
(***************************************************************************)
(* Callers of the cache write URLs: piece by piece, or with some data that *)
(* they encode.  What parse_url makes of a URL is compared with what a URL *)
(* means.                                                                  *)
(***************************************************************************)
EXTENDS Encoding, UrlParsing, FiniteSets

CONSTANTS
  Protocols,           \* what URLs begin with, before ://
  Pieces, MaxPieces,   \* strings that are put behind it, at most so many
  Chars, MaxChars      \* what the data is made of, and its length

(* Strings are made of character codes, the data of the values of a char,   *)
(* and the first :// of a URL is the one behind its protocol.               *)
OneProtocol(p) ==
  \A n \in 1..(Len(p) - 2) :
    ~ (p[n] = Colon /\ p[n + 1] = Slash /\ p[n + 2] = Slash)

ASSUME UrlsAssumption ==
  /\ Protocols \subseteq Seq(Nat) /\ \A p \in Protocols : OneProtocol(p)
  /\ Pieces \subseteq Seq(Nat)
  /\ Chars \subseteq Char

VARIABLES
  protocol,
  rest,     \* the pieces that follow, as one string
  pieces,   \* how many they are
  data

urlVars == <<protocol, rest, pieces, data>>

UrlsInit ==
  /\ protocol \in Protocols
  /\ rest = <<>>
  /\ pieces = 0
  /\ data = <<>>

AddPiece ==
  /\ data = <<>> /\ pieces < MaxPieces
  /\ \E p \in Pieces : rest' = rest \o p
  /\ pieces' = pieces + 1
  /\ UNCHANGED <<protocol, data>>

AddChar ==
  /\ pieces = 0 /\ Len(data) < MaxChars
  /\ \E c \in Chars : data' = Append(data, c)
  /\ UNCHANGED <<protocol, rest, pieces>>

UrlsNext == AddPiece \/ AddChar

UrlsSpec == UrlsInit /\ [][UrlsNext]_urlVars

-----------------------------------------------------------------------------
(* What a URL means.                                                        *)

Joined(p, r) == p \o <<Colon, Slash, Slash>> \o r

Url == Joined(protocol, rest)

WebProtocol == Lower(protocol) \in {Http, Https}

(* The place of the first of delimiters in s, or the end. *)
Place(s, delimiters) ==
  CHOOSE n \in 1..(Len(s) + 1) :
    /\ n = Len(s) + 1 \/ s[n] \in delimiters
    /\ \A i \in 1..(n - 1) : s[i] \notin delimiters

Before(s, delimiters) == SubSeq(s, 1, Place(s, delimiters) - 1)

After(s, delimiters) == From(s, Place(s, delimiters) + 1)

Authority == Before(rest, {Slash, Question, Hash})

NamedHost == Before(Authority, {Colon})

(* The service that is named, or the one of the protocol. *)
NamedService ==
  LET service == After(Authority, {Colon})
  IN  IF service = <<>> THEN Lower(protocol) ELSE service

(* protocol://host[:port]/path[?query]: what a client asks a server for.    *)
HasPath ==
  /\ Authority = Before(rest, {Slash})
  /\ Slash \in Range(rest)
  /\ Hash \notin Range(rest)

PathAndQuery == From(rest, Len(Authority) + 1)

(* What an endpoint of the network is known by: a host, the number or name  *)
(* of a service, and whether the transport is secure.                       *)
Endpoint(host, service, tls) ==
  [host |-> host, tls |-> tls,
   service |-> CASE Lower(service) = Http  -> Port80
                 [] Lower(service) = Https -> Port443
                 [] OTHER                  -> service]

NamedEndpoint == Endpoint(NamedHost, NamedService, Lower(protocol) = Https)

(* Where a connection object with that key connects to. *)
KeyEndpoint(key) == Endpoint(key.hostname, key.port, key.scheme = "tls")

-----------------------------------------------------------------------------
(* Properties                                                               *)

UrlsTypeOK ==
  /\ protocol \in Protocols
  /\ rest \in Seq(Nat)
  /\ data \in Seq(Char)

(* A URL with a path and no fragment is read as the generic syntax of URLs  *)
(* reads it, whatever the backtracking of url_regex tries first: its host,  *)
(* its port and all of its path and query arrive in the key and the target, *)
(* and it is refused only if its protocol is not of the web, its host is    *)
(* empty or it holds a space.  The errors of deduce_port and deduce_scheme  *)
(* come up for no URL.                                                      *)
ParseAgrees ==
  LET parsed == parse_url(Url)
      key    == parsed.value.key
      sound  == WebProtocol /\ NamedHost # <<>> /\ Space \notin Range(rest)
  IN  /\ parsed.error \in {"none", "invalid url"}
      /\ HasPath =>
           /\ parsed.error = "none" <=> sound
           /\ sound => /\ key.hostname = NamedHost
                       /\ key.port = NamedService
                       /\ parsed.value.target = PathAndQuery

(* The target of a request line is never empty.  connection_cache_impl::call *)
(* passes on the target of parse_url unchanged, which is empty for a URL     *)
(* without a path: the one README.md:31-32 shows.                            *)
AcceptedUrlHasTarget ==
  LET parsed == parse_url(Url)
  IN  parsed.error = "none" => parsed.value.target # <<>>

(* Calls are given the same connection when their keys are equal, so a key  *)
(* must say all about the endpoint: it leads where the URL leads, whatever  *)
(* else is spelled like a protocol or a port.  It does so unless a query or *)
(* a fragment follows the authority with no slash between.                  *)
KeyLeadsToEndpoint ==
  LET parsed == parse_url(Url)
  IN  parsed.error = "none" /\ Authority = Before(rest, {Slash})
        => KeyEndpoint(parsed.value.key) = NamedEndpoint

(* What a server reads out of an encoded string. *)
HexValue(d) == IF d < 65 THEN d - 48 ELSE d - 55

(* s can be cut into one piece for each byte, a char or % and two digits.   *)
Decodes(s, bytes) ==
  \E cut \in [1..(Len(bytes) + 1) -> 1..(Len(s) + 1)] :
    /\ cut[1] = 1 /\ cut[Len(bytes) + 1] = Len(s) + 1
    /\ \A i \in 1..Len(bytes) :
         LET c == cut[i]
         IN  /\ c <= Len(s)
             /\ IF s[c] = 37
                  THEN /\ cut[i + 1] = c + 3
                       /\ bytes[i] = 16 * HexValue(s[c + 1]) + HexValue(s[c + 2])
                  ELSE /\ cut[i + 1] = c + 1
                       /\ bytes[i] = s[c]

(* Data that a caller encodes comes out again at the server, as a part of   *)
(* the path and as the query, for every char: parse_url accepts the URL and *)
(* nothing in the data is taken for a delimiter.                            *)
EncodedDataArrives ==
  pieces = 0 =>
  LET bytes  == [n \in DOMAIN data |-> data[n] % 256]
      parsed == parse_url(Joined(Http, <<104, Slash>> \o urlencode(data)
                                         \o <<Question>> \o urlencode(data)))
  IN  /\ parsed.error = "none"
      /\ LET target == parsed.value.target
             path   == Before(target, {Question, Hash})
             query  == Before(After(target, {Question}), {Hash})
         IN  /\ Decodes(From(path, 2), bytes)
             /\ Decodes(query, bytes)
=============================================================================
