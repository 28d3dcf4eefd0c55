------------------------------ MODULE UrlParsing ------------------------------
(***************************************************************************)
(* How connection_cache_impl makes a connection_key and a request target   *)
(* of a URL.  A string is the sequence of its ASCII codes, because what a  *)
(* character is decides where the URL is split.                            *)
(***************************************************************************)
EXTENDS Naturals, Sequences

Space == 32
Hash == 35
Slash == 47
Colon == 58
Question == 63

Http == <<104, 116, 116, 112>>
Https == <<104, 116, 116, 112, 115>>
Port80 == <<56, 48>>
Port443 == <<52, 52, 51>>

(* boost::algorithm::iequals, in the classic locale. *)
Lower(s) == [i \in DOMAIN s |-> IF s[i] \in 65..90 THEN s[i] + 32 ELSE s[i]]

iequals(s, t) == Lower(s) = Lower(t)

From(s, i) == SubSeq(s, i, Len(s))

-----------------------------------------------------------------------------
(* An error that is thrown, told apart by its message. *)
Thrown(message) == [error |-> message]

Value(v) == [error |-> "none", value |-> v]

deduce_port(scheme, port) ==
  IF port # <<>>
    THEN Value(port)
    ELSE CASE iequals(scheme, Http)  -> Value(Http)
           [] iequals(scheme, Https) -> Value(Https)
           [] OTHER                  -> Thrown("can't deduce port")

(* Mutant: the service of a URL decides before its scheme does. *)
deduce_scheme_of_port(scheme, port) ==
  CASE iequals(port, Http) \/ iequals(port, Port80)    -> Value("tcp")
    [] iequals(port, Https) \/ iequals(port, Port443)  -> Value("tls")
    [] OTHER -> IF iequals(scheme, Https) THEN Value("tls") ELSE Value("tcp")

deduce_scheme(scheme, port) ==
  IF scheme = <<>>
    THEN CASE port = <<>>                                     -> Value("tcp")
           [] iequals(port, Http) \/ iequals(port, Port80)    -> Value("tcp")
           [] iequals(port, Https) \/ iequals(port, Port443)  -> Value("tls")
           [] OTHER -> Thrown("cannot deduce transport")
    ELSE CASE iequals(scheme, Http)  -> Value("tcp")
           [] iequals(scheme, Https) -> Value("tls")
           [] OTHER                  -> Thrown("invalid scheme")

-----------------------------------------------------------------------------
(* url_regex.  A match is given by the lengths of the protocol, the host,   *)
(* the optional colon and the port; what follows is the target.  Groups 5   *)
(* to 7 divide the target, which code does not use: the last of them takes  *)
(* whatever the others leave, and none of them takes a space.               *)

Without(s, i, j, class) == \A n \in i..j : s[n] \notin class

(* Mutant: the port may extend over the path. *)
PortEndsAtSpace == {Space}

HostDelimiters == {Slash, Space, Colon}

PortDelimiters == {Slash, Space}

ProtocolLengths(url) ==
  {n \in {Len(Http), Len(Https)} :
     /\ n + 3 <= Len(url)
     /\ Lower(SubSeq(url, 1, n)) \in {Http, Https}
     /\ SubSeq(url, n + 1, n + 3) = <<Colon, Slash, Slash>>}

Matches(url) ==
  {m \in ProtocolLengths(url) \X (1..Len(url)) \X (0..1) \X (0..Len(url)) :
     LET host   == m[1] + 4
         colon  == host + m[2]
         port   == colon + m[3]
         target == port + m[4]
     IN  /\ target <= Len(url) + 1
         /\ Without(url, host, colon - 1, HostDelimiters)
         /\ m[3] = 1 => url[colon] = Colon
         /\ Without(url, port, target - 1, PortDelimiters)
         /\ Without(url, target, Len(url), {Space})}

(* m is tried before n: each quantifier goes as far as it can at first. *)
TriedBefore(m, n) ==
  \E i \in 2..4 : m[i] > n[i] /\ \A j \in 2..(i - 1) : m[j] = n[j]

(* regex_match takes the first match it finds.  Only one of the protocols   *)
(* is followed by ://.                                                      *)
FirstMatch(matches) ==
  CHOOSE m \in matches : \A n \in matches \ {m} : TriedBefore(m, n)

parse_url(url) ==
  LET matches == Matches(url) IN
  IF matches = {} THEN Thrown("invalid url") ELSE
    LET m        == FirstMatch(matches)
        colon    == m[1] + 4 + m[2]
        end      == colon + m[3] + m[4]
        protocol == SubSeq(url, 1, m[1])
        port_ind == SubSeq(url, colon + m[3], end - 1)
        port     == deduce_port(protocol, port_ind)
        scheme   == deduce_scheme(protocol, port_ind)
    IN  IF port.error # "none" THEN port
        ELSE IF scheme.error # "none" THEN scheme
        ELSE Value([key    |-> [hostname |-> SubSeq(url, m[1] + 4, colon - 1),
                                port     |-> port.value,
                                scheme   |-> scheme.value],
                    target |-> From(url, end)])
=============================================================================
