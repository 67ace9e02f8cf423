---------------------------- MODULE ConnectionUri ----------------------------
(***************************************************************************)
(* uri.rs and the routing of service.rs: a connection string is taken      *)
(* apart into scheme, hosts and the two options that matter here.          *)
(*                                                                         *)
(* A string is a sequence of tokens, a token the sequence of its           *)
(* dot-separated labels; the delimiters are tokens of their own.           *)
(***************************************************************************)
EXTENDS Text, Results

CONSTANT
  Numerals   \* the tokens that are decimal numbers, with their values

T(label) == <<label>>

ConnectionUriError ==
  {"MissingScheme", "UnsupportedScheme", "MissingHost", "InvalidPort", "InvalidTlsValue",
   "ConflictingTlsSsl", "InvalidSrvHost", "SrvServiceNameOnNonSrv", "InvalidHost"}

ParseU16(s) == {Numerals[n] : n \in {w \in DOMAIN Numerals : s = <<w>> /\ Numerals[w] < 2^16}}

-----------------------------------------------------------------------------
(* Options of the query string *)

\* The values given to one option, in order; a pair without `=` is skipped.
Values(query, key) ==
  LET pairs == IF query = {} THEN <<>> ELSE Split(Sole(query), T("&"))
      hits == SelectSeq(pairs, LAMBDA p :
                \E cut \in SplitOnce(p, T("=")) : Lowered(cut[1]) = <<T(key)>>)
  IN  [i \in DOMAIN hits |-> Sole(SplitOnce(hits[i], T("=")))[2]]

ParseBool(v) ==
  {b \in BOOLEAN : Lowered(v) = <<T(IF b THEN "true" ELSE "false")>>}

\* The last occurrence of an option wins.
LastWins(vs) == {vs[i] : i \in {Len(vs)} \cap DOMAIN vs}

ParseTlsOption(query) ==
  LET tls == Values(query, "tls")
      ssl == Values(query, "ssl")
      all == UNION {ParseBool(v) : v \in LastWins(tls) \cup LastWins(ssl)}
  IN  IF \E v \in ToSet(tls \o ssl) : ParseBool(v) = {} THEN Err("InvalidTlsValue")
      ELSE IF all = BOOLEAN THEN Err("ConflictingTlsSsl")
      ELSE Ok(all)

ParseSrvServiceName(query) ==
  LastWins(SelectSeq(Values(query, "srvservicename"), LAMBDA v : v # <<>>))

-----------------------------------------------------------------------------
(* Hosts, and the whole string *)

HostSpec(host, port) == [host |-> host, port |-> port]

ParseHostPort(s) ==
  LET host == {cut[1] : cut \in RSplitOnce(s, T(":"))}
      port == UNION {ParseU16(cut[2]) : cut \in RSplitOnce(s, T(":"))}
  IN  IF s = <<>> THEN Err("MissingHost")
      ELSE IF s[1] = T("[") THEN Err("InvalidHost")
      ELSE IF host = {} THEN Ok(HostSpec(s, {}))
      ELSE IF host = {<<>>} THEN Err("MissingHost")
      ELSE IF port = {} THEN Err("InvalidPort")
      ELSE Ok(HostSpec(Sole(host), port))

\* Mutation: the leftmost `@` ends the user-info.
StripUserInfoLeft(s) == IF SplitOnce(s, T("@")) = {} THEN s ELSE Sole(SplitOnce(s, T("@")))[2]
\* The rightmost `@` ends the user-info, so a password may contain one.
StripUserInfo(s) == IF RSplitOnce(s, T("@")) = {} THEN s ELSE Sole(RSplitOnce(s, T("@")))[2]
BeforeFirst(s, d) == IF SplitOnce(s, d) = {} THEN s ELSE Sole(SplitOnce(s, d))[1]

ParseHosts(srv, s) ==
  LET specs == Split(s, T(","))
      parsed == [i \in DOMAIN specs |-> ParseHostPort(specs[i])]
      bad == SelectInSeq(parsed, IsErr)
  IN  IF s = <<>> THEN Err("MissingHost")
      ELSE IF srv /\ Len(specs) # 1 THEN Err("InvalidSrvHost")
      ELSE IF bad # 0 THEN parsed[bad]
      ELSE IF srv /\ parsed[1].ok.port # {} THEN Err("InvalidSrvHost")
      ELSE Ok([i \in DOMAIN parsed |-> parsed[i].ok])

ParsedConnectionUri(srv, hosts, tls, name) ==
  [srv |-> srv, hosts |-> hosts, tls |-> tls, srv_service_name |-> name]

Parse(uri) ==
  LET scheme == {cut[1] : cut \in SplitOnce(uri, T("://"))}
      rest == Sole(SplitOnce(uri, T("://")))[2]
      srv == scheme = {<<T("mongodb+srv")>>}
      query == {cut[2] : cut \in SplitOnce(rest, T("?"))}
      name == ParseSrvServiceName(query)
  IN  IF scheme = {} THEN Err("MissingScheme")
      ELSE IF ~srv /\ scheme # {<<T("mongodb")>>} THEN Err("UnsupportedScheme")
      ELSE Then(ParseHosts(srv, BeforeFirst(StripUserInfo(BeforeFirst(rest, T("?"))), T("/"))),
             LAMBDA hosts : Then(ParseTlsOption(query), LAMBDA tls :
               IF ~srv /\ name # {} THEN Err("SrvServiceNameOnNonSrv")
               ELSE Ok(ParsedConnectionUri(srv, hosts, tls, name))))

-----------------------------------------------------------------------------
(* route: the constructor a parsed string asks for.  TLS defaults to off   *)
(* for mongodb:// and to on for mongodb+srv://; the port to 27017.         *)

UnwrapOr(opt, default) == IF opt = {} THEN default ELSE Sole(opt)
UseTls(parsed) == UnwrapOr(parsed.tls, parsed.srv)

KindOf(parsed) ==
  IF parsed.srv THEN "Srv" ELSE IF Len(parsed.hosts) > 1 THEN "SeedList" ELSE "Single"

UriRoute(kind, hosts, use_tls, service_name) ==
  [kind |-> kind, hosts |-> hosts, use_tls |-> use_tls, service_name |-> service_name]

RouteOf(parsed) ==
  LET hosts == [i \in DOMAIN parsed.hosts |->
                  [host |-> parsed.hosts[i].host, port |-> UnwrapOr(parsed.hosts[i].port, 27017)]]
  IN  UriRoute(KindOf(parsed), hosts, UseTls(parsed), parsed.srv_service_name)
=============================================================================
