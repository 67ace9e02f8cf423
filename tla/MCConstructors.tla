---------------------------- MODULE MCConstructors ----------------------------
(* A small network, and the connection strings and calls that use it. *)
EXTENDS Constructors

A == <<"a", "example", "com">>
B == <<"b", "example", "com">>
C == <<"c", "example", "com">>
D == <<"_d", "example", "com">>
Apex == <<"example", "com">>
Cluster == <<"cluster", "example", "com">>
X == <<"x">>

MCCert ==
  (A :> "public") @@ (B :> "private") @@ (C :> "none") @@ (D :> "public") @@ (Apex :> "public")
  @@ (Cluster :> "none") @@ (X :> "none")
MCDnsNames == {A, B, C, Apex, Cluster, X}

MCLower == (T("TLS") :> T("tls")) @@ (T("True") :> T("true"))
           @@ (T("srvServiceName") :> T("srvservicename"))
MCNumerals == (T("0") :> 0) @@ (T("27018") :> 27018) @@ (T("65535") :> 65535) @@ (T("65536") :> 65536)
NotANumber == -1
PortToken(n) == IF n = NotANumber THEN T("x") ELSE CHOOSE t \in DOMAIN MCNumerals : MCNumerals[t] = n

-----------------------------------------------------------------------------
(* Connection strings are written from parts. *)

Host(name, port) == [name |-> name, port |-> port]
Option(key, name, value, text) == [key |-> key, name |-> name, value |-> value, text |-> text]
Tls(b) == Option("tls", "TLS", b, IF b = "true" THEN "True" ELSE b)
Ssl(b) == Option("ssl", "ssl", b, b)
Service(s) == Option("srvservicename", "srvServiceName", s, s)
AppName == Option("appname", "appName", "a", "a")

Words(s) == [i \in DOMAIN s |-> T(s[i])]
Joined(ss, d) ==
  FlattenSeq([i \in DOMAIN ss |-> IF i = 1 THEN ss[i] ELSE <<T(d)>> \o ss[i]])
WriteHost(h) == <<h.name>> \o FlattenSeq([i \in 1 .. Cardinality(h.port) |->
                                  <<T(":"), PortToken(Sole(h.port))>>])
WriteOption(o) == <<T(o.name), T("=")>> \o (IF o.text = "" THEN <<>> ELSE <<T(o.text)>>)
Write(p) ==
  (IF p.scheme = "" THEN <<>> ELSE <<T(p.scheme), T("://")>>)
  \o Words(p.user) \o Joined([i \in DOMAIN p.hosts |-> WriteHost(p.hosts[i])], ",") \o Words(p.path)
  \o (IF p.options = <<>> THEN <<>>
      ELSE <<T("?")>> \o Joined([i \in DOMAIN p.options |-> WriteOption(p.options[i])], "&"))

Around ==
  {<<<<>>, <<>>>>, <<<<"u", ":", "p", "@">>, <<"/">>>>,
   <<<<"u", ":", "p", "@", "/", ":", ",", "@">>, <<"/", "db", ",", ":">>>>}
\* Delimiters where they had to be escaped: the host is taken to be x.
Unescaped == {<<<<"x", "?", "w", "@">>, <<>>>>, <<<<>>, <<"/", "db", "@", "x">>>>}
HostLists == {<<>>, <<Host(Cluster, {})>>, <<Host(A, {65535})>>, <<Host(C, {}), Host(B, {0})>>,
              <<Host(A, {}), Host(C, {27018}), Host(B, {})>>, <<Host(A, {65536})>>,
              <<Host(A, {}), Host(B, {NotANumber})>>}
OptionLists ==
  {<<AppName>>, <<Tls("true")>>, <<Tls("false"), AppName>>, <<Ssl("true"), Tls("true")>>,
   <<Ssl("false"), Tls("true")>>, <<Tls("false"), Tls("true")>>, <<Tls("true"), Ssl("false"), Ssl("true")>>,
   <<Tls("no")>>, <<Service("svc")>>, <<Service("svc"), Service("")>>, <<Service(""), Ssl("false")>>}

Parts(scheme, user, list, path, options) ==
  [scheme |-> scheme, srv |-> scheme = "mongodb+srv", user |-> user, hosts |-> list, path |-> path, options |-> options]
MCParts ==
  {Parts(scheme, around[1], list, around[2], <<>>) :
     scheme \in {"mongodb", "mongodb+srv"}, around \in Around, list \in HostLists}
  \cup {Parts(scheme, around[1], <<Host(A, {})>>, around[2], <<Tls("true")>>) :
          scheme \in {"mongodb", "mongodb+srv"}, around \in Unescaped}
  \cup {Parts(scheme, <<>>, <<Host(A, {})>>, <<>>, <<>>) : scheme \in {"", "http"}}
  \cup {Parts(scheme, <<"u", ":", "p", "@">>, list, <<"/">>, options) :
          scheme \in {"mongodb", "mongodb+srv"}, list \in {<<Host(Cluster, {})>>, <<Host(A, {}), Host(C, {})>>}, options \in OptionLists}

UriCall(p) ==
  [ctor |-> "from_uri", uri |-> Write(p), parts |-> p,
   hosts |-> [i \in DOMAIN p.hosts |-> [host |-> <<p.hosts[i].name>>, port |-> 27017]]]
Named(name) == <<[host |-> <<name>>, port |-> 27017]>>

MCCalls ==
  {UriCall(p) : p \in MCParts}
  \cup [ctor : {"new"}, hosts : {Named(C)}]
  \cup [ctor : {"from_srv"}, hosts : {Named(Cluster)}, use_tls : {TRUE}]
  \cup [ctor : {"with_tls"}, hosts : {Named(A), Named(D)},
        tls : {"Disabled", "System", "WithRoots", "Insecure"}]
  \cup [ctor : {"from_srv_with_tls"}, hosts : {Named(Cluster)}, tls : {"WithRoots", "Insecure"},
        interval : {{}, {60}}]
  \cup [ctor : {"from_srv_with"}, hosts : {Named(Apex)}, use_tls : BOOLEAN, interval : {{60}}]

Srv(name, priority, weight) ==
  [type |-> "SRV",
   data |-> [target |-> name, port |-> 27017, priority |-> priority, weight |-> weight]]
CName == [type |-> "CNAME", data |-> [canonical |-> A]]
MCAnswers ==
  {<<>>,
   <<Srv(A \o <<"">>, 0, 0), Srv(B, 0, 0), Srv(C, 0, 0)>>,
   <<Srv(A, 1, 0), Srv(C, 0, 2), Srv(B \o <<"">>, 0, 1)>>,
   <<Srv(B, 0, 1), Srv(C, 0, 0), Srv(D, 0, 0)>>,
   <<Srv(A, 0, 0), Srv(Apex, 1, 0)>>,
   <<CName>>,
   <<CName, Srv(A, 0, 0), CName>>,
   <<Srv(<<"a", "other", "org">>, 0, 0)>>}

\* Modern and legacy primaries and secondaries, a server error, and an OP_REPLY.
Claims(b, keys) == [op |-> "Msg", bodies |-> <<[k \in keys |-> [bool |-> b]]>>]
MCReplies ==
  {Claims(b, keys) : b \in BOOLEAN, keys \in {{"isWritablePrimary"}, {"ismaster"}}}
  \cup {[op |-> "Msg", bodies |-> <<[ok |-> [int |-> 0]]>>],
        [op |-> "Reply", bodies |-> <<[ismaster |-> [bool |-> TRUE]]>>]}
=============================================================================
