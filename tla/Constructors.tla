----------------------------- MODULE Constructors -----------------------------
(***************************************************************************)
(* The constructors of Proxy, from a connection string or its parts to a   *)
(* target and a TLS connector, and the rounds by which the background loop *)
(* replaces the target.  When the loop wakes and stops is Failover's, the  *)
(* race between the probes SelectPrimary's: here a round probes a list of  *)
(* hosts and any of those that answer as primary may win.                  *)
(***************************************************************************)
EXTENDS ConnectionUri, SrvResolve

CONSTANTS
  Calls,      \* the constructor calls, each with the parts its URI was written from
  Answers,    \* what the DNS may answer: sequences of resource records
  Replies,    \* what a host that is up may answer to hello
  Cert,       \* per host name: "none", "public" or "private"
  DnsNames,   \* the names ServerName::try_from accepts
  MaxRounds   \* bound: rounds of the background loop

\* A name is a sequence of labels.
ASSUME ConstructorsAssumption ==
  MaxRounds \in Nat /\ DOMAIN Cert \subseteq Seq(STRING) \ {<<>>}

VARIABLES
  call,       \* the constructor's arguments
  stage,      \* where the constructor, then the loop, stands
  plan,       \* what the arguments ask for
  connector,  \* Option<TlsConnector> of the Proxy
  records,    \* SRV records not drawn yet
  ordered,    \* SRV records drawn, in order
  answer,     \* the answer being ordered
  hosts,      \* the hosts to probe
  target,     \* Option<Target>: none before the Proxy is built
  looping,    \* the background loop was spawned
  error,      \* the constructor's error
  rounds,     \* rounds of the loop so far
  forwarded,  \* what became of the last connection dialled
  asked       \* history: the DNS queries

srvVars == <<records, ordered, answer>>
vars == <<call, stage, plan, connector, srvVars, hosts, target, looping, error,
          rounds, forwarded, asked>>

-----------------------------------------------------------------------------
(* TlsConfig and what its connector trusts *)

TlsConfig == {"Disabled", "System", "WithRoots", "Insecure"}

\* The certificates a connector accepts: those under its roots, or any.
RootsConfig(roots) == roots
InsecureConfig == {"public", "private"}
BuildTlsConnector(tls) ==
  CASE tls = "Disabled" -> {}
    [] tls = "System" -> {RootsConfig({"public"})}
    [] tls = "WithRoots" -> {RootsConfig({"private"})}
    [] tls = "Insecure" -> {InsecureConfig}
DefaultTlsConnector == RootsConfig({"public"})

\* The TlsConfig of a use_tls flag, as from_uri and from_srv_with choose it.
TlsConfigOf(use_tls) == IF use_tls THEN "System" ELSE "Disabled"

ProxyClientForwardError == {"FailedToConnectToProxiedServer", "InvalidServerName", "TlsHandshake"}

\* ProxyClient::forward_to: the error, or "" for a connected socket.
ForwardTo(name, up, tls) ==
  IF ~up THEN "FailedToConnectToProxiedServer"
  ELSE IF tls # {} /\ name \notin DnsNames THEN "InvalidServerName"
  ELSE IF tls # {} /\ Cert[name] \notin Sole(tls) THEN "TlsHandshake"
  ELSE ""

\* A host is down, takes no request, does not answer, closes or fails the
\* connection, or replies.
Broken == {"down", "refuses", "silent", "closes", "fails"}
Conditions == {[is |-> c] : c \in Broken} \cup {[is |-> "up", reply |-> m] : m \in Replies}

\* extract_is_writable_primary: the first boolean isWritablePrimary, or ismaster
\* in a document without one, of the bodies of an OP_MSG.
GetBool(doc, key) == IF key \in DOMAIN doc /\ "bool" \in DOMAIN doc[key] THEN <<doc[key].bool>> ELSE <<>>
ExtractIsWritablePrimary(m) ==
  LET claims == FlattenSeq([i \in DOMAIN m.bodies |->
                  GetBool(m.bodies[i], "isWritablePrimary") \o GetBool(m.bodies[i], "ismaster")])
  IN  {claims[i] : i \in {1} \cap (IF m.op = "Msg" THEN DOMAIN claims ELSE {})}

\* HelloProbe::is_primary under its timeout.  A server that terminates TLS does
\* not answer a plain hello.
IsPrimary(name, condition, tls) ==
  IF ForwardTo(name, condition.is # "down", tls) # "" THEN Err("Connect")
  ELSE IF condition.is = "refuses" THEN Err("Request")
  ELSE IF condition.is = "silent" THEN Err("TimedOut")
  ELSE IF condition.is = "fails" THEN Err("Response")
  ELSE IF condition.is = "closes" \/ (tls = {} /\ Cert[name] # "none") THEN Err("NoReply")
  ELSE IF ExtractIsWritablePrimary(condition.reply) = {} THEN Err("MalformedReply")
  ELSE Ok(Sole(ExtractIsWritablePrimary(condition.reply)))

-----------------------------------------------------------------------------
(* What the arguments ask for: a constructor is the Plan it ends up with.  *)

Plan(kind, list, service, tls, interval) ==
  [kind |-> kind, hosts |-> list, service |-> service, tls |-> tls, interval |-> interval]

DEFAULT_SRV_SERVICE_NAME == <<T("mongodb")>>
DEFAULT_REPROBE_INTERVAL == {60}

WithTls(list, tls) == Ok(Plan("Single", list, <<>>, tls, {}))
ProxyNew(list) == WithTls(list, "Disabled")

FromSrvInner(list, service, tls, interval) == Ok(Plan("Srv", list, service, tls, interval))
FromSrvWithTls(list, tls, interval) == FromSrvInner(list, DEFAULT_SRV_SERVICE_NAME, tls, interval)
FromSrvWith(list, use_tls, interval) == FromSrvWithTls(list, TlsConfigOf(use_tls), interval)
FromSrv(list, use_tls) == FromSrvWith(list, use_tls, DEFAULT_REPROBE_INTERVAL)

FromUri(uri) ==
  Then(Parse(uri), LAMBDA parsed : LET r == RouteOf(parsed) IN
    CASE r.kind = "Single" -> WithTls(r.hosts, TlsConfigOf(r.use_tls))
      [] r.kind = "SeedList" ->
           Ok(Plan("SeedList", r.hosts, <<>>, TlsConfigOf(r.use_tls), DEFAULT_REPROBE_INTERVAL))
      [] r.kind = "Srv" ->
           FromSrvInner(r.hosts, UnwrapOr(r.service_name, DEFAULT_SRV_SERVICE_NAME),
                        TlsConfigOf(r.use_tls), DEFAULT_REPROBE_INTERVAL))
FromUriError == ConnectionUriError \cup SrvResolveError

PlanOf(c) ==
  CASE c.ctor = "new" -> ProxyNew(c.hosts)
    [] c.ctor = "with_tls" -> WithTls(c.hosts, c.tls)
    [] c.ctor = "from_srv" -> FromSrv(c.hosts, c.use_tls)
    [] c.ctor = "from_srv_with" -> FromSrvWith(c.hosts, c.use_tls, c.interval)
    [] c.ctor = "from_srv_with_tls" -> FromSrvWithTls(c.hosts, c.tls, c.interval)
    [] c.ctor = "from_uri" -> FromUri(c.uri)

Init ==
  /\ call \in Calls /\ stage = "enter" /\ plan = [kind |-> "none"]
  /\ connector = {} /\ records = <<>> /\ ordered = <<>> /\ answer = <<>>
  /\ hosts = <<>> /\ target = {} /\ looping = FALSE /\ error = ""
  /\ rounds = 0 /\ forwarded = "" /\ asked = {}

\* The constructor returns its error; a round of the loop keeps its target.
Return(e) ==
  IF target = {} THEN stage' = "failed" /\ error' = e
  ELSE stage' = "built" /\ UNCHANGED error

-----------------------------------------------------------------------------
(* Parsing and routing.  One host is used as it is; a seed list is probed; *)
(* a name of mongodb+srv is looked up first.                               *)

Rejected ==
  /\ stage = "enter" /\ IsErr(PlanOf(call))
  /\ Return(PlanOf(call).err)
  /\ UNCHANGED <<call, plan, connector, srvVars, hosts, target, looping, rounds, forwarded, asked>>

Entered(kind) ==
  /\ stage = "enter" /\ ~IsErr(PlanOf(call)) /\ PlanOf(call).ok.kind = kind
  /\ plan' = PlanOf(call).ok
  /\ UNCHANGED <<call, srvVars, looping, error, rounds, forwarded, asked>>

EnterSingle ==
  /\ Entered("Single")
  /\ connector' = BuildTlsConnector(plan'.tls)
  /\ target' = {plan'.hosts[1]} /\ stage' = "built"
  /\ UNCHANGED hosts

EnterSeedList ==
  /\ Entered("SeedList")
  /\ connector' = IF plan'.tls = "System" THEN {DefaultTlsConnector} ELSE {}
  /\ hosts' = plan'.hosts /\ stage' = "probe"
  /\ UNCHANGED target

EnterSrv ==
  /\ Entered("Srv")
  /\ stage' = "lookup"
  /\ UNCHANGED <<connector, hosts, target>>

-----------------------------------------------------------------------------
(* resolve_with_service_name *)

SrvName == plan.hosts[1].host[1]

Query == [service |-> plan.service, name |-> SrvName]

\* The resolver cannot be built, or the lookup fails.
LookupFails(e) ==
  /\ stage = "lookup"
  /\ asked' = IF e = "Lookup" THEN asked \cup {Query} ELSE asked
  /\ Return(e)
  /\ UNCHANGED <<call, plan, connector, srvVars, hosts, target, looping, rounds, forwarded>>

Lookup(a) ==
  /\ stage = "lookup"
  /\ asked' = asked \cup {Query}
  /\ answer' = LookupRecords(a)
  /\ records' = SortByPriority(answer') /\ ordered' = <<>>
  /\ stage' = "order"
  /\ UNCHANGED <<call, plan, connector, hosts, target, looping, error, rounds, forwarded>>

\* One turn of weighted_shuffle_into: the draw picks a record of the group.
Draw(pick) ==
  LET group == Group(records)
  IN  /\ stage = "order" /\ records # <<>> /\ pick \in GenRangeInclusive(Total(group))
      /\ ordered' = Append(ordered, group[Chosen(group, pick)])
      /\ records' = RemoveFirst(records, group[Chosen(group, pick)])
      /\ UNCHANGED <<call, stage, plan, connector, answer, hosts, target, looping, error,
                     rounds, forwarded, asked>>

SrvHosts ==
  [i \in DOMAIN ordered |-> SrvHost(StripTrailingDot(ordered[i].target), ordered[i].port)]

\* The reset that follows the ordering; nothing of the answer is kept.
Forget == records' = <<>> /\ ordered' = <<>> /\ answer' = <<>>

\* Mutation: the query is sent again while its answer is empty.
EmptyRetried == stage' = "lookup" /\ UNCHANGED error
Empty == Return("NoRecords")

\* Trailing dots are stripped and every target must be in the parent domain; the
\* connector is built once the constructor has its hosts.
Validate ==
  LET parent == ParentDomain(SrvName)
      stray == \E i \in DOMAIN SrvHosts : ~TargetInParentDomain(SrvHosts[i].host[1], parent)
  IN  /\ stage = "order" /\ records = <<>>
      /\ IF stray \/ SrvHosts = <<>>
         THEN /\ IF stray THEN Return("DomainMismatch") ELSE Empty
              /\ UNCHANGED <<hosts, connector>>
         ELSE /\ hosts' = SrvHosts /\ connector' = BuildTlsConnector(plan.tls)
              /\ stage' = "probe" /\ UNCHANGED error
      /\ Forget
      /\ UNCHANGED <<call, plan, target, looping, rounds, forwarded, asked>>

-----------------------------------------------------------------------------
(* Selecting the primary, at first and in every round *)

\* Mutation: the probes go out without TLS.
ProbeConnectorPlain == {}
\* HelloProbe::new(tls_connector.clone())
ProbeConnector == connector

Primaries(condition) ==
  {i \in DOMAIN hosts :
     IsPrimary(hosts[i].host[1], condition[hosts[i].host[1]], ProbeConnector) = Ok(TRUE)}

\* select_target builds the Proxy and spawns the loop; apply_primary replaces
\* the target of one that exists.
Selected(condition) ==
  /\ stage = "probe"
  /\ \E i \in Primaries(condition) : target' = {hosts[i]}
  /\ looping' = (plan.interval # {})
  /\ stage' = "built" /\ hosts' = <<>>
  /\ UNCHANGED <<call, plan, connector, srvVars, error, rounds, forwarded, asked>>

NoPrimary(condition) ==
  /\ stage = "probe" /\ Primaries(condition) = {}
  /\ Return("NoPrimary")
  /\ hosts' = <<>>
  /\ UNCHANGED <<call, plan, connector, srvVars, target, looping, rounds, forwarded, asked>>

\* The interval has elapsed: a new lookup, or the same seed list again.
Tick ==
  /\ stage = "built" /\ looping /\ rounds < MaxRounds
  /\ rounds' = rounds + 1
  /\ IF plan.kind = "Srv" THEN stage' = "lookup" /\ UNCHANGED hosts
     ELSE stage' = "probe" /\ hosts' = plan.hosts
  /\ UNCHANGED <<call, plan, connector, srvVars, target, looping, error, forwarded, asked>>

ReadTarget == Sole(target)

\* Service<SocketAddr>::call: a client's connection is dialled to the target of
\* the moment with the Proxy's connector.
Dial(up) ==
  /\ target # {} /\ stage # "enter"
  /\ forwarded' = ForwardTo(ReadTarget.host[1], up, connector)
  /\ UNCHANGED <<call, stage, plan, connector, srvVars, hosts, target, looping, error, rounds, asked>>

-----------------------------------------------------------------------------
Probe ==
  \E condition \in [{hosts[i].host[1] : i \in DOMAIN hosts} -> Conditions] :
    Selected(condition) \/ NoPrimary(condition)

Resolve ==
  \/ \E e \in {"ResolverInit", "Lookup"} : LookupFails(e)
  \/ \E a \in Answers : Lookup(a)
  \/ \E pick \in GenRangeInclusive(Total(Group(records))) : Draw(pick)
  \/ Validate

Construct == Rejected \/ EnterSingle \/ EnterSeedList \/ EnterSrv \/ Resolve \/ Probe

Next == Construct \/ Tick \/ \E up \in BOOLEAN : Dial(up)

Spec == Init /\ [][Next]_vars

\* The constructor's and the loop's task is polled; lookups and probes end, by
\* their own timeouts if need be.  Construct is enabled just when the task is
\* working, and each of its steps moves the stage or draws a record: this is
\* WF_vars(Construct).
Working == stage \notin {"built", "failed"}
FairSpec == Spec /\ (<>[]Working => []<><<TRUE>>_<<stage, ordered>>)

-----------------------------------------------------------------------------
(* Properties *)

Names == DOMAIN Cert
U16 == 0 .. 2^16 - 1

\* Type invariant: hosts have names the network knows and 16-bit ports.
TypeOK ==
  /\ stage \in {"enter", "lookup", "order", "probe", "built", "failed"}
  /\ \A h \in target \cup ToSet(hosts) : h.host[1] \in Names /\ h.port \in U16
  /\ error \in (IF stage = "failed" THEN FromUriError ELSE {""})
  /\ forwarded \in ProxyClientForwardError \cup {""}
  /\ plan.kind # "none" => plan.tls \in TlsConfig
  /\ plan.kind = "Srv" => SrvName \in Names
  /\ (stage = "built") => target # {}
  /\ rounds \in 0 .. MaxRounds /\ looping \in BOOLEAN

\* The values the last of the tls and ssl options of the written URI give.
AskedTls(p) ==
  LET i == SelectLastInSeq(p.options, LAMBDA o : o.key \in {"tls", "ssl"})
  IN  IF i = 0 THEN p.srv ELSE p.options[i].value = "true"

\* The parts a connection string may be written from.
WellFormed(p) ==
  LET of(key) == {p.options[i].value : i \in {j \in DOMAIN p.options : p.options[j].key = key}}
      last(key) == {p.options[i].value : i \in
                      {SelectLastInSeq(p.options, LAMBDA o : o.key = key)} \ {0}}
  IN  /\ p.scheme \in {"mongodb", "mongodb+srv"} /\ Len(p.hosts) > 0
      /\ \A i \in DOMAIN p.hosts : \A n \in p.hosts[i].port : n \in U16
      /\ p.srv => Len(p.hosts) = 1 /\ p.hosts[1].port = {}
      /\ of("tls") \cup of("ssl") \subseteq {"true", "false"}
      /\ last("tls") = {} \/ last("ssl") = {} \/ last("tls") = last("ssl")
      /\ of("srvservicename") \ {""} # {} => p.srv

\* uri::parse accepts exactly the well-formed connection strings, and recovers
\* the hosts they were written from.
HostsRecovered(p, parsed) ==
  /\ IsErr(parsed) <=> ~WellFormed(p)
  /\ ~IsErr(parsed) =>
       /\ parsed.ok.srv = p.srv
       /\ Len(parsed.ok.hosts) = Len(p.hosts)
       /\ \A i \in DOMAIN p.hosts :
            parsed.ok.hosts[i] = [host |-> <<p.hosts[i].name>>, port |-> p.hosts[i].port]

\* The service name a connection string gives, the last that is not empty.
AskedService(p) ==
  LET i == SelectLastInSeq(p.options, LAMBDA o : o.key = "srvservicename" /\ o.value # "")
  IN  <<T(IF i = 0 THEN "mongodb" ELSE p.options[i].value)>>

\* The query string is cut off at the first `?` and the user-info at the last `@`
\* before it, wherever they stand: user-info must escape `?`, a database both.
Escaped(p) == "?" \notin ToSet(p.user) /\ {"?", "@"} \cap ToSet(p.path) = {}

\* A Proxy is what its connection string was written to say, when user-info has no
\* bare `?` and the database neither `?` nor `@`, whatever other delimiters they
\* contain: its hosts; the TLS of the last tls or ssl option in any spelling, or
\* else of the scheme; and in every lookup, those of the background loop included,
\* the name and the service (uri::parse, from_uri).
UriHonoured ==
  (call.ctor = "from_uri" /\ Escaped(call.parts)) =>
    /\ HostsRecovered(call.parts, Parse(call.uri))
    /\ target # {} => connector = BuildTlsConnector(TlsConfigOf(AskedTls(call.parts)))
    /\ \A q \in asked :
         q.name = call.hosts[1].host[1] /\ q.service = AskedService(call.parts)

\* Each draw is in proportion to the weights: of the Total + 1 equally likely
\* numbers a record gets its weight, and the first of the group one more, so
\* that a record of weight 0 is drawn when it is the first.
FairDraw(group) ==
  LET share(i) == Cardinality({pick \in 0 .. Total(group) : Chosen(group, pick) = i})
  IN  /\ \A i \in DOMAIN group : share(i) = group[i].weight + (IF i = 1 THEN 1 ELSE 0)
      /\ (\E i \in DOMAIN group : group[i].weight = 0) => group[1].weight = 0

\* The SRV order is a permutation of the answer by ascending priority; within a
\* priority the draws are fair, and records that all have weight 0 keep the
\* resolver's order (order_by_priority_weight,
\* weighted_shuffle_into).
OrderRespected ==
  stage = "order" =>
    /\ ToBag(ordered \o records) = ToBag(answer)
    /\ \A i, j \in DOMAIN (ordered \o records) :
         i < j => (ordered \o records)[i].priority <= (ordered \o records)[j].priority
    /\ (\A r \in ToSet(answer) : r.weight = 0) =>
         ordered \o records = SortByPriority(answer)
    /\ records # <<>> => FairDraw(Group(records))

\* Whatever the DNS answers, at the start or in a later round, a Proxy built from
\* an SRV name never targets a host that is not under the domain of that name.
TargetInDomain ==
  (plan.kind = "Srv" /\ target # {}) =>
    \A h \in target : \E n \in 1 .. Len(h.host[1]) - 1 :
      SubSeq(h.host[1], n + 1, Len(h.host[1])) = ParentDomain(SrvName)

\* A target that was chosen by probing can be forwarded to: no client is later
\* refused because the name or the certificate does not suit the connector.
ProbedIsForwardable ==
  plan.kind \in {"SeedList", "Srv"} => forwarded \notin {"InvalidServerName", "TlsHandshake"}

\* A constructor returns and every round of the loop ends, whatever the DNS and
\* the hosts answer.
RoundsEnd == Working ~> ~Working
=============================================================================
